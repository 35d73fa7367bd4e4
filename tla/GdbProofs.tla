------------------------------- MODULE GdbProofs -------------------------------
(***************************************************************************)
(* What is proved about the GDB target for any number of packets under     *)
(* way: a packet that reads or writes the machine is handled while no      *)
(* instruction is being executed, a debugger that waits for nothing finds  *)
(* the machine standing still, and a resumption gets one stop reply.       *)
(*                                                                         *)
(* The run state is read without the mutex, and the packet is handled      *)
(* without it, so neither the mutex nor the test alone is a reason.  The   *)
(* reason is that the emulation thread executes only while it holds the    *)
(* mutex and the run state is the one it took when it got it, and that     *)
(* the only thread that takes a stopped machine out of that state is the   *)
(* socket thread itself, at the end of a packet.                           *)
(***************************************************************************)
EXTENDS Gdb, TLAPS

(* The emulation thread has the mutex from before its slice until the slice is
   accounted for, and nobody else writes the run state in the meantime. *)
SliceHeld ==
    /\ emu \in Executing => held /\ run = emu
    /\ emu \in {"trapped", "stepped"} => held

(* While the socket thread handles a packet the machine stays stopped. *)
RequestStopped == sock \in Requests => run = "stopped"

(* The inductive invariant.  Neither half is inductive by itself: that a Traps or
   a Steps does not start the machine under a packet is SliceHeld's. *)
IInv == TypeOK /\ SliceHeld /\ RequestStopped

-----------------------------------------------------------------------------
(* Types come in two parts: what is on its way, and the rest. *)
Packets == Requests \union {"break"}
Replies == {"stop", "answer"}
Wires == wire \in Seq(Packets) /\ replies \in Seq(Replies)

Clients == {"out", "ready", "asking", "resumed", "broken", "leaving", "reset", "fin"}
Places ==
    /\ run \in {"running", "stopped", "single_step"}
    /\ held \in BOOLEAN /\ waiting \subseteq {"emu", "sock"}
    /\ emu \in Executing \union {"idle", "waiting", "timed out", "trapped", "stepped"}
    /\ sock \in Requests \union
          {"accept", "attach", "read", "break", "check", "step wait", "closing"}
    /\ cmd \in Requests /\ armed \in BOOLEAN /\ client \in Clients

LEMMA TypeParts == TypeOK <=> Places /\ Wires
  BY DEF TypeOK, Places, Wires, Packets, Replies, Clients

LEMMA TypePartsNext == TypeOK' <=> Places' /\ Wires'
  BY DEF TypeOK, Places, Wires, Packets, Replies, Clients

LEMMA ReplyType ==
    ASSUME Wires, NEW x \in Replies, Reply(x)
    PROVE  replies' \in Seq(Replies)
  <1>1. Append(replies, x) \in Seq(Replies)
    BY DEF Wires
  <1> QED
    BY <1>1 DEF Reply, Wires

LEMMA SendType ==
    ASSUME Wires, NEW x \in Packets, Sends(x)
    PROVE  wire' \in Seq(Packets)
  <1>1. Append(wire, x) \in Seq(Packets)
    BY DEF Wires
  <1> QED
    BY <1>1 DEF Sends

LEMMA HeadType ==
    ASSUME Wires, wire # <<>>
    PROVE  Head(wire) \in Packets
  BY DEF Wires

(* What is under way is of its type, whatever is taken from it or added to it. *)
LEMMA WiresKeep ==
    ASSUME Wires, [Next]_vars
    PROVE  Wires'
  <1>1. wire \in Seq(Packets) /\ replies \in Seq(Replies)
    BY DEF Wires
  <1>2. /\ \A S : <<>> \in Seq(S)
        /\ wire # <<>> => Tail(wire) \in Seq(Packets)
        /\ replies # <<>> => Tail(replies) \in Seq(Replies)
    BY <1>1
  <1>3. "stop" \in Replies /\ "answer" \in Replies /\ "query" \in Packets
        /\ "break" \in Packets /\ Requests \subseteq Packets
    BY DEF Replies, Packets, Requests
  <1>4. wire' \in Seq(Packets)
    <2>1. CASE Emu
      BY <1>1, <2>1 DEF Emu, Lock, TimesOut, GivesUp, Wakes, SliceEnds, Traps, ReportTrap,
                        Steps, ReportStep
    <2>2. CASE Sock
      BY <1>1, <1>2, <2>2 DEF Sock, Attaches, Reads, LosesClient, Breaks, Checks, Answers,
                        Continues, BeginsStep, EndsStep, Detaches, Closes
    <2>3. CASE Connects \/ Receives \/ \E how \in Endings : Vanishes(how)
      BY <1>1, <1>2, <2>3 DEF Connects, Receives, Vanishes
    <2>4. CASE AsksEarly \/ BreaksIn
      BY <1>3, <2>4, SendType DEF AsksEarly, BreaksIn
    <2>5. ASSUME NEW x \in Requests, Requires(x) PROVE wire' \in Seq(Packets)
      BY <1>3, <2>5, SendType DEF Requires
    <2>6. CASE UNCHANGED vars
      BY <1>1, <2>6 DEF vars
    <2> QED
      BY <2>1, <2>2, <2>3, <2>4, <2>5, <2>6 DEF Next, Debugger
  <1>5. replies' \in Seq(Replies)
    <2>1. Reply("stop") \/ Reply("answer") => replies' \in Seq(Replies)
      BY <1>3, ReplyType
    <2>2. CASE Emu
      BY <1>1, <2>1, <2>2 DEF Emu, Lock, TimesOut, GivesUp, Wakes, SliceEnds, Traps,
                        ReportTrap, Steps, ReportStep
    <2>3. CASE Sock
      BY <1>1, <2>1, <2>3 DEF Sock, Attaches, Reads, LosesClient, Breaks, Checks, Answers,
                        Continues, BeginsStep, EndsStep, Detaches, Closes, Interrupt
    <2>4. CASE Debugger
      BY <1>1, <1>2, <2>4 DEF Debugger, Connects, Receives, Vanishes, AsksEarly, BreaksIn,
                        Requires
    <2>5. CASE UNCHANGED vars
      BY <1>1, <2>5 DEF vars
    <2> QED
      BY <2>2, <2>3, <2>4, <2>5 DEF Next
  <1> QED
    BY <1>4, <1>5 DEF Wires

-----------------------------------------------------------------------------
LEMMA InitHolds == Init => IInv
  <1> SUFFICES ASSUME Init PROVE IInv
    OBVIOUS
  <1>1. Wires
    BY DEF Init, Wires
  <1>2. Places
    BY DEF Init, Places, Executing, Requests, Clients
  <1> QED
    BY <1>1, <1>2, TypeParts
       DEF Init, IInv, SliceHeld, RequestStopped, Executing, Requests

(* What is inductive but for the packets. *)
Held == Places /\ SliceHeld /\ RequestStopped

LEMMA EmuKeeps == Held /\ Emu => Held'
  <1> SUFFICES ASSUME Held, Emu PROVE Held'
    OBVIOUS
  <1> USE DEF Held, Places, SliceHeld, RequestStopped, Executing
  <1>1. CASE Lock
    BY <1>1 DEF Lock
  <1>2. CASE TimesOut
    BY <1>2 DEF TimesOut
  <1>3. CASE GivesUp
    BY <1>3 DEF GivesUp
  <1>4. CASE Wakes
    BY <1>4 DEF Wakes, WakePending
  <1>5. CASE SliceEnds
    BY <1>5 DEF SliceEnds
  <1>6. CASE Traps
    BY <1>6 DEF Traps
  <1>7. CASE ReportTrap
    BY <1>7 DEF ReportTrap
  <1>8. CASE Steps
    BY <1>8 DEF Steps
  <1>9. CASE ReportStep
    BY <1>9 DEF ReportStep
  <1> QED
    BY <1>1, <1>2, <1>3, <1>4, <1>5, <1>6, <1>7, <1>8, <1>9 DEF Emu

LEMMA SockKeeps == Held /\ Wires /\ Sock => Held'
  <1> SUFFICES ASSUME Held, Wires, Sock PROVE Held'
    OBVIOUS
  <1> USE DEF Held, Places, SliceHeld, RequestStopped, Executing, Requests, target
  <1>1. CASE Attaches
    BY <1>1 DEF Attaches, Interrupt
  <1>2. CASE Reads
    <2>1. Head(wire) \in Packets
      BY <1>2, HeadType DEF Reads
    <2> QED
      BY <1>2, <2>1 DEF Reads, Packets
  <1>3. CASE LosesClient
    BY <1>3 DEF LosesClient
  <1>4. CASE Breaks
    BY <1>4 DEF Breaks, Interrupt
  <1>5. CASE Checks
    BY <1>5 DEF Checks
  <1>6. CASE Answers
    BY <1>6 DEF Answers
  <1>7. CASE Continues
    BY <1>7 DEF Continues, Continue
  <1>8. CASE BeginsStep
    BY <1>8 DEF BeginsStep
  <1>9. CASE EndsStep
    BY <1>9 DEF EndsStep
  <1>10. CASE Detaches
    BY <1>10 DEF Detaches
  <1>11. CASE Closes
    BY <1>11 DEF Closes, Continue, Clients
  <1> QED
    BY <1>1, <1>2, <1>3, <1>4, <1>5, <1>6, <1>7, <1>8, <1>9, <1>10, <1>11 DEF Sock

(* The debugger touches nothing of the machine; it can only begin a connection. *)
LEMMA DebuggerKeeps == Held /\ Debugger => Held'
  <1> SUFFICES ASSUME Held, Debugger PROVE Held'
    OBVIOUS
  <1>1. /\ UNCHANGED <<run, held, waiting, emu, armed, cmd>>
        /\ sock' \in {sock, "attach"}
    BY DEF Debugger, Connects, Requires, AsksEarly, BreaksIn, Receives, Vanishes, target
  <1>2. client' \in Clients
    <2>1. client \in Clients
      BY DEF Held, Places
    <2>2. ASSUME NEW x \in Requests, Requires(x) PROVE client' \in Clients
      BY <2>2 DEF Requires, Clients
    <2>3. ASSUME NEW how \in Endings, Vanishes(how) PROVE client' \in Clients
      BY <2>3, GdbAssumption DEF Vanishes, Clients
    <2>4. CASE Connects \/ AsksEarly \/ BreaksIn
      BY <2>1, <2>4 DEF Connects, AsksEarly, BreaksIn, Clients
    <2>5. CASE Receives
      BY <2>1, <2>5 DEF Receives, Clients
    <2> QED
      BY <2>2, <2>3, <2>4, <2>5 DEF Debugger
  <1>3. Places'
    BY <1>1, <1>2 DEF Held, Places
  <1>4. SliceHeld' /\ RequestStopped'
    BY <1>1 DEF Held, SliceHeld, RequestStopped, Requests
  <1> QED
    BY <1>3, <1>4 DEF Held

LEMMA NextHolds == IInv /\ [Next]_vars => IInv'
  <1> SUFFICES ASSUME IInv, [Next]_vars PROVE IInv'
    OBVIOUS
  <1>1. Held /\ Wires
    BY TypeParts DEF IInv, Held
  <1>2. UNCHANGED vars => Held'
    <2> SUFFICES ASSUME UNCHANGED vars PROVE Held'
      OBVIOUS
    <2>1. UNCHANGED <<run, held, waiting, emu, sock, cmd, armed, client>>
      BY DEF vars
    <2>2. Places'
      BY <1>1, <2>1 DEF Held, Places
    <2>3. SliceHeld' /\ RequestStopped'
      BY <1>1, <2>1 DEF Held, SliceHeld, RequestStopped
    <2> QED
      BY <2>2, <2>3 DEF Held
  <1>3. Held'
    BY <1>1, <1>2, EmuKeeps, SockKeeps, DebuggerKeeps DEF Next
  <1>4. TypeOK'
    BY <1>1, <1>3, WiresKeep, TypePartsNext DEF Held
  <1> QED
    BY <1>3, <1>4 DEF IInv, Held

LEMMA AlwaysHolds == Spec => []IInv
  BY InitHolds, NextHolds, PTL DEF Spec

(* The run state, the places of the two threads and the packets keep their types. *)
THEOREM TypeCorrect == Spec => []TypeOK
  <1>1. IInv => TypeOK
    BY DEF IInv
  <1> QED
    BY <1>1, AlwaysHolds, PTL

(* A packet reads and writes registers and memory only while no instruction is
   being executed, although the check before it (gdb.c:412) takes no mutex. *)
THEOREM HandledStopped == Spec => []HandledWhileStopped
  <1>1. IInv => HandledWhileStopped
    BY DEF IInv, SliceHeld, RequestStopped, HandledWhileStopped, Executing
  <1> QED
    BY <1>1, AlwaysHolds, PTL

-----------------------------------------------------------------------------
(* The conversation                                                        *)

NoneIn(q, S) == \A i \in DOMAIN q : q[i] \notin S
OneIn(q, S) == \E i \in DOMAIN q : q[i] \in S /\ \A j \in DOMAIN q : j # i => q[j] \notin S

(* A request to resume is under way to the machine: at the socket thread, or before it. *)
Resumes == {"continue", "step"}
Stops == {"stop"}
Taken == sock \in Resumes \/ (sock = "check" /\ cmd \in Resumes)
NoneComing == ~Taken /\ NoneIn(wire, Resumes)
OneComing == IF Taken THEN NoneIn(wire, Resumes) ELSE OneIn(wire, Resumes)

(* No instruction is executed, and no stop is still to be reported. *)
Quiet == run = "stopped" /\ emu \notin {"trapped", "stepped"}

(* A machine that has stopped by itself is not resumed before that is reported. *)
Stopping == emu \in {"trapped", "stepped"} => run = "stopped"

(* The socket thread does nothing else while a step is under way. *)
Stepping ==
    (run = "single_step" \/ emu \in {"single_step", "stepped"}) =>
        sock = "step wait" /\ "sock" \in waiting

(* Breakpoints are there only for a debugger that is there. *)
Arming ==
    /\ armed => /\ client \in {"ready", "asking", "resumed", "broken"}
                /\ sock \notin {"attach", "accept", "closing"}
    /\ emu = "trapped" => armed

Gone == {"leaving", "out", "reset", "fin"}
Goes == {"detach"}

(* Nothing is left of a connection that is closed, and a debugger that has detached says
   no more. *)
Seated ==
    /\ sock \in {"accept", "closing"} => client \in Gone
    /\ sock = "accept" => wire = <<>> /\ client \in {"out", "leaving"}
    /\ (sock = "detach" \/ (sock = "check" /\ cmd = "detach") \/ ~NoneIn(wire, Goes))
          => client \in Gone

(* A resumption is in one place at a time: in the request, in the machine that runs
   or has yet to report that it has stopped, or in the report.  A debugger that
   waits for none has none anywhere. *)
Resting ==
    /\ NoneComing /\ NoneIn(replies, Stops) /\ (Quiet \/ sock = "attach")
Resumed ==
    \/ OneComing /\ NoneIn(replies, Stops) /\ (Quiet \/ sock = "attach")
    \/ NoneComing /\ NoneIn(replies, Stops) /\ ~Quiet /\ sock # "attach"
    \/ NoneComing /\ OneIn(replies, Stops) /\ Quiet /\ sock # "attach"

Conversation ==
    Connected => IF client \in {"resumed", "broken"} THEN Resumed ELSE Resting

Told == Stopping /\ Stepping /\ Arming /\ Seated /\ Conversation

LEMMA NoneInNone == \A S : NoneIn(<<>>, S)
  BY DEF NoneIn

LEMMA Appended ==
    ASSUME NEW T, NEW q \in Seq(T), NEW x \in T, NEW S
    PROVE  /\ NoneIn(q, S) /\ x \notin S => NoneIn(Append(q, x), S)
           /\ NoneIn(q, S) /\ x \in S => OneIn(Append(q, x), S)
           /\ OneIn(q, S) /\ x \notin S => OneIn(Append(q, x), S)
  <1> DEFINE r == Append(q, x)
             n == Len(q) + 1
  <1>1. /\ Len(q) \in Nat /\ DOMAIN q = 1..Len(q)
        /\ DOMAIN r = 1..n /\ r[n] = x
        /\ \A i \in 1..Len(q) : r[i] = q[i]
    OBVIOUS
  <1> HIDE DEF r
  <1>2. \A i \in DOMAIN r : i = n \/ (i \in DOMAIN q /\ r[i] = q[i])
    BY <1>1
  <1>3. n \in DOMAIN r /\ n \notin DOMAIN q /\ DOMAIN q \subseteq DOMAIN r
    BY <1>1
  <1>4. NoneIn(q, S) /\ x \notin S => NoneIn(r, S)
    BY <1>1, <1>2 DEF NoneIn
  <1>5. NoneIn(q, S) /\ x \in S => OneIn(r, S)
    BY <1>1, <1>2, <1>3 DEF NoneIn, OneIn
  <1>6. OneIn(q, S) /\ x \notin S => OneIn(r, S)
    <2> SUFFICES ASSUME NEW i \in DOMAIN q, q[i] \in S, x \notin S,
                        \A j \in DOMAIN q : j # i => q[j] \notin S
                 PROVE  OneIn(r, S)
      BY DEF OneIn
    <2>1. i \in DOMAIN r /\ r[i] \in S
      BY <1>1, <1>3
    <2>2. \A j \in DOMAIN r : j # i => r[j] \notin S
      BY <1>1, <1>2
    <2> QED
      BY <2>1, <2>2 DEF OneIn
  <1> QED
    BY <1>4, <1>5, <1>6 DEF r

LEMMA Tailed ==
    ASSUME NEW T, NEW q \in Seq(T), q # <<>>, NEW S
    PROVE  /\ NoneIn(q, S) => NoneIn(Tail(q), S) /\ Head(q) \notin S
           /\ OneIn(q, S) /\ Head(q) \in S => NoneIn(Tail(q), S)
           /\ OneIn(q, S) /\ Head(q) \notin S => OneIn(Tail(q), S)
  <1> DEFINE r == Tail(q)
  <1>1. /\ Len(q) \in Nat /\ DOMAIN q = 1..Len(q) /\ Len(q) > 0
        /\ Len(r) = Len(q) - 1 /\ DOMAIN r = 1..(Len(q) - 1)
        /\ \A i \in 1..(Len(q) - 1) : r[i] = q[i + 1]
        /\ Head(q) = q[1]
    OBVIOUS
  <1> HIDE DEF r
  <1>2. 1 \in DOMAIN q /\ \A i \in DOMAIN r : i + 1 \in DOMAIN q /\ i + 1 # 1 /\ r[i] = q[i + 1]
    BY <1>1
  <1>3. NoneIn(q, S) => NoneIn(r, S) /\ Head(q) \notin S
    BY <1>1, <1>2 DEF NoneIn
  <1>4. ASSUME NEW i \in DOMAIN q, q[i] \in S, \A j \in DOMAIN q : j # i => q[j] \notin S
        PROVE  IF i = 1 THEN Head(q) \in S /\ NoneIn(r, S)
                        ELSE Head(q) \notin S /\ OneIn(r, S)
    <2>1. CASE i = 1
      BY <1>1, <1>2, <1>4, <2>1 DEF NoneIn
    <2>2. CASE i # 1
      <3>1. i - 1 \in DOMAIN r /\ r[i - 1] \in S
        BY <1>1, <1>4, <2>2
      <3>2. \A j \in DOMAIN r : j # i - 1 => r[j] \notin S
        BY <1>1, <1>2, <1>4
      <3> QED
        BY <1>1, <1>2, <1>4, <2>2, <3>1, <3>2 DEF OneIn
    <2> QED
      BY <2>1, <2>2
  <1> QED
    BY <1>3, <1>4 DEF OneIn, r

(* What the steps do to the wire and to the replies. *)
LEMMA ReplyTells ==
    ASSUME Wires, NEW x \in Replies, Reply(x)
    PROVE  /\ ~Connected => replies' = replies
           /\ x = "answer" /\ NoneIn(replies, Stops) => NoneIn(replies', Stops)
           /\ x = "answer" /\ OneIn(replies, Stops) => OneIn(replies', Stops)
           /\ x = "stop" /\ Connected /\ NoneIn(replies, Stops) => OneIn(replies', Stops)
  <1>1. replies \in Seq(Replies)
    BY DEF Wires
  <1>2. replies' = IF Connected THEN Append(replies, x) ELSE replies
    BY DEF Reply
  <1>3. /\ NoneIn(replies, Stops) /\ x \notin Stops => NoneIn(Append(replies, x), Stops)
        /\ NoneIn(replies, Stops) /\ x \in Stops => OneIn(Append(replies, x), Stops)
        /\ OneIn(replies, Stops) /\ x \notin Stops => OneIn(Append(replies, x), Stops)
    BY <1>1, Appended
  <1>4. x \in Stops <=> x = "stop"
    BY DEF Stops
  <1> QED
    BY <1>2, <1>3, <1>4

LEMMA SendTells ==
    ASSUME Wires, NEW x \in Packets, Sends(x)
    PROVE  /\ NoneIn(wire, Resumes) /\ x \notin Resumes => NoneIn(wire', Resumes)
           /\ NoneIn(wire, Resumes) /\ x \in Resumes => OneIn(wire', Resumes)
           /\ OneIn(wire, Resumes) /\ x \notin Resumes => OneIn(wire', Resumes)
           /\ NoneIn(wire, Goes) /\ x # "detach" => NoneIn(wire', Goes)
  <1>1. wire \in Seq(Packets)
    BY DEF Wires
  <1>2. wire' = Append(wire, x)
    BY DEF Sends
  <1>3. x # "detach" => x \notin Goes
    BY DEF Goes
  <1>4. /\ NoneIn(wire, Resumes) /\ x \notin Resumes => NoneIn(Append(wire, x), Resumes)
        /\ NoneIn(wire, Resumes) /\ x \in Resumes => OneIn(Append(wire, x), Resumes)
        /\ OneIn(wire, Resumes) /\ x \notin Resumes => OneIn(Append(wire, x), Resumes)
    BY <1>1, Appended
  <1>5. NoneIn(wire, Goes) /\ x \notin Goes => NoneIn(Append(wire, x), Goes)
    BY <1>1, Appended
  <1> QED
    BY <1>2, <1>3, <1>4, <1>5

LEMMA ReadTells ==
    ASSUME Wires, wire # <<>>, wire' = Tail(wire)
    PROVE  /\ NoneIn(wire, Resumes) => NoneIn(wire', Resumes) /\ Head(wire) \notin Resumes
           /\ OneIn(wire, Resumes) /\ Head(wire) \in Resumes => NoneIn(wire', Resumes)
           /\ OneIn(wire, Resumes) /\ Head(wire) \notin Resumes => OneIn(wire', Resumes)
           /\ NoneIn(wire, Goes) => NoneIn(wire', Goes) /\ Head(wire) # "detach"
  <1>1. wire \in Seq(Packets)
    BY DEF Wires
  <1>2. Head(wire) \notin Goes => Head(wire) # "detach"
    BY DEF Goes
  <1>3. /\ NoneIn(wire, Resumes) => NoneIn(Tail(wire), Resumes) /\ Head(wire) \notin Resumes
        /\ OneIn(wire, Resumes) /\ Head(wire) \in Resumes => NoneIn(Tail(wire), Resumes)
        /\ OneIn(wire, Resumes) /\ Head(wire) \notin Resumes => OneIn(Tail(wire), Resumes)
    BY <1>1, Tailed
  <1>4. NoneIn(wire, Goes) => NoneIn(Tail(wire), Goes) /\ Head(wire) \notin Goes
    BY <1>1, Tailed
  <1> QED
    BY <1>2, <1>3, <1>4

LEMMA ReceiveTells ==
    ASSUME Wires, replies # <<>>, replies' = Tail(replies)
    PROVE  /\ NoneIn(replies, Stops) => NoneIn(replies', Stops) /\ Head(replies) # "stop"
           /\ OneIn(replies, Stops) /\ Head(replies) = "stop" => NoneIn(replies', Stops)
           /\ OneIn(replies, Stops) /\ Head(replies) # "stop" => OneIn(replies', Stops)
  <1>1. replies \in Seq(Replies)
    BY DEF Wires
  <1>2. Head(replies) \in Stops <=> Head(replies) = "stop"
    BY DEF Stops
  <1>3. /\ NoneIn(replies, Stops) => NoneIn(Tail(replies), Stops) /\ Head(replies) \notin Stops
        /\ OneIn(replies, Stops) /\ Head(replies) \in Stops => NoneIn(Tail(replies), Stops)
        /\ OneIn(replies, Stops) /\ Head(replies) \notin Stops => OneIn(Tail(replies), Stops)
    BY <1>1, Tailed
  <1> QED
    BY <1>2, <1>3

-----------------------------------------------------------------------------
LEMMA InitTells == Init => Told
  BY NoneInNone
     DEF Init, Told, Stopping, Stepping, Arming, Seated, Conversation, Connected, Gone

LEMMA EmuTells == IInv /\ Told /\ Emu => Told'
  <1> SUFFICES ASSUME Held, Wires, Told, Emu PROVE Told'
    BY TypeParts DEF IInv, Held
  <1> USE DEF Held, Places, SliceHeld, Executing, Replies, Told, Stopping, Stepping, Arming, Seated,
              Conversation, Connected, Resumed, Resting, NoneComing, OneComing, Taken,
              Resumes, Quiet, Gone
  <1>1. CASE Lock
    BY <1>1 DEF Lock
  <1>2. CASE TimesOut
    BY <1>2 DEF TimesOut
  <1>3. CASE GivesUp
    BY <1>3 DEF GivesUp
  <1>4. CASE Wakes
    BY <1>4 DEF Wakes, WakePending
  <1>5. CASE SliceEnds
    BY <1>5 DEF SliceEnds
  <1>6. CASE Traps
    BY <1>6 DEF Traps
  <1>7. CASE ReportTrap
    BY <1>7, ReplyTells DEF ReportTrap
  <1>8. CASE Steps
    BY <1>8 DEF Steps
  <1>9. CASE ReportStep
    BY <1>9, ReplyTells DEF ReportStep
  <1> QED
    BY <1>1, <1>2, <1>3, <1>4, <1>5, <1>6, <1>7, <1>8, <1>9 DEF Emu

LEMMA SockTells == IInv /\ Told /\ Sock => Told'
  <1> SUFFICES ASSUME Held, Wires, Told, Sock PROVE Told'
    BY TypeParts DEF IInv, Held
  <1> USE DEF Held, Places, SliceHeld, RequestStopped, Requests, Executing, Replies, Told, Stopping,
              Stepping, Arming, Seated, Conversation, Connected, Resumed, Resting,
              NoneComing, OneComing, Taken, Resumes, Quiet, Gone, target
  <1>1. CASE Attaches
    BY <1>1 DEF Attaches, Interrupt
  <1>2. CASE Reads
    BY <1>2, ReadTells DEF Reads
  <1>3. CASE LosesClient
    BY <1>3 DEF LosesClient
  <1>4. CASE Breaks
    BY <1>4, ReplyTells DEF Breaks, Interrupt
  <1>5. CASE Checks
    BY <1>5 DEF Checks
  <1>6. CASE Answers
    BY <1>6, ReplyTells DEF Answers
  <1>7. CASE Continues
    BY <1>7 DEF Continues, Continue
  <1>8. CASE BeginsStep
    BY <1>8 DEF BeginsStep
  <1>9. CASE EndsStep
    BY <1>9 DEF EndsStep
  <1>10. CASE Detaches
    BY <1>10, ReplyTells DEF Detaches
  <1>11. CASE Closes
    BY <1>11, NoneInNone DEF Closes, Continue
  <1> QED
    BY <1>1, <1>2, <1>3, <1>4, <1>5, <1>6, <1>7, <1>8, <1>9, <1>10, <1>11 DEF Sock

LEMMA DebuggerTells == IInv /\ Told /\ Debugger => Told'
  <1> SUFFICES ASSUME Held, Wires, Told, Debugger PROVE Told'
    BY TypeParts DEF IInv, Held
  <1> USE DEF Told, Stopping, Stepping, Arming, Seated, Conversation, Connected,
              Resumed, Resting, NoneComing, OneComing, Taken, Resumes, Quiet, Gone, target
  <1>1. CASE Connects
    BY <1>1, NoneInNone DEF Connects
  <1>2. ASSUME NEW x \in Requests, Requires(x) PROVE Told'
    BY <1>2, SendTells DEF Requires, Requests, Packets
  <1>3. CASE AsksEarly
    <2>1. Sends("query") /\ "query" \in Packets /\ "query" \notin Resumes
      BY <1>3 DEF AsksEarly, Requests, Packets
    <2>2. /\ NoneIn(wire, Resumes) => NoneIn(wire', Resumes)
          /\ OneIn(wire, Resumes) => OneIn(wire', Resumes)
          /\ NoneIn(wire, Goes) => NoneIn(wire', Goes)
      BY <2>1, SendTells
    <2> QED
      BY <1>3, <2>2 DEF AsksEarly
  <1>4. CASE BreaksIn
    <2>1. Sends("break") /\ "break" \in Packets /\ "break" \notin Resumes
      BY <1>4 DEF BreaksIn, Packets
    <2>2. /\ NoneIn(wire, Resumes) => NoneIn(wire', Resumes)
          /\ OneIn(wire, Resumes) => OneIn(wire', Resumes)
          /\ NoneIn(wire, Goes) => NoneIn(wire', Goes)
      BY <2>1, SendTells
    <2> QED
      BY <1>4, <2>2 DEF BreaksIn
  <1>5. CASE Receives
    BY <1>5, ReceiveTells DEF Receives
  <1>6. ASSUME NEW how \in Endings, Vanishes(how) PROVE Told'
    BY <1>6, NoneInNone, GdbAssumption DEF Vanishes
  <1> QED
    BY <1>1, <1>2, <1>3, <1>4, <1>5, <1>6 DEF Debugger

LEMMA NextTells == IInv /\ Told /\ [Next]_vars => Told'
  <1>1. CASE UNCHANGED vars
    BY <1>1 DEF vars, Told, Stopping, Stepping, Arming, Seated, Conversation, Connected,
                Resumed, Resting, NoneComing, OneComing, Taken, Quiet
  <1> QED
    BY <1>1, EmuTells, SockTells, DebuggerTells DEF Next

LEMMA AlwaysTold == Spec => [](IInv /\ Told)
  BY InitHolds, InitTells, NextHolds, NextTells, PTL DEF Spec
(* A debugger that waits for nothing finds the machine standing still, from the stop
   reply to its next continue or step (gdb.c:276-350). *)
THEOREM FoundStanding == Spec => []StandsStill
  <1>1. IInv /\ Told => StandsStill
    BY DEF IInv, SliceHeld, Told, Seated, Gone, Conversation, Connected, Resting, Quiet,
           StandsStill, Executing
  <1> QED
    BY <1>1, AlwaysTold, PTL

(* A stop reply is sent by whoever stops the machine, and by nobody else. *)
LEMMA StopSent ==
    ASSUME Wires, [Next]_vars,
           Len(replies') > Len(replies), replies'[Len(replies')] = "stop"
    PROVE  Connected /\ (ReportTrap \/ ReportStep \/ (Breaks /\ run = "running"))
  <1>1. replies \in Seq(Replies)
    BY DEF Wires
  <1>2. /\ Len(replies) \in Nat /\ Len(<<>>) = 0
        /\ replies # <<>> => Len(Tail(replies)) = Len(replies) - 1
        /\ LET r == Append(replies, "answer") IN r[Len(r)] = "answer"
    BY <1>1
  <1>3. replies' # replies /\ replies' # <<>> /\ ~(replies # <<>> /\ replies' = Tail(replies))
    BY <1>2
  <1>4. ~Reply("answer")
    BY <1>2, <1>3 DEF Reply
  <1>5. CASE Emu
    BY <1>3, <1>5 DEF Emu, Lock, TimesOut, GivesUp, Wakes, SliceEnds, Traps, ReportTrap,
                      Steps, ReportStep, Reply
  <1>6. CASE Sock
    BY <1>3, <1>4, <1>6 DEF Sock, Attaches, Reads, LosesClient, Breaks, Checks, Answers,
                      Continues, BeginsStep, EndsStep, Detaches, Closes, Interrupt, Reply
  <1>7. CASE Debugger
    <2>1. CASE Connects \/ Receives \/ \E how \in Endings : Vanishes(how)
      BY <1>3, <2>1 DEF Connects, Receives, Vanishes
    <2>2. CASE AsksEarly \/ BreaksIn \/ \E x \in Requests : Requires(x)
      BY <1>3, <2>2 DEF AsksEarly, BreaksIn, Requires
    <2> QED
      BY <1>7, <2>1, <2>2 DEF Debugger
  <1>8. CASE UNCHANGED vars
    BY <1>3, <1>8 DEF vars
  <1> QED
    BY <1>5, <1>6, <1>7, <1>8 DEF Next

(* However a breakpoint, the end of a step and a BREAK race, a resumption is answered by
   one stop reply, and a stop reply answers a resumption (gdb.c:303-350, 390-437). *)
THEOREM RepliesAwaited == Spec => NoStrayReply
  <1> DEFINE Stray == Len(replies') > Len(replies) /\ replies'[Len(replies')] = "stop"
                      => /\ client \in {"resumed", "broken"}
                         /\ \A i \in DOMAIN replies : replies[i] # "stop"
  <1>1. ASSUME IInv, Told, [Next]_vars PROVE [Stray]_vars
    <2> SUFFICES ASSUME Len(replies') > Len(replies), replies'[Len(replies')] = "stop"
                 PROVE  /\ client \in {"resumed", "broken"}
                        /\ \A i \in DOMAIN replies : replies[i] # "stop"
      OBVIOUS
    <2>1. Connected /\ (ReportTrap \/ ReportStep \/ (Breaks /\ run = "running"))
      BY <1>1, StopSent, TypeParts DEF IInv
    <2>2. ~Quiet /\ sock # "attach"
      BY <1>1, <2>1 DEF ReportTrap, ReportStep, Breaks, Quiet, Told, Stepping, Arming
    <2>3. client \in {"resumed", "broken"} /\ NoneIn(replies, Stops)
      BY <1>1, <2>1, <2>2 DEF Told, Conversation, Resting, Resumed
    <2> QED
      BY <2>3 DEF NoneIn, Stops
  <1> QED
    BY <1>1, AlwaysTold, PTL DEF Spec, NoStrayReply
================================================================================
