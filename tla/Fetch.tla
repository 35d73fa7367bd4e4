-------------------------------- MODULE Fetch --------------------------------
(***************************************************************************)
(* The files of the WebAssembly build, wasm.c: ROMs and media are fetched   *)
(* from the web page's server while the emulator waits, and what could not  *)
(* be done for want of them is queued as an event and done again when       *)
(* nothing is being fetched any more.  The page may ask for a machine, a    *)
(* cartridge, a file or a program at any time between two frames.           *)
(*                                                                         *)
(* The state is one record, so that the handlers compose as operators.      *)
(***************************************************************************)
EXTENDS Integers, Sequences, SequencesExt, FiniteSets

CONSTANTS
    Configs, Carts, Downloads,
    RomsOf,      \* the files of each machine and cartridge configuration
    Carted,      \* the machines that take cartridges
    Default,     \* the cartridge each machine starts with
    FirstConfig,
    NoConfig, NoCart,
    LastRequest  \* bounds what the page asks for

ASSUME FetchAssumption ==
    /\ RomsOf \in [Configs \union Carts -> SUBSET Downloads]
    /\ Carted \subseteq Configs /\ FirstConfig \in Configs
    /\ Default \in [Configs -> Carts \union {NoCart}]
    /\ \A m \in Configs \ Carted : Default[m] = NoCart
    /\ NoConfig \notin Configs /\ NoCart \notin Carts
    /\ IsFiniteSet(Downloads) /\ LastRequest \in Nat

VARIABLE web

Slots == Carts \union {NoCart}

Requests ==
    [kind : {"machine"}, to : Configs] \union [kind : {"cart"}, to : Carts]
    \union [kind : {"load"}, to : Downloads]
    \union [kind : {"basic"}, on : Configs, with : Slots]

Webs ==
    [config : Configs \union {NoConfig},
     slot : [Configs -> Slots],        \* default_cart where cart_enabled
     here : SUBSET Downloads, failed : SUBSET Downloads, locked : SUBSET Downloads,
     waiting : 0..Cardinality(Downloads),            \* wasm_waiting_files
     queue : Seq(Requests),            \* the UI event list
     phase : {"start", "finishing", "running"},
     pass : BOOLEAN,                   \* the queue is being run
     made : 0..LastRequest,            \* what the page has asked for
     wantConfig : Configs, wantSlot : [Configs -> Slots], \* if nothing had to wait
     overtaken : BOOLEAN,              \* a request was answered before earlier ones
     misplaced : BOOLEAN]              \* BASIC was typed at another machine

-----------------------------------------------------------------------------
\* wasm_wget, of several files: one that is there, has failed or is on its way is
\* not fetched again.
Wget(s, files) ==
    LET new == files \ (s.here \union s.failed \union s.locked)
    IN  [s EXCEPT !.locked = @ \union new, !.waiting = @ + Cardinality(new)]

RomsIn(c) == IF c = NoCart THEN {} ELSE RomsOf[c]

\* (Slip: a request is ready if it has started no fetch itself.)
ReadyItself(s, t) == t.waiting = s.waiting

\* wasm_ui_prepare_machine and _cartridge, having made t of s.
Ready(s, t) == t.waiting = 0

Queued(s, request) == [s EXCEPT !.queue = Append(@, request)]

\* xroar_ui_set_cartridge; taking the cartridge out waits for nothing.
SetCartridge(s, c) ==
    LET t == Wget(s, RomsIn(c))
    IN  IF s.config \notin Carted THEN s
        ELSE IF c = NoCart \/ Ready(s, t) THEN [t EXCEPT !.slot[s.config] = c]
        ELSE Queued(t, [kind |-> "cart", to |-> c])

\* xroar_ui_set_machine, which puts in the machine's own cartridge.
SetMachine(s, m) ==
    LET t == Wget(s, RomsOf[m] \union RomsIn(s.slot[m]))
    IN  IF Ready(s, t) THEN SetCartridge([t EXCEPT !.config = m], t.slot[m])
        ELSE Queued(t, [kind |-> "machine", to |-> m])

\* wasm_load_file and wasm_queue_basic always queue.
LoadFile(s, f) == Queued(Wget(s, {f}), [kind |-> "load", to |-> f])

QueueBasic(s) ==
    Queued(s, [kind |-> "basic", on |-> s.wantConfig, with |-> s.wantSlot[s.wantConfig]])

Outstanding(s) == \E r \in ToSet(s.queue) : r.kind # "load"

\* What was asked for, beside what is done about it.  The ways to overtake: nothing
\* is being fetched just now, though what waited for it is still queued; and a
\* cartridge is taken out, or asked of a machine that takes none.
AskMachine(s, m) ==
    [SetMachine(s, m) EXCEPT
        !.wantConfig = m,
        !.overtaken = @ \/ (Outstanding(s) /\ s.waiting = 0)]

AskCartridge(s, c) ==
    [SetCartridge(s, c) EXCEPT
        !.wantSlot = IF s.wantConfig \in Carted THEN [@ EXCEPT ![s.wantConfig] = c] ELSE @,
        !.overtaken = @ \/ (Outstanding(s)
                            /\ (s.waiting = 0 \/ c = NoCart \/ s.config \notin Carted))]

-----------------------------------------------------------------------------
Asked(s) ==
    /\ web.phase # "start" /\ ~web.pass /\ web.made < LastRequest
    /\ web' = [s EXCEPT !.made = @ + 1]

\* wasm_set_int, of a menu of the page
SelectMachine(m) == Asked(AskMachine(web, m))
SelectCartridge(c) == Asked(AskCartridge(web, c))

FileChosen(f) == Asked(LoadFile(web, f))

\* start_program: its tape or disk, wasm_set_machine_cart, and what to type.
StartProgram(f, m, c) ==
    Asked(QueueBasic(AskCartridge(AskMachine(LoadFile(web, f), m), c)))

\* wasm_onload, wasm_onerror and unlock_fetch
Arrives(f) ==
    /\ f \in web.locked /\ ~web.pass
    /\ LET unlocked == [web EXCEPT !.locked = @ \ {f}, !.waiting = @ - 1]
       IN  web' \in {[unlocked EXCEPT !.here = @ \union {f}],
                     [unlocked EXCEPT !.failed = @ \union {f}]}

\* start_init: xroar_init asks for the first machine, and fetches the media.
StartInit(media) ==
    /\ web.phase = "start"
    /\ web' = [Wget(SetMachine(web, FirstConfig), media) EXCEPT !.phase = "finishing"]

\* A frame: finish_init or wasm_ui_run, which do nothing while a file is fetched.
Frame ==
    /\ web.phase # "start" /\ ~web.pass /\ web.waiting = 0
    /\ web.phase = "running" => web.queue # <<>>
    /\ web' = [web EXCEPT !.pass = TRUE]

Dispatch ==
    /\ web.pass /\ web.queue # <<>>
    /\ LET r == Head(web.queue)
           s == [web EXCEPT !.queue = Tail(@)]
       IN  \/ r.kind = "machine" /\ web' = SetMachine(s, r.to)
           \/ r.kind = "cart" /\ web' = SetCartridge(s, r.to)
           \/ r.kind = "load" /\ web' = s
           \/ /\ r.kind = "basic"
              /\ web' = [s EXCEPT !.misplaced = @ \/ s.config # r.on \/ s.slot[r.on] # r.with]

\* finish_init runs the whole list and then looks for fetches again; a frame runs
\* what is due.
PassEnded ==
    /\ web.pass
    /\ \/ web.phase = "running" /\ web' = [web EXCEPT !.pass = FALSE]
       \/ /\ web.phase = "finishing" /\ web.queue = <<>>
          /\ web' = [web EXCEPT !.pass = FALSE,
                                !.phase = IF web.waiting = 0 THEN "running" ELSE @]

FetchInit ==
    \E here \in SUBSET Downloads :
        web = [config |-> NoConfig, slot |-> Default, here |-> here, failed |-> {},
               locked |-> {}, waiting |-> 0, queue |-> <<>>, phase |-> "start",
               pass |-> FALSE, made |-> 0, wantConfig |-> FirstConfig,
               wantSlot |-> Default, overtaken |-> FALSE, misplaced |-> FALSE]

FetchNext ==
    \/ \E m \in Configs : SelectMachine(m)
    \/ \E c \in Slots : SelectCartridge(c)
    \/ \E f \in Downloads : FileChosen(f) \/ Arrives(f)
    \/ \E f \in Downloads, m \in Configs, c \in Slots : StartProgram(f, m, c)
    \/ \E media \in SUBSET Downloads : StartInit(media)
    \/ Frame \/ Dispatch \/ PassEnded

FetchSpec == FetchInit /\ [][FetchNext]_web

-----------------------------------------------------------------------------
FetchOK == web \in Webs

\* However fetches and requests fall together, when nothing is queued the machine
\* and its cartridge are those that asking with every file at hand would have
\* given, and BASIC was typed at the machine it was meant for: unless a request
\* overtook an earlier one, as taking a cartridge out (xroar.c:2259-2268) and the
\* frame between the last fetch and the retry (wasm.c:623) allow.  No request that is
\* tried again has to wait again, so that finish_init does not drain and refill its
\* list for ever, and a file is loaded when it has been fetched, or could not be.
AsIfAtOnce ==
    /\ FetchOK
    /\ ~web.overtaken =>
          /\ ~web.misplaced
          /\ web.phase = "running" /\ web.queue = <<>> =>
                web.config = web.wantConfig /\ web.slot = web.wantSlot
    /\ web.pass =>
          /\ web.waiting = 0
          /\ \A r \in ToSet(web.queue) :
                r.kind = "load" => r.to \in web.here \union web.failed
=============================================================================
