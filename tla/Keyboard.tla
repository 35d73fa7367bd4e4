------------------------------ MODULE Keyboard ------------------------------
(***************************************************************************)
(* Host keys and the Dragon's: hkbd.c turns the press and the release of a *)
(* host key into changes of the matrix of keyboard.c, either by the place  *)
(* of the key or, translated, by the character on it.  Keys come from the  *)
(* window, which repeats a key that is held, and from the page: its own    *)
(* keys with a SHIFT that sticks, and text sent as keys.                   *)
(*                                                                         *)
(* Four host keys stand for the rest: a letter, a key whose two characters *)
(* are on two keys of the Dragon, and two modifiers.  F11, F12 and Pause   *)
(* press nothing.  A language changes what is on a key, which is looked at *)
(* only when it is pressed; the one key whose binding it changes is left   *)
(* out.                                                                    *)
(***************************************************************************)
EXTENDS Integers

\* Bounds the changes of what keys mean: translation, layouts, joysticks, machines.
CONSTANT LastSwitch

ASSUME KeyboardAssumption == LastSwitch \in Nat

VARIABLE kb

Scancodes == {"z", "semicolon", "Shift_L", "Control_L"}
Modifiers == {"shift", "control"}

\* Keys of the Dragon: the crosspoint of an ordinary one is where a Dragon has it.
DSCAN_COLON == 10
DSCAN_SEMICOLON == 11
DSCAN_Z == 42
DSCAN_SHIFT == 55
DSCAN_INVALID == 63

code_to_dkey ==
    [code \in Scancodes |->
        CASE code = "z"         -> DSCAN_Z
          [] code = "semicolon" -> DSCAN_SEMICOLON
          [] code = "Shift_L"   -> DSCAN_SHIFT
          [] code = "Control_L" -> DSCAN_INVALID]
code_preempt == {"Shift_L"}
scancode_mod ==
    [code \in Scancodes |->
        CASE code = "Shift_L"   -> {"shift"}
          [] code = "Control_L" -> {"control"}
          [] OTHER              -> {}]

\* What is on a key, and the Dragon key and SHIFT that give it.
Symbol(code, shift) ==
    CASE code = "z"         -> IF shift THEN "Z" ELSE "z"
      [] code = "semicolon" -> IF shift THEN ":" ELSE ";"
      [] OTHER              -> "none"

unicode_to_dkey ==
    [u \in {"z", "Z", ";", ":", "none"} |->
        CASE u = "z"    -> [dk_key |-> DSCAN_Z, dk_mod |-> "UNSHIFT"]
          [] u = "Z"    -> [dk_key |-> DSCAN_Z, dk_mod |-> "SHIFT"]
          [] u = ";"    -> [dk_key |-> DSCAN_SEMICOLON, dk_mod |-> "UNSHIFT"]
          [] u = ":"    -> [dk_key |-> DSCAN_COLON, dk_mod |-> "UNSHIFT"]
          [] u = "none" -> [dk_key |-> DSCAN_INVALID, dk_mod |-> "0"]]

\* dkbd_map_init: the crosspoints a key closes; a CoCo's rows are in another order.
Point(keymap, s) ==
    CASE s = DSCAN_INVALID               -> {}
      [] keymap = "coco" /\ s \div 8 # 6 -> {8 * ((s \div 8 + 4) % 6) + (s % 8)}
      [] OTHER                           -> {s}

Points == UNION {Point(m, s) : m \in {"dragon", "coco"}, s \in 0..63}

Keyboards ==
    [state : SUBSET Modifiers, marked : SUBSET Scancodes,
     unicode : [Scancodes -> DOMAIN unicode_to_dkey], translate : BOOLEAN,
     keymap : {"dragon", "coco"}, joystick : SUBSET Scancodes, closed : SUBSET Points,
     sticky : BOOLEAN, held : SUBSET Scancodes, pads : SUBSET {DSCAN_COLON},
     stray : SUBSET Points, switches : 0..LastSwitch]

Shift(k) == "shift" \in k.state

\* KBD_MATRIX_PRESS and KBD_MATRIX_RELEASE.
Close(k, s) == [k EXCEPT !.closed = @ \union Point(k.keymap, s)]
Open(k, s) == [k EXCEPT !.closed = @ \ Point(k.keymap, s)]

\* keyboard_unicode_press, keyboard_unicode_release.
UnicodePress(k, u) ==
    LET chord == unicode_to_dkey[u]
        k1 == CASE chord.dk_mod = "SHIFT"   -> Close(k, DSCAN_SHIFT)
                [] chord.dk_mod = "UNSHIFT" -> Open(k, DSCAN_SHIFT)
                [] OTHER                    -> k
    IN  Close(k1, chord.dk_key)

UnicodeRelease(k, u) ==
    LET chord == unicode_to_dkey[u]
        k1 == CASE chord.dk_mod = "SHIFT"   -> Open(k, DSCAN_SHIFT)
                [] chord.dk_mod = "UNSHIFT" -> Close(k, DSCAN_SHIFT)
                [] OTHER                    -> k
    IN  Open(k1, chord.dk_key)

\* What keys mean has changed: those that are down may no longer be found.
Astray(k) ==
    [k EXCEPT !.stray = @ \union k.closed, !.switches = @ + 1]

Translated(k) == Astray([k EXCEPT !.translate = ~@])
NextKeymap(k) == Astray([k EXCEPT !.keymap = IF @ = "dragon" THEN "coco" ELSE "dragon"])

\* emulator_command, as far as it is about keys.
EmulatorCommand(k, code) ==
    IF code = "z" /\ k.switches < LastSwitch THEN Translated(k) ELSE k

\* The character of a key that was held already is recorded over the one it gave.
Recorded(k, code, u) ==
    LET old == unicode_to_dkey[k.unicode[code]].dk_key
    IN  [k EXCEPT !.unicode[code] = u,
                  !.stray = IF code \in k.held THEN @ \union Point(k.keymap, old) ELSE @]

\* hk_scan_press: a key of the joystick, one bound to its place, or its character.
PressAs(k, code) ==
    LET u == Symbol(code, Shift(k))
    IN  CASE "control" \in k.state -> EmulatorCommand(k, code)
          [] "control" \notin k.state /\ code \in k.joystick -> k
          [] "control" \notin k.state /\ code \notin k.joystick ->
                IF k.translate /\ code \notin code_preempt
                THEN UnicodePress(Recorded(k, code, u), u)
                ELSE Close(k, code_to_dkey[code])

ScanPress(k, code) ==
    [PressAs([k EXCEPT !.state = @ \union scancode_mod[code], !.marked = @ \union {code}], code)
     EXCEPT !.held = @ \union {code}]

\* Shift is put back the way it should be.
ShiftBack(k) == IF Shift(k) THEN Close(k, DSCAN_SHIFT) ELSE Open(k, DSCAN_SHIFT)

\* (Slip: the character is looked up again when the key is released.)
ReleaseAsNow(k, code) ==
    IF code \in k.joystick THEN k
    ELSE IF k.translate /\ code \notin code_preempt
         THEN ShiftBack(UnicodeRelease(k, Symbol(code, Shift(k))))
         ELSE Open(k, code_to_dkey[code])

\* hk_scan_release.
ReleaseAs(k, code) ==
    IF code \in k.joystick THEN k
    ELSE IF k.translate /\ code \notin code_preempt
         THEN ShiftBack(UnicodeRelease(k, k.unicode[code]))
         ELSE Open(k, code_to_dkey[code])

ScanRelease(k, code) ==
    [ReleaseAs([k EXCEPT !.state = @ \ scancode_mod[code], !.marked = @ \ {code}], code)
     EXCEPT !.held = @ \ {code}]

\* Keys that are open again have been found.
Settled(k) == kb' = [k EXCEPT !.stray = @ \intersect k.closed]

-----------------------------------------------------------------------------
\* The window's events, and those of the page, which uses the same codes; a key
\* pressed elsewhere may be released here, and a held one repeats.
KeyDown(code) == Settled(ScanPress(kb, code))

KeyUp(code) == Settled(ScanRelease(kb, code))

\* hk_focus_in: releases that went elsewhere are made up for, in the order of codes.
LetGo(k, code) == IF code \in k.marked THEN ScanRelease(k, code) ELSE k

FocusIn ==
    LET letters == LetGo(LetGo(kb, "z"), "semicolon")
    IN  Settled([LetGo(LetGo(letters, "Control_L"), "Shift_L") EXCEPT !.state = {}])

\* dispatchVirtualKeyPress for the key that sticks.
ScreenShift ==
    Settled([IF kb.sticky THEN ScanRelease(kb, "Shift_L") ELSE ScanPress(kb, "Shift_L")
              EXCEPT !.sticky = ~@])

\* releaseStickyModifiers.
Unstick(k) ==
    IF k.sticky THEN [ScanRelease(k, "Shift_L") EXCEPT !.sticky = FALSE] ELSE k

\* dispatchVirtualKeyRelease, after a KeyDown.
ScreenKeyUp(code) == Settled(Unstick(ScanRelease(kb, code)))

\* A key of the page that is bound to the Dragon's: wasm_dkey_press, wasm_dkey_release.
DkeyDown == Settled([Close(kb, DSCAN_COLON) EXCEPT !.pads = {DSCAN_COLON}])

DkeyUp == Settled(Unstick([Open(kb, DSCAN_COLON) EXCEPT !.pads = {}]))

\* sendKeySequence: a character as the keys that type it, all at once.
SendKeySequence(code, shifted) ==
    LET typed == ScanRelease(ScanPress(IF shifted THEN ScanPress(kb, "Shift_L") ELSE kb,
                                       code), code)
    IN  Settled(IF shifted THEN ScanRelease(typed, "Shift_L") ELSE typed)

\* hk_ui_set_kbd_translate, dragon_ui_set_keymap.
SetTranslate == kb.switches < LastSwitch /\ Settled(Translated(kb))

SetKeymap == kb.switches < LastSwitch /\ Settled(NextKeymap(kb))

\* A joystick made of keys is plugged in or out: configure_button, free_button.
SetJoystick ==
    /\ kb.switches < LastSwitch
    /\ Settled(Astray([kb EXCEPT !.joystick = IF @ = {} THEN {"z"} ELSE {}]))

\* hk_update_keymap: what is marked as pressed is forgotten.
UpdateKeymap ==
    /\ kb.switches < LastSwitch
    /\ Settled([kb EXCEPT !.marked = {}, !.switches = @ + 1])

\* Another machine has another matrix.
NewMatrix ==
    /\ kb.switches < LastSwitch
    /\ Settled([Astray(kb) EXCEPT !.closed = {}, !.keymap = "dragon"])

KeyboardInit ==
    \E translate \in BOOLEAN :
        kb = [state |-> {}, marked |-> {}, unicode |-> [c \in Scancodes |-> "none"],
              translate |-> translate, keymap |-> "dragon", joystick |-> {}, closed |-> {},
              sticky |-> FALSE, held |-> {}, pads |-> {}, stray |-> {}, switches |-> 0]

KeyboardNext ==
    \/ \E code \in Scancodes : KeyDown(code) \/ KeyUp(code)
    \/ \E code \in {"z", "semicolon"} :
          ScreenKeyUp(code) \/ \E shifted \in BOOLEAN : SendKeySequence(code, shifted)
    \/ FocusIn \/ ScreenShift \/ DkeyDown \/ DkeyUp
    \/ SetTranslate \/ SetKeymap \/ SetJoystick \/ UpdateKeymap \/ NewMatrix

KeyboardSpec == KeyboardInit /\ [][KeyboardNext]_kb

-----------------------------------------------------------------------------
KeyboardOK == kb \in Keyboards

\* What a key that is held would let go of, as keys mean now.
ClaimOf(k, code) ==
    LET chord == unicode_to_dkey[k.unicode[code]]
    IN  IF k.translate /\ code \notin code_preempt
        THEN Point(k.keymap, chord.dk_key)
             \union (IF chord.dk_mod = "SHIFT" THEN {DSCAN_SHIFT} ELSE {})
        ELSE Point(k.keymap, code_to_dkey[code])

Claimed ==
    (UNION {ClaimOf(kb, code) : code \in kb.held})
    \union (UNION {Point(kb.keymap, d) : d \in kb.pads})

\* A key of the Dragon that is down is one that a held key will let go of, whatever
\* modifiers, focus, text from the page and sticky keys came in between; one that was
\* down when the meaning of keys changed, or that another repeat of its own key gave,
\* may be stray (hk_scan_press and hk_scan_release keep the two sides apart).
KeysLetGo == KeyboardOK /\ kb.closed \ kb.stray \subseteq Claimed
=============================================================================
