------------------------------ MODULE Keyboard ------------------------------
(***************************************************************************)
(* The PS/2 keyboard driver (kernel/driver/ps2.c): the interrupt handler    *)
(* that decodes scan codes and fills a ring of 32 slots, and kernel_getkey, *)
(* with which the shell empties it.                                         *)
(*                                                                         *)
(* The handler runs with interrupts off and treats one byte after the       *)
(* other: one step per byte.  kernel_getkey and the init_buffer it calls    *)
(* run with interrupts on, so a byte may come between any two of their      *)
(* statements.  Only the shell calls kernel_getkey.                         *)
(***************************************************************************)
EXTENDS Integers, FiniteSets, SequencesExt

CONSTANTS
    Size,      \* slots of the ring, 32 in the source
    Keys,      \* keys that are pressed and released, among AllKeys
    MaxKeys,   \* bound of the model: codes put into the ring
    MaxCaps    \* bound of the model: presses of Caps Lock

AllKeys == {"a", "Caps", "LShift", "RShift", "LCtrl", "RCtrl", "LAlt", "RAlt"}

ASSUME ConstantsAssumption ==
    /\ Size \in Nat \ {0} /\ MaxKeys \in Nat /\ MaxCaps \in Nat
    /\ Keys \subseteq AllKeys

Slot == 0 .. Size - 1

\* The codes of a key; a release puts f0 before the last byte.
Make(key) ==
    CASE key = "a"      -> <<"1c">>
      [] key = "Caps"   -> <<"58">>
      [] key = "LShift" -> <<"12">>
      [] key = "RShift" -> <<"59">>
      [] key = "LCtrl"  -> <<"14">>
      [] key = "RCtrl"  -> <<"e0", "14">>
      [] key = "LAlt"   -> <<"11">>
      [] key = "RAlt"   -> <<"e0", "11">>
Break(key) == Front(Make(key)) \o <<"f0", Last(Make(key))>>

Prefix == {"e0", "f0"}   \* the bytes from 0x80 on, but for the acknowledgement
Code == {"1c", "58", "12", "59", "14", "11", "00"}

VARIABLES
    buffer, ready,       \* the ring: serial number of the code in a slot, and its flag
    buffer_wptr, buffer_rptr,
    key_buffer,          \* the bytes of the code that is being decoded
    keyboard_state,      \* the modifiers that are on
    keyboard_cmd_state,  \* 1: the next acknowledgement asks for the LED value
    led,                 \* Caps Lock LED, last value sent to the keyboard
    acks,                \* acknowledgements that the keyboard still owes
    line,                \* bytes of a key event that have still to come
    held,                \* keys that are down
    caps,                \* presses of Caps Lock so far
    stored,              \* codes put into the ring so far
    roomy,               \* history: each of them into a free slot, none inside init_buffer
    alone,               \* history: each of them when the one before had been read
    getkey,              \* where the shell is in kernel_getkey, temp and i
    got                  \* the codes that kernel_getkey has returned

ghosts == <<stored, roomy, alone>>
ring == <<buffer, ready, buffer_wptr, ghosts>>
decoder == <<key_buffer, keyboard_state, keyboard_cmd_state, led>>
device == <<acks, line, held, caps>>
reader == <<buffer_rptr, getkey, got>>
vars == <<ring, decoder, device, reader>>

-----------------------------------------------------------------------------
(* ps2_handler *)

\* init_buffer runs.
InInit == getkey.at \in {"wipe", "unready", "wzero", "rzero"}

\* Codes in the ring, or taken from it by a call that has not returned, remain.
Pending == InInit \/ getkey.at = "step" \/ \E s \in Slot : ready[s] = 1

\* One more code goes to the slot at.
Count(at) ==
    /\ stored' = stored + 1
    /\ roomy' = (roomy /\ ready[at] = 0 /\ ~InInit)
    /\ alone' = (alone /\ ~Pending)

\* Variant of Put that moves the pointer before it stores.
Bad_PutOrder ==
    /\ buffer_wptr' = (buffer_wptr + 1) % Size
    /\ buffer' = [buffer EXCEPT ![buffer_wptr'] = stored + 1]
    /\ ready' = [ready EXCEPT ![buffer_wptr'] = 1]
    /\ Count(buffer_wptr)

\* A code without prefix goes into the ring, full or not.
Put ==
    /\ buffer' = [buffer EXCEPT ![buffer_wptr] = stored + 1]
    /\ ready' = [ready EXCEPT ![buffer_wptr] = 1]
    /\ buffer_wptr' = (buffer_wptr + 1) % Size
    /\ Count(buffer_wptr)

\* keyboard_state after a complete code.
Modified(code) ==
    CASE code = <<"58">> -> SymDiff(keyboard_state, {"caps"})
      [] code \in {<<"12">>, <<"59">>} -> keyboard_state \cup {"shift"}
      [] code \in {<<"f0", "12">>, <<"f0", "59">>} -> keyboard_state \ {"shift"}
      [] code \in {<<"14">>, <<"e0", "14">>} -> keyboard_state \cup {"ctrl"}
      [] code \in {<<"f0", "14">>, <<"e0", "f0", "14">>} -> keyboard_state \ {"ctrl"}
      [] code \in {<<"11">>, <<"e0", "11">>} -> keyboard_state \cup {"alt"}
      [] code \in {<<"f0", "11">>, <<"e0", "f0", "11">>} -> keyboard_state \ {"alt"}
      [] OTHER -> keyboard_state

\* One byte other than the acknowledgement; owed is what the keyboard owes before.
Decode(byte, owed) ==
    LET code == Append(key_buffer, byte)
    IN  IF byte \in Prefix
        THEN /\ key_buffer' = code
             /\ acks' = owed
             /\ UNCHANGED <<ring, keyboard_state, keyboard_cmd_state, led>>
        ELSE /\ IF Len(code) = 1 THEN Put ELSE UNCHANGED ring
             /\ keyboard_state' = Modified(code)
             /\ key_buffer' = <<>>
             /\ IF code = <<"58">>   \* 0xed, the LED command, goes out
                THEN keyboard_cmd_state' = 1 /\ acks' = owed + 1
                ELSE UNCHANGED keyboard_cmd_state /\ acks' = owed
             /\ UNCHANGED led

Ps2Byte ==
    /\ line # <<>>
    /\ Decode(Head(line), acks)
    /\ line' = Tail(line)
    /\ UNCHANGED <<held, caps, reader>>

\* Variant of SendLed that does not send the LED value.
Bad_SendLed == keyboard_cmd_state' = 0 /\ UNCHANGED led

\* The acknowledgement of the LED command is answered with the LED value.
SendLed ==
    /\ keyboard_cmd_state' = 0
    /\ led' = IF keyboard_cmd_state = 1 THEN keyboard_state \cap {"caps"} ELSE led

\* An acknowledgement.  The loop goes on without reading the control register
\* again (continue), so the data register is read once more: for the next byte,
\* or empty, and then the zero that is there is decoded as a key.
Ps2Ack ==
    /\ acks > 0
    /\ line = <<>>
    /\ stored < MaxKeys
    /\ SendLed
    /\ acks' = IF keyboard_cmd_state = 1 THEN acks ELSE acks - 1
    /\ UNCHANGED ring \/ Put
    /\ UNCHANGED <<key_buffer, keyboard_state, line, held, caps, reader>>

Press(key) ==
    /\ line = <<>>
    /\ key \notin held
    /\ key = "Caps" => caps < MaxCaps
    /\ stored < MaxKeys
    /\ line' = Make(key)
    /\ held' = held \cup {key}
    /\ caps' = IF key = "Caps" THEN caps + 1 ELSE caps
    /\ UNCHANGED <<acks, ring, decoder, reader>>

Release(key) ==
    /\ line = <<>>
    /\ key \in held
    /\ line' = Break(key)
    /\ held' = held \ {key}
    /\ UNCHANGED <<acks, caps, ring, decoder, reader>>

-----------------------------------------------------------------------------
(* kernel_getkey *)

OthersOfReader == <<decoder, device, ghosts>>

At(here) == getkey.at = here
Goto(there) == getkey' = [getkey EXCEPT !.at = there]

\* ready[rptr] == 0 is answered with 0xfff: nothing changes.
GetkeyCheck ==
    /\ At("idle")
    /\ ready[buffer_rptr] = 1
    /\ Goto("take")
    /\ UNCHANGED <<buffer, ready, buffer_wptr, buffer_rptr, got, OthersOfReader>>

GetkeyTake ==
    /\ At("take")
    /\ getkey' = [getkey EXCEPT !.at = "clear", !.temp = buffer[buffer_rptr]]
    /\ UNCHANGED <<buffer, ready, buffer_wptr, buffer_rptr, got, OthersOfReader>>

GetkeyClear ==
    /\ At("clear")
    /\ ready' = [ready EXCEPT ![buffer_rptr] = 0]
    /\ Goto("step")
    /\ UNCHANGED <<buffer, buffer_wptr, buffer_rptr, got, OthersOfReader>>

\* rptr moves on; in front of slot 32 init_buffer starts the ring again.
GetkeyStep ==
    /\ At("step")
    /\ buffer_rptr' = buffer_rptr + 1
    /\ IF buffer_rptr' = Size
       THEN getkey' = [getkey EXCEPT !.at = "wipe", !.i = 0] /\ UNCHANGED got
       ELSE Goto("idle") /\ got' = Append(got, getkey.temp)
    /\ UNCHANGED <<buffer, ready, buffer_wptr, OthersOfReader>>

InitWipe ==
    /\ At("wipe")
    /\ buffer' = [buffer EXCEPT ![getkey.i] = 0]
    /\ Goto("unready")
    /\ UNCHANGED <<ready, buffer_wptr, buffer_rptr, got, OthersOfReader>>

\* Variant of InitUnready that does not reset the flag.
Bad_InitUnready ==
    /\ At("unready")
    /\ getkey' = [getkey EXCEPT !.at = IF getkey.i + 1 = Size THEN "wzero" ELSE "wipe", !.i = @ + 1]
    /\ UNCHANGED <<buffer, ready, buffer_wptr, buffer_rptr, got, OthersOfReader>>

InitUnready ==
    /\ At("unready")
    /\ ready' = [ready EXCEPT ![getkey.i] = 0]
    /\ getkey' = [getkey EXCEPT !.at = IF getkey.i + 1 = Size THEN "wzero" ELSE "wipe", !.i = @ + 1]
    /\ UNCHANGED <<buffer, buffer_wptr, buffer_rptr, got, OthersOfReader>>

\* Variant of InitWptr that leaves the write pointer where it is.
Bad_InitWptr ==
    /\ At("wzero")
    /\ Goto("rzero")
    /\ UNCHANGED <<buffer, ready, buffer_wptr, buffer_rptr, got, OthersOfReader>>

InitWptr ==
    /\ At("wzero")
    /\ buffer_wptr' = 0
    /\ Goto("rzero")
    /\ UNCHANGED <<buffer, ready, buffer_rptr, got, OthersOfReader>>

InitRptr ==
    /\ At("rzero")
    /\ buffer_rptr' = 0
    /\ Goto("idle")
    /\ got' = Append(got, getkey.temp)
    /\ UNCHANGED <<buffer, ready, buffer_wptr, OthersOfReader>>

Getkey == GetkeyCheck \/ GetkeyTake \/ GetkeyClear \/ GetkeyStep
              \/ InitWipe \/ InitUnready \/ InitWptr \/ InitRptr

-----------------------------------------------------------------------------
Init ==
    /\ buffer = [s \in Slot |-> 0]
    /\ ready = [s \in Slot |-> 0]
    /\ buffer_wptr = 0 /\ buffer_rptr = 0
    /\ key_buffer = <<>>
    /\ keyboard_state = {} /\ keyboard_cmd_state = 0 /\ led = {}
    /\ acks = 0 /\ line = <<>> /\ held = {} /\ caps = 0
    /\ stored = 0 /\ roomy = TRUE /\ alone = TRUE
    /\ getkey = [at |-> "idle", temp |-> 0, i |-> 0]
    /\ got = <<>>

Next ==
    \/ Ps2Byte
    \/ Ps2Ack
    \/ \E key \in Keys : Press(key) \/ Release(key)
    \/ Getkey

Spec == Init /\ [][Next]_vars

\* The shell calls kernel_getchar again and again, and the scheduler lets it run.
FairSpec == Spec /\ WF_vars(Getkey) /\ WF_vars(Ps2Byte) /\ WF_vars(Ps2Ack)

-----------------------------------------------------------------------------
(* Properties *)

\* Every variable has its type; key_buffer never needs more than its four bytes.
TypeOK ==
    /\ buffer \in [Slot -> 0 .. MaxKeys] /\ ready \in [Slot -> {0, 1}]
    /\ buffer_wptr \in Slot /\ buffer_rptr \in 0 .. Size
    /\ key_buffer \in Seq(Prefix) /\ Len(key_buffer) <= 3
    /\ keyboard_state \subseteq {"caps", "shift", "ctrl", "alt"}
    /\ keyboard_cmd_state \in {0, 1} /\ led \subseteq {"caps"}
    /\ acks \in Nat /\ line \in Seq(Code \cup Prefix)
    /\ roomy \in BOOLEAN /\ alone \in BOOLEAN
    /\ held \subseteq Keys /\ caps \in 0 .. MaxCaps /\ stored \in 0 .. MaxKeys
    /\ getkey \in [at : {"idle", "take", "clear", "step", "wipe", "unready", "wzero", "rzero"},
                    temp : 0 .. MaxKeys, i : 0 .. Size]
    /\ got \in Seq(1 .. MaxKeys)

\* No key is seen twice and none is made up, however the handler interrupts
\* kernel_getkey and init_buffer, and even if the ring overflows.
NeverTwice ==
    /\ TypeOK
    /\ IsInjective(got)
    /\ \A n \in DOMAIN got : got[n] \in 1 .. stored

\* Keys are seen in the order they were hit, as long as the ring had room and no
\* code came inside init_buffer: the new start may lose keys, but not reorder them.
InOrder == roomy => \A m, n \in DOMAIN got : m < n => got[m] < got[n]

\* Whoever waits for the echo before the next key loses nothing, through every
\* restart of the ring.
NothingLost ==
    \A k \in 1 .. MaxKeys : (stored = k /\ alone) ~> (k \in Range(got) \/ ~alone)

\* Between two key events the shift, ctrl and alt bits say what is held, as long
\* as only one key of each pair is used; and the LED shows the Caps Lock state when
\* the keyboard owes no acknowledgement.
HeldBits ==
    (IF held \cap {"LShift", "RShift"} # {} THEN {"shift"} ELSE {})
        \cup (IF held \cap {"LCtrl", "RCtrl"} # {} THEN {"ctrl"} ELSE {})
        \cup (IF held \cap {"LAlt", "RAlt"} # {} THEN {"alt"} ELSE {})
ModifiersFollow ==
    line = <<>> =>
        /\ keyboard_state \ {"caps"} = HeldBits
        /\ acks = 0 => led = keyboard_state \cap {"caps"}
=============================================================================
