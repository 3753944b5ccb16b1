--------------------------- MODULE Keyboard_proofs ---------------------------
(***************************************************************************)
(* Proofs about Keyboard, for every size of the ring, set of keys and bound: *)
(* what kernel_getkey returns is never made up, never seen twice and, while    *)
(* the ring has room, in the order of the keys; and the modifier bits follow   *)
(* the keys.                                                                *)
(***************************************************************************)
EXTENDS Keyboard, SeqLemmas

-----------------------------------------------------------------------------
(* The inductive invariant of the ring *)

\* The code in temp has left the ring, or is just leaving it, and is not yet returned.
InHand == getkey.at \notin {"idle", "take"}

\* Where kernel_getkey is says where rptr and i are.
ReaderOK ==
    /\ IF InInit THEN buffer_rptr = Size ELSE buffer_rptr \in Slot
    /\ getkey.at \in {"wipe", "unready"} => getkey.i \in Slot
    /\ getkey.at \in {"wzero", "rzero"} => getkey.i = Size
    /\ getkey.at \in {"take", "clear"} => ready[buffer_rptr] = 1

\* A slot that init_buffer has wiped but whose flag it has still to reset.
Wiped(s) == getkey.at = "unready" /\ s = getkey.i

\* Every code is in one place only: in one full slot, in temp or in got.
CodesApart ==
    /\ \A s \in Slot : buffer[s] \in 0 .. stored
    /\ \A s \in Slot : ready[s] = 1 => buffer[s] # 0 \/ Wiped(s)
    /\ \A s, t \in Slot : ready[s] = 1 /\ ready[t] = 1 /\ buffer[s] = buffer[t] => s = t \/ buffer[s] = 0
    /\ \A s \in Slot, n \in DOMAIN got : ready[s] = 1 => got[n] # buffer[s]
    /\ \A n \in DOMAIN got : got[n] \in 1 .. stored
    /\ InHand =>
          /\ getkey.temp \in 1 .. stored
          /\ \A n \in DOMAIN got : got[n] # getkey.temp
          /\ \A s \in Slot : ready[s] = 1 /\ buffer[s] = getkey.temp =>
                getkey.at = "clear" /\ s = buffer_rptr

\* The types of the ring and its reader, and of the rest.
RingType ==
    /\ buffer \in [Slot -> 0 .. MaxKeys] /\ ready \in [Slot -> {0, 1}]
    /\ buffer_wptr \in Slot /\ buffer_rptr \in 0 .. Size
    /\ roomy \in BOOLEAN /\ alone \in BOOLEAN
    /\ stored \in 0 .. MaxKeys
    /\ getkey \in [at : {"idle", "take", "clear", "step", "wipe", "unready", "wzero", "rzero"},
                    temp : 0 .. MaxKeys, i : 0 .. Size]
    /\ got \in Seq(1 .. MaxKeys)

RingInv == RingType /\ ReaderOK /\ CodesApart /\ IsInjective(got)

-----------------------------------------------------------------------------
(* The inductive invariant of the order *)

\* The slot that is read next, and how many slots behind it s is.
First == IF getkey.at = "step" THEN buffer_rptr + 1 ELSE buffer_rptr
Behind(s) == IF s >= First THEN s - First ELSE s - First + Size

\* The full slots are c slots in a row, with the last c codes in their order.
InARow(c) ==
    /\ \A s \in Slot : ready[s] = IF Behind(s) < c THEN 1 ELSE 0
    /\ \A s \in Slot : Behind(s) < c => buffer[s] = stored - c + 1 + Behind(s)
    /\ Behind(buffer_wptr) = IF c = Size THEN 0 ELSE c
    /\ \A n \in DOMAIN got : got[n] <= stored - c
    /\ getkey.at = "clear" => c > 0 /\ getkey.temp = stored - c + 1
    /\ getkey.at = "step" => getkey.temp = stored - c

\* init_buffer has emptied the slots before i, and wptr at the end.
StartsAgain ==
    /\ \A s \in Slot : s < getkey.i => ready[s] = 0
    /\ getkey.at = "rzero" => buffer_wptr = 0

Increasing(seq) == \A m, n \in DOMAIN seq : m < n => seq[m] < seq[n]

OrderInv ==
    roomy =>
        /\ Increasing(got)
        /\ InHand => \A n \in DOMAIN got : got[n] < getkey.temp
        /\ IF InInit THEN StartsAgain ELSE \E c \in 0 .. Size : InARow(c)

-----------------------------------------------------------------------------
(* The inductive invariant of the decoder *)

\* No two keys that set the same bit.
OneOfEachPair ==
    /\ ~({"LShift", "RShift"} \subseteq Keys)
    /\ ~({"LCtrl", "RCtrl"} \subseteq Keys)
    /\ ~({"LAlt", "RAlt"} \subseteq Keys)

\* The bits that the keys of h make.
Bits(h) ==
    (IF h \cap {"LShift", "RShift"} # {} THEN {"shift"} ELSE {})
        \cup (IF h \cap {"LCtrl", "RCtrl"} # {} THEN {"ctrl"} ELSE {})
        \cup (IF h \cap {"LAlt", "RAlt"} # {} THEN {"alt"} ELSE {})

\* The ways to cut the code of a key in the bytes that were decoded and the others.
Byte(key) == Last(Make(key))
Long == {"RCtrl", "RAlt"}
MakeCuts(key) ==
    LET x == Byte(key)
    IN  IF key \in Long THEN {<<<<>>, <<"e0", x>>>>, <<<<"e0">>, <<x>>>>}
        ELSE {<<<<>>, <<x>>>>}
BreakCuts(key) ==
    LET x == Byte(key)
    IN  IF key \in Long
        THEN {<<<<>>, <<"e0", "f0", x>>>>, <<<<"e0">>, <<"f0", x>>>>, <<<<"e0", "f0">>, <<x>>>>}
        ELSE {<<<<>>, <<"f0", x>>>>, <<<<"f0">>, <<x>>>>}

\* A key event is in the middle of its code.
Making(key) == key \in held /\ stored < MaxKeys /\ <<key_buffer, line>> \in MakeCuts(key)
Breaking(key) == key \notin held /\ <<key_buffer, line>> \in BreakCuts(key)

DecoderType ==
    /\ keyboard_state \subseteq {"caps", "shift", "ctrl", "alt"}
    /\ keyboard_cmd_state \in {0, 1} /\ led \subseteq {"caps"}
    /\ acks \in Nat /\ held \subseteq Keys /\ caps \in 0 .. MaxCaps

DecoderInv ==
    /\ DecoderType
    /\ IF line = <<>> THEN key_buffer = <<>>
       ELSE \E key \in Keys : Making(key) \/ Breaking(key)

\* The bits follow the keys, and change with the last byte of a code.
BitsInv ==
    /\ IF line = <<>> THEN keyboard_state \ {"caps"} = Bits(held)
       ELSE \E key \in Keys :
               \/ Making(key) /\ keyboard_state \ {"caps"} = Bits(held \ {key})
               \/ Breaking(key) /\ keyboard_state \ {"caps"} = Bits(held \cup {key})
    /\ IF keyboard_cmd_state = 1 THEN acks > 0 ELSE led = keyboard_state \cap {"caps"}

-----------------------------------------------------------------------------
(* The steps of the ring *)

\* A slot that moves on stays in the ring.
LEMMA NextSlot ==
  ASSUME NEW s \in Slot
  PROVE  (s + 1) % Size = (IF s + 1 = Size THEN 0 ELSE s + 1) /\ (s + 1) % Size \in Slot
<1>1. Size \in Nat /\ Size > 0 /\ s \in Nat /\ s < Size
  BY ConstantsAssumption DEF Slot
<1>2. CASE s + 1 = Size
  <2>1. ASSUME NEW n \in Nat, n > 0  PROVE n % n = 0
    BY <2>1
  <2>. QED  BY <1>1, <1>2, <2>1 DEF Slot
<1>3. CASE s + 1 # Size
  <2>1. ASSUME NEW m \in Nat, NEW n \in Nat, m < n  PROVE m % n = m
    BY <2>1
  <2>. QED  BY <1>1, <1>3, <2>1 DEF Slot
<1>. QED  BY <1>2, <1>3

\* The handler puts a code into the ring, between any two statements of the reader.
LEMMA PutRing ==
  ASSUME RingInv, stored < MaxKeys, Put, UNCHANGED reader
  PROVE  RingInv'
<1>. DEFINE w == buffer_wptr
<1>1. /\ w \in Slot /\ stored \in Nat /\ stored + 1 \in 1 .. MaxKeys /\ stored' = stored + 1
      /\ MaxKeys \in Nat /\ buffer_wptr' \in Slot
      /\ \A s \in Slot : buffer'[s] = IF s = w THEN stored + 1 ELSE buffer[s]
      /\ \A s \in Slot : ready'[s] = IF s = w THEN 1 ELSE ready[s]
      /\ buffer_rptr' = buffer_rptr /\ getkey' = getkey /\ got' = got
  BY NextSlot, ConstantsAssumption DEF Put, Count, RingInv, RingType, reader
<1>2. RingType'
  <2>1. buffer' \in [Slot -> 0 .. MaxKeys] /\ ready' \in [Slot -> {0, 1}]
    BY <1>1 DEF Put, RingInv, RingType
  <2>2. roomy' \in BOOLEAN /\ alone' \in BOOLEAN
    BY DEF Put, Count, RingInv, RingType
  <2>. QED  BY <1>1, <2>1, <2>2 DEF RingInv, RingType
<1>. HIDE DEF w
<1>3. ReaderOK'
  BY <1>1 DEF RingInv, RingType, ReaderOK, InInit
<1>4. \A n \in DOMAIN got : got[n] \in 1 .. stored
  BY DEF RingInv, CodesApart
<1>5. CodesApart'
  <2>1. \A s \in Slot : buffer'[s] \in 0 .. stored'
    BY <1>1 DEF RingInv, CodesApart
  <2>2. \A s \in Slot : ready'[s] = 1 => buffer'[s] # 0 \/ Wiped(s)'
    BY <1>1 DEF RingInv, CodesApart, Wiped
  <2>3. \A s, t \in Slot : ready'[s] = 1 /\ ready'[t] = 1 /\ buffer'[s] = buffer'[t]
                              => s = t \/ buffer'[s] = 0
    BY <1>1 DEF RingInv, CodesApart
  <2>4. \A s \in Slot, n \in DOMAIN got' : ready'[s] = 1 => got'[n] # buffer'[s]
    BY <1>1, <1>4 DEF RingInv, CodesApart
  <2>5. InHand' => /\ getkey'.temp \in 1 .. stored'
                   /\ \A n \in DOMAIN got' : got'[n] # getkey'.temp
                   /\ \A s \in Slot : ready'[s] = 1 /\ buffer'[s] = getkey'.temp =>
                         getkey'.at = "clear" /\ s = buffer_rptr'
    BY <1>1 DEF RingInv, CodesApart, InHand
  <2>6. \A n \in DOMAIN got' : got'[n] \in 1 .. stored'
    BY <1>1, <1>4
  <2>. QED  BY <2>1, <2>2, <2>3, <2>4, <2>5, <2>6 DEF CodesApart
<1>. QED  BY <1>1, <1>2, <1>3, <1>5 DEF RingInv

\* A slot that is emptied and a code that leaves it keep all of them apart.
LEMMA GetkeyRing ==
  ASSUME RingInv, Getkey
  PROVE  RingInv'
<1>1. CASE GetkeyCheck
  <2>1. /\ getkey.at = "idle" /\ getkey' = [getkey EXCEPT !.at = "take"]
        /\ UNCHANGED <<buffer, ready, buffer_wptr, buffer_rptr, got, ghosts>>
        /\ ready[buffer_rptr] = 1
    BY <1>1 DEF GetkeyCheck, At, Goto, OthersOfReader
  <2>2. getkey' \in [at : {"take"}, temp : {getkey.temp}, i : {getkey.i}]
    BY <2>1 DEF RingInv, RingType
  <2>3. RingType'
    BY <2>1, <2>2 DEF RingInv, RingType, ghosts
  <2>4. ReaderOK'
    BY <2>1, <2>2 DEF RingInv, ReaderOK, InInit
  <2>5. CodesApart'
    BY <2>1, <2>2 DEF RingInv, CodesApart, InHand, Wiped, ghosts
  <2>. QED  BY <2>1, <2>3, <2>4, <2>5 DEF RingInv
<1>2. CASE GetkeyTake
  <2>1. /\ getkey.at = "take" /\ getkey' = [getkey EXCEPT !.at = "clear", !.temp = buffer[buffer_rptr]]
        /\ UNCHANGED <<buffer, ready, buffer_wptr, buffer_rptr, got, ghosts>>
    BY <1>2 DEF GetkeyTake, At, OthersOfReader
  <2>2. /\ buffer_rptr \in Slot /\ ready[buffer_rptr] = 1
        /\ buffer[buffer_rptr] \in 0 .. MaxKeys /\ buffer[buffer_rptr] \in 0 .. stored
        /\ buffer[buffer_rptr] # 0
    BY <2>1 DEF RingInv, RingType, ReaderOK, CodesApart, InInit, Wiped
  <2>3. getkey' \in [at : {"clear"}, temp : {buffer[buffer_rptr]}, i : {getkey.i}]
    BY <2>1 DEF RingInv, RingType
  <2>4. RingType'
    BY <2>1, <2>2, <2>3 DEF RingInv, RingType, ghosts
  <2>5. ReaderOK'
    BY <2>1, <2>2, <2>3 DEF RingInv, ReaderOK, InInit
  <2>6. CodesApart'
    BY <2>1, <2>2, <2>3 DEF RingInv, RingType, CodesApart, InHand, Wiped, ghosts
  <2>. QED  BY <2>1, <2>4, <2>5, <2>6 DEF RingInv
<1>3. CASE GetkeyClear
  <2>1. /\ getkey.at = "clear" /\ getkey' = [getkey EXCEPT !.at = "step"]
        /\ ready' = [ready EXCEPT ![buffer_rptr] = 0]
        /\ UNCHANGED <<buffer, buffer_wptr, buffer_rptr, got, ghosts>>
    BY <1>3 DEF GetkeyClear, At, Goto, OthersOfReader
  <2>2. getkey' \in [at : {"step"}, temp : {getkey.temp}, i : {getkey.i}]
    BY <2>1 DEF RingInv, RingType
  <2>3. buffer_rptr \in Slot /\ \A s \in Slot : ready'[s] = IF s = buffer_rptr THEN 0 ELSE ready[s]
    BY <2>1 DEF RingInv, RingType, ReaderOK, InInit
  <2>4. RingType'
    BY <2>1, <2>2, <2>3 DEF RingInv, RingType, ghosts
  <2>5. ReaderOK'
    BY <2>1, <2>2, <2>3 DEF RingInv, ReaderOK, InInit
  <2>6. CodesApart'
    BY <2>1, <2>2, <2>3 DEF RingInv, RingType, CodesApart, InHand, Wiped, ghosts
  <2>. QED  BY <2>1, <2>4, <2>5, <2>6 DEF RingInv
<1>4. CASE InitWipe
  <2>1. /\ getkey.at = "wipe" /\ getkey' = [getkey EXCEPT !.at = "unready"]
        /\ buffer' = [buffer EXCEPT ![getkey.i] = 0]
        /\ UNCHANGED <<ready, buffer_wptr, buffer_rptr, got, ghosts>>
    BY <1>4 DEF InitWipe, At, Goto, OthersOfReader
  <2>2. getkey' \in [at : {"unready"}, temp : {getkey.temp}, i : {getkey.i}]
    BY <2>1 DEF RingInv, RingType
  <2>3. getkey.i \in Slot /\ \A s \in Slot : buffer'[s] = IF s = getkey.i THEN 0 ELSE buffer[s]
    BY <2>1 DEF RingInv, RingType, ReaderOK
  <2>4. RingType'
    <3>1. 0 \in 0 .. MaxKeys
      BY ConstantsAssumption
    <3>. QED  BY <2>1, <2>2, <2>3, <3>1 DEF RingInv, RingType, ghosts
  <2>5. ReaderOK'
    BY <2>1, <2>2, <2>3 DEF RingInv, ReaderOK, InInit
  <2>6. CodesApart'
    BY <2>1, <2>2, <2>3 DEF RingInv, RingType, CodesApart, InHand, Wiped, ghosts
  <2>. QED  BY <2>1, <2>4, <2>5, <2>6 DEF RingInv
<1>5. CASE InitUnready
  <2>1. /\ getkey.at = "unready"
        /\ getkey' = [getkey EXCEPT !.at = IF getkey.i + 1 = Size THEN "wzero" ELSE "wipe", !.i = @ + 1]
        /\ ready' = [ready EXCEPT ![getkey.i] = 0]
        /\ UNCHANGED <<buffer, buffer_wptr, buffer_rptr, got, ghosts>>
    BY <1>5 DEF InitUnready, At, OthersOfReader
  <2>2. getkey' \in [at : {IF getkey.i + 1 = Size THEN "wzero" ELSE "wipe"},
                     temp : {getkey.temp}, i : {getkey.i + 1}]
    BY <2>1 DEF RingInv, RingType
  <2>3. getkey.i \in Slot /\ \A s \in Slot : ready'[s] = IF s = getkey.i THEN 0 ELSE ready[s]
    BY <2>1 DEF RingInv, RingType, ReaderOK
  <2>4. getkey.i + 1 \in 0 .. Size /\ (getkey.i + 1 # Size => getkey.i + 1 \in Slot)
    BY <2>3, ConstantsAssumption DEF Slot
  <2>5. RingType'
    BY <2>1, <2>2, <2>3, <2>4 DEF RingInv, RingType, ghosts
  <2>6. ReaderOK'
    BY <2>1, <2>2, <2>4 DEF RingInv, ReaderOK, InInit
  <2>7. CodesApart'
    BY <2>1, <2>2, <2>3 DEF RingInv, RingType, CodesApart, InHand, Wiped, ghosts
  <2>. QED  BY <2>1, <2>5, <2>6, <2>7 DEF RingInv
<1>6. CASE InitWptr
  <2>1. /\ getkey.at = "wzero" /\ getkey' = [getkey EXCEPT !.at = "rzero"]
        /\ buffer_wptr' = 0
        /\ UNCHANGED <<buffer, ready, buffer_rptr, got, ghosts>>
    BY <1>6 DEF InitWptr, At, Goto, OthersOfReader
  <2>2. getkey' \in [at : {"rzero"}, temp : {getkey.temp}, i : {getkey.i}]
    BY <2>1 DEF RingInv, RingType
  <2>3. 0 \in Slot
    BY ConstantsAssumption DEF Slot
  <2>4. RingType'
    BY <2>1, <2>2, <2>3 DEF RingInv, RingType, ghosts
  <2>5. ReaderOK'
    BY <2>1, <2>2 DEF RingInv, ReaderOK, InInit
  <2>6. CodesApart'
    BY <2>1, <2>2 DEF RingInv, RingType, CodesApart, InHand, Wiped, ghosts
  <2>. QED  BY <2>1, <2>4, <2>5, <2>6 DEF RingInv
<1>7. ASSUME getkey.at \in {"step", "rzero"}, got' = Append(got, getkey.temp),
             getkey' = [getkey EXCEPT !.at = "idle"], buffer_rptr' \in Slot,
             UNCHANGED <<buffer, ready, buffer_wptr, ghosts>>
      PROVE  RingInv'
  <2>1. /\ getkey.temp \in 1 .. stored /\ getkey.temp \in 1 .. MaxKeys
        /\ \A n \in DOMAIN got : got[n] # getkey.temp
    BY <1>7 DEF RingInv, RingType, CodesApart, InHand
  <2>2. /\ got' \in Seq(1 .. MaxKeys) /\ IsInjective(got')
        /\ Range(got') = Range(got) \cup {getkey.temp}
    <3>1. got \in Seq(1 .. MaxKeys) /\ IsInjective(got) /\ getkey.temp \notin Range(got)
      BY <2>1 DEF RingInv, RingType, Range
    <3>2. /\ Append(got, getkey.temp) \in Seq(1 .. MaxKeys)
          /\ Range(Append(got, getkey.temp)) = Range(got) \cup {getkey.temp}
          /\ IsInjective(Append(got, getkey.temp))
      <4>. DEFINE S == 1 .. MaxKeys
                  x == getkey.temp
      <4>1. got \in Seq(S) /\ x \in S /\ IsInjective(got) /\ x \notin Range(got)
        BY <2>1, <3>1
      <4>. HIDE DEF S, x
      <4>2. Append(got, x) \in Seq(S) /\ Range(Append(got, x)) = Range(got) \cup {x}
            /\ IsInjective(Append(got, x))
        BY <4>1, AppendFacts
      <4>. QED  BY <4>2 DEF S, x
    <3>. QED  BY <1>7, <3>2
  <2>3. \A n \in DOMAIN got' : got'[n] = getkey.temp \/ \E m \in DOMAIN got : got'[n] = got[m]
    BY <2>2 DEF Range
  <2>4. getkey' \in [at : {"idle"}, temp : {getkey.temp}, i : {getkey.i}]
    BY <1>7 DEF RingInv, RingType
  <2>5. RingType'
    BY <1>7, <2>2, <2>4, ConstantsAssumption DEF RingInv, RingType, ghosts, Slot
  <2>6. ReaderOK'
    BY <1>7, <2>4 DEF ReaderOK, InInit
  <2>7. CodesApart'
    BY <1>7, <2>1, <2>3, <2>4 DEF RingInv, RingType, CodesApart, InHand, Wiped, ghosts
  <2>. QED  BY <2>2, <2>5, <2>6, <2>7 DEF RingInv
<1>8. CASE GetkeyStep
  <2>1. /\ getkey.at = "step" /\ buffer_rptr' = buffer_rptr + 1
        /\ UNCHANGED <<buffer, ready, buffer_wptr, ghosts>>
    BY <1>8 DEF GetkeyStep, At, OthersOfReader
  <2>2. buffer_rptr \in Slot
    BY <2>1 DEF RingInv, ReaderOK, InInit
  <2>3. CASE buffer_rptr' # Size
    <3>1. buffer_rptr' \in Slot
      BY <2>1, <2>2, <2>3, ConstantsAssumption DEF Slot
    <3>. QED  BY <1>7, <1>8, <2>1, <2>3, <3>1 DEF GetkeyStep, Goto
  <2>4. CASE buffer_rptr' = Size
    <3>1. getkey' = [getkey EXCEPT !.at = "wipe", !.i = 0] /\ got' = got
      BY <1>8, <2>4 DEF GetkeyStep
    <3>2. getkey' \in [at : {"wipe"}, temp : {getkey.temp}, i : {0}]
      BY <3>1 DEF RingInv, RingType
    <3>3. 0 \in Slot /\ Size \in 0 .. Size /\ 0 \in 0 .. Size
      BY ConstantsAssumption DEF Slot
    <3>4. RingType'
      BY <2>1, <2>4, <3>1, <3>2, <3>3 DEF RingInv, RingType, ghosts
    <3>5. ReaderOK'
      BY <2>4, <3>2, <3>3 DEF ReaderOK, InInit
    <3>6. CodesApart'
      BY <2>1, <3>1, <3>2 DEF RingInv, RingType, CodesApart, InHand, Wiped, ghosts
    <3>. QED  BY <3>1, <3>4, <3>5, <3>6 DEF RingInv
  <2>. QED  BY <2>3, <2>4
<1>9. CASE InitRptr
  <2>1. 0 \in Slot
    BY ConstantsAssumption DEF Slot
  <2>. QED  BY <1>7, <1>9, <2>1 DEF InitRptr, At, Goto, OthersOfReader
<1>. QED  BY <1>1, <1>2, <1>3, <1>4, <1>5, <1>6, <1>8, <1>9 DEF Getkey

-----------------------------------------------------------------------------
(* The order of the codes *)

\* How far behind the first slot the others are, in a ring whose first slot is f.
LEMMA BehindFacts ==
  ASSUME NEW f \in 0 .. Size, NEW s \in Slot, NEW t \in Slot,
         NEW b \in Int, b = (IF s >= f THEN s - f ELSE s - f + Size),
         NEW d \in Int, d = (IF t >= f THEN t - f ELSE t - f + Size)
  PROVE  /\ b \in 0 .. Size - 1
         /\ b = d => s = t
         /\ (IF s + 1 = Size THEN 0 ELSE s + 1) = t => d = (IF b + 1 = Size THEN 0 ELSE b + 1)
BY ConstantsAssumption DEF Slot

\* The handler adds a code at the end of the row, if it has a free slot.
LEMMA PutOrder ==
  ASSUME RingInv, OrderInv, stored < MaxKeys, Put, UNCHANGED reader
  PROVE  OrderInv'
<1>. SUFFICES ASSUME roomy'  PROVE OrderInv'
  BY DEF OrderInv
<1>1. /\ roomy /\ ~InInit /\ ready[buffer_wptr] = 0
      /\ getkey' = getkey /\ got' = got /\ buffer_rptr' = buffer_rptr
  BY DEF Put, Count, reader
<1>2. /\ buffer_wptr \in Slot /\ buffer_wptr' \in Slot /\ stored' = stored + 1 /\ stored \in Nat
      /\ buffer_wptr' = IF buffer_wptr + 1 = Size THEN 0 ELSE buffer_wptr + 1
      /\ \A s \in Slot : buffer'[s] = IF s = buffer_wptr THEN stored + 1 ELSE buffer[s]
      /\ \A s \in Slot : ready'[s] = IF s = buffer_wptr THEN 1 ELSE ready[s]
  BY NextSlot DEF Put, Count, RingInv, RingType
<1>3. PICK c \in 0 .. Size : InARow(c)
  BY <1>1 DEF OrderInv
<1>4. /\ First \in 0 .. Size /\ First' = First
      /\ Size \in Nat /\ \A s \in Slot : s \in Int
  BY <1>1, ConstantsAssumption DEF First, RingInv, ReaderOK, Slot
<1>5. \A s \in Slot : Behind(s)' = Behind(s)
  BY <1>4 DEF Behind
<1>6. \A s, t \in Slot : /\ Behind(s) \in 0 .. Size - 1
                         /\ Behind(s) = Behind(t) => s = t
                         /\ (IF s + 1 = Size THEN 0 ELSE s + 1) = t =>
                               Behind(t) = (IF Behind(s) + 1 = Size THEN 0 ELSE Behind(s) + 1)
  <2>. TAKE s, t \in Slot
  <2>1. Behind(s) \in Int /\ Behind(t) \in Int
    BY <1>4 DEF Behind
  <2>. QED  BY <1>4, <2>1, BehindFacts DEF Behind
<1>7. c # Size /\ Behind(buffer_wptr) = c
  BY <1>1, <1>2, <1>3, <1>6 DEF InARow
<1>8. Behind(buffer_wptr)' = IF c + 1 = Size THEN 0 ELSE c + 1
  <2>1. Behind(buffer_wptr') = IF c + 1 = Size THEN 0 ELSE c + 1
    BY <1>2, <1>6, <1>7
  <2>2. Behind(buffer_wptr)' = Behind(buffer_wptr')
    BY <1>4 DEF Behind
  <2>. QED  BY <2>1, <2>2
<1>9. InARow(c + 1)'
  <2>1. \A s \in Slot : s # buffer_wptr => Behind(s) # c
    BY <1>2, <1>6, <1>7
  <2>2. \A s \in Slot : ready'[s] = IF Behind(s)' < c + 1 THEN 1 ELSE 0
    BY <1>2, <1>3, <1>5, <1>6, <1>7, <2>1 DEF InARow
  <2>3. \A s \in Slot : Behind(s)' < c + 1 => buffer'[s] = stored' - (c + 1) + 1 + Behind(s)'
    BY <1>2, <1>3, <1>5, <1>6, <1>7, <2>1 DEF InARow
  <2>4. \A n \in DOMAIN got' : got'[n] <= stored' - (c + 1)
    BY <1>1, <1>2, <1>3 DEF InARow
  <2>5. /\ getkey'.at = "clear" => c + 1 > 0 /\ getkey'.temp = stored' - (c + 1) + 1
        /\ getkey'.at = "step" => getkey'.temp = stored' - (c + 1)
    BY <1>1, <1>2, <1>3 DEF InARow
  <2>. QED  BY <1>8, <2>2, <2>3, <2>4, <2>5 DEF InARow
<1>10. c + 1 \in 0 .. Size /\ ~InInit'
  BY <1>1, <1>4, <1>7 DEF InInit
<1>11. Increasing(got') /\ (InHand' => \A n \in DOMAIN got' : got'[n] < getkey'.temp)
  BY <1>1 DEF OrderInv, InHand, Increasing
<1>. QED  BY <1>9, <1>10, <1>11 DEF OrderInv

\* A code is read at the start of the row; init_buffer gives up the rest of the row.
LEMMA GetkeyOrder ==
  ASSUME RingInv, OrderInv, Getkey
  PROVE  OrderInv'
<1>. SUFFICES ASSUME roomy'  PROVE OrderInv'
  BY DEF OrderInv
<1>1. /\ roomy /\ stored' = stored /\ stored \in Nat
      /\ Size \in Nat /\ Size > 0 /\ \A s \in Slot : s \in 0 .. Size - 1
  <2>1. UNCHANGED ghosts
    BY DEF Getkey, GetkeyCheck, GetkeyTake, GetkeyClear, GetkeyStep, InitWipe, InitUnready,
       InitWptr, InitRptr, OthersOfReader
  <2>2. Size \in Nat /\ Size > 0 /\ \A s \in Slot : s \in 0 .. Size - 1
    BY ConstantsAssumption DEF Slot
  <2>. QED  BY <2>1, <2>2 DEF ghosts, RingInv, RingType
<1>2. /\ Increasing(got) /\ (InHand => \A n \in DOMAIN got : got[n] < getkey.temp)
      /\ \A n \in DOMAIN got : got[n] \in Nat
      /\ InHand => getkey.temp \in Nat
  BY <1>1 DEF OrderInv, RingInv, RingType, CodesApart
<1>3. CASE GetkeyCheck
  <2>1. /\ getkey.at = "idle" /\ UNCHANGED <<buffer, ready, buffer_wptr, buffer_rptr, got>>
        /\ getkey' = [getkey EXCEPT !.at = "take"]
    BY <1>3 DEF GetkeyCheck, At, Goto
  <2>2. getkey'.at = "take"
    BY <2>1 DEF RingInv, RingType
  <2>3. PICK c \in 0 .. Size : InARow(c)
    BY <1>1, <2>1 DEF OrderInv, InInit
  <2>4. InARow(c)'
    BY <1>1, <2>1, <2>2, <2>3 DEF InARow, Behind, First
  <2>. QED  BY <1>2, <2>1, <2>2, <2>4 DEF OrderInv, InHand, InInit, Increasing
<1>4. CASE GetkeyTake
  <2>1. /\ getkey.at = "take" /\ UNCHANGED <<buffer, ready, buffer_wptr, buffer_rptr, got>>
        /\ getkey' = [getkey EXCEPT !.at = "clear", !.temp = buffer[buffer_rptr]]
    BY <1>4 DEF GetkeyTake, At
  <2>2. getkey'.at = "clear" /\ getkey'.temp = buffer[buffer_rptr]
    BY <2>1 DEF RingInv, RingType
  <2>3. buffer_rptr \in Slot /\ ready[buffer_rptr] = 1
    BY <2>1 DEF RingInv, ReaderOK, InInit
  <2>4. PICK c \in 0 .. Size : InARow(c)
    BY <1>1, <2>1 DEF OrderInv, InInit
  <2>5. Behind(buffer_rptr) = 0 /\ 0 < c
    BY <1>1, <2>1, <2>3, <2>4 DEF InARow, Behind, First
  <2>6. getkey'.temp = stored - c + 1
    BY <1>1, <2>2, <2>3, <2>4, <2>5 DEF InARow
  <2>7. InARow(c)'
    BY <1>1, <2>1, <2>2, <2>4, <2>5, <2>6 DEF InARow, Behind, First
  <2>8. \A n \in DOMAIN got' : got'[n] < getkey'.temp
    BY <1>1, <1>2, <2>1, <2>4, <2>6 DEF InARow
  <2>. QED  BY <1>2, <2>1, <2>2, <2>7, <2>8 DEF OrderInv, InInit, Increasing
<1>5. CASE GetkeyClear
  <2>1. /\ getkey.at = "clear" /\ UNCHANGED <<buffer, buffer_wptr, buffer_rptr, got>>
        /\ getkey' = [getkey EXCEPT !.at = "step"] /\ ready' = [ready EXCEPT ![buffer_rptr] = 0]
    BY <1>5 DEF GetkeyClear, At, Goto
  <2>2. getkey'.at = "step" /\ getkey'.temp = getkey.temp
    BY <2>1 DEF RingInv, RingType
  <2>3. /\ buffer_rptr \in Slot /\ buffer_wptr \in Slot
        /\ \A s \in Slot : ready'[s] = IF s = buffer_rptr THEN 0 ELSE ready[s]
    BY <2>1 DEF RingInv, RingType, ReaderOK, InInit
  <2>4. PICK c \in 0 .. Size : InARow(c)
    BY <1>1, <2>1 DEF OrderInv, InInit
  <2>5. c > 0 /\ getkey.temp = stored - c + 1
    BY <2>1, <2>4 DEF InARow
  <2>6. \A s \in Slot : Behind(s)' = IF s = buffer_rptr THEN Size - 1 ELSE Behind(s) - 1
    BY <1>1, <2>1, <2>2, <2>3 DEF Behind, First
  <2>7. \A s \in Slot : Behind(s) \in 0 .. Size - 1 /\ (Behind(s) = 0 <=> s = buffer_rptr)
    BY <1>1, <2>1, <2>3 DEF Behind, First
  <2>8. InARow(c - 1)'
    <3>1. \A s \in Slot : ready'[s] = IF Behind(s)' < c - 1 THEN 1 ELSE 0
      BY <1>1, <2>3, <2>4, <2>5, <2>6, <2>7 DEF InARow
    <3>2. \A s \in Slot : Behind(s)' < c - 1 => buffer'[s] = stored' - (c - 1) + 1 + Behind(s)'
      BY <1>1, <2>1, <2>4, <2>5, <2>6, <2>7 DEF InARow
    <3>3. Behind(buffer_wptr)' = IF c - 1 = Size THEN 0 ELSE c - 1
      <4>1. Behind(buffer_wptr)' = IF buffer_wptr = buffer_rptr THEN Size - 1 ELSE Behind(buffer_wptr) - 1
        BY <1>1, <2>1, <2>2, <2>3 DEF Behind, First
      <4>. QED  BY <1>1, <2>3, <2>4, <2>5, <2>7, <4>1 DEF InARow
    <3>4. \A n \in DOMAIN got' : got'[n] <= stored' - (c - 1)
      BY <1>1, <1>2, <2>1, <2>4 DEF InARow
    <3>5. getkey'.temp = stored' - (c - 1)
      BY <1>1, <2>2, <2>4, <2>5
    <3>. QED  BY <2>2, <3>1, <3>2, <3>3, <3>4, <3>5 DEF InARow
  <2>9. c - 1 \in 0 .. Size /\ InHand /\ ~InInit'
    BY <1>1, <2>1, <2>2, <2>4, <2>5 DEF InHand, InInit
  <2>. QED  BY <1>2, <2>1, <2>2, <2>8, <2>9 DEF OrderInv, Increasing
<1>6. ASSUME InHand, got' = Append(got, getkey.temp)
      PROVE  Increasing(got') /\ \A n \in DOMAIN got' : got'[n] <= getkey.temp
  <2>. DEFINE x == getkey.temp
  <2>1. /\ got \in Seq(1 .. MaxKeys) /\ x \in 1 .. MaxKeys
        /\ \A n \in DOMAIN got : got[n] < x
    BY <1>2, <1>6 DEF RingInv, RingType, CodesApart
  <2>. HIDE DEF x
  <2>2. /\ DOMAIN got = 1 .. Len(got) /\ Len(got) \in Nat
        /\ DOMAIN Append(got, x) = 1 .. Len(got) + 1
        /\ \A n \in 1 .. Len(got) : Append(got, x)[n] = got[n]
        /\ Append(got, x)[Len(got) + 1] = x
    BY <2>1, AppendProperties, LenProperties
  <2>3. \A n \in DOMAIN Append(got, x) : Append(got, x)[n] <= x
    BY <1>2, <2>1, <2>2
  <2>4. Increasing(Append(got, x))
    BY <1>2, <2>1, <2>2 DEF Increasing
  <2>. QED  BY <1>6, <2>3, <2>4 DEF x
<1>7. CASE GetkeyStep
  <2>1. /\ getkey.at = "step" /\ buffer_rptr' = buffer_rptr + 1 /\ InHand
        /\ UNCHANGED <<buffer, ready, buffer_wptr>> /\ buffer_rptr \in Slot
    BY <1>7 DEF GetkeyStep, At, InHand, RingInv, ReaderOK, InInit
  <2>2. PICK c \in 0 .. Size : InARow(c)
    BY <1>1, <2>1 DEF OrderInv, InInit
  <2>3. CASE buffer_rptr' # Size
    <3>1. getkey' = [getkey EXCEPT !.at = "idle"] /\ got' = Append(got, getkey.temp)
      BY <1>7, <2>1, <2>3 DEF GetkeyStep, Goto
    <3>2. getkey'.at = "idle"
      BY <3>1 DEF RingInv, RingType
    <3>3. \A n \in DOMAIN got' : got'[n] <= stored - c
      BY <1>6, <2>1, <2>2, <3>1 DEF InARow
    <3>4. InARow(c)'
      BY <1>1, <2>1, <2>2, <3>2, <3>3 DEF InARow, Behind, First
    <3>. QED  BY <1>6, <2>1, <2>2, <3>1, <3>2, <3>4 DEF OrderInv, InHand, InInit
  <2>4. CASE buffer_rptr' = Size
    <3>1. getkey' = [getkey EXCEPT !.at = "wipe", !.i = 0] /\ got' = got
      BY <1>7, <2>4 DEF GetkeyStep
    <3>2. getkey'.at = "wipe" /\ getkey'.i = 0 /\ getkey'.temp = getkey.temp
      BY <3>1 DEF RingInv, RingType
    <3>3. StartsAgain'
      BY <1>1, <3>2 DEF StartsAgain
    <3>. QED  BY <1>2, <2>1, <3>1, <3>2, <3>3 DEF OrderInv, InInit, Increasing
  <2>. QED  BY <2>3, <2>4
<1>8. CASE InitWipe
  <2>1. /\ getkey.at = "wipe" /\ UNCHANGED <<ready, buffer_wptr, buffer_rptr, got>>
        /\ getkey' = [getkey EXCEPT !.at = "unready"]
    BY <1>8 DEF InitWipe, At, Goto
  <2>2. getkey'.at = "unready" /\ getkey'.i = getkey.i /\ getkey'.temp = getkey.temp
    BY <2>1 DEF RingInv, RingType
  <2>. QED  BY <1>1, <1>2, <2>1, <2>2 DEF OrderInv, InHand, InInit, StartsAgain, Increasing
<1>9. CASE InitUnready
  <2>1. /\ getkey.at = "unready" /\ UNCHANGED <<buffer_wptr, buffer_rptr, got>>
        /\ getkey' = [getkey EXCEPT !.at = IF getkey.i + 1 = Size THEN "wzero" ELSE "wipe", !.i = @ + 1]
        /\ ready' = [ready EXCEPT ![getkey.i] = 0]
    BY <1>9 DEF InitUnready, At
  <2>2. /\ getkey'.at \in {"wzero", "wipe"} /\ getkey'.i = getkey.i + 1 /\ getkey'.temp = getkey.temp
    BY <2>1 DEF RingInv, RingType
  <2>3. getkey.i \in Slot /\ \A s \in Slot : ready'[s] = IF s = getkey.i THEN 0 ELSE ready[s]
    BY <2>1 DEF RingInv, RingType, ReaderOK
  <2>4. StartsAgain'
    BY <1>1, <2>1, <2>2, <2>3 DEF OrderInv, InInit, StartsAgain
  <2>. QED  BY <1>1, <1>2, <2>1, <2>2, <2>4 DEF OrderInv, InHand, InInit, Increasing
<1>10. CASE InitWptr
  <2>1. /\ getkey.at = "wzero" /\ UNCHANGED <<buffer, ready, buffer_rptr, got>>
        /\ getkey' = [getkey EXCEPT !.at = "rzero"] /\ buffer_wptr' = 0
    BY <1>10 DEF InitWptr, At, Goto
  <2>2. getkey'.at = "rzero" /\ getkey'.i = getkey.i /\ getkey'.temp = getkey.temp
    BY <2>1 DEF RingInv, RingType
  <2>. QED  BY <1>1, <1>2, <2>1, <2>2 DEF OrderInv, InHand, InInit, StartsAgain, Increasing
<1>11. CASE InitRptr
  <2>1. /\ getkey.at = "rzero" /\ UNCHANGED <<buffer, ready, buffer_wptr>> /\ buffer_rptr' = 0
        /\ getkey' = [getkey EXCEPT !.at = "idle"] /\ got' = Append(got, getkey.temp)
        /\ InHand
    BY <1>11 DEF InitRptr, At, Goto, InHand
  <2>2. getkey'.at = "idle" /\ getkey.i = Size /\ getkey.temp <= stored
    BY <2>1 DEF RingInv, RingType, ReaderOK, CodesApart
  <2>3. buffer_wptr = 0 /\ \A s \in Slot : ready[s] = 0
    BY <1>1, <2>1, <2>2 DEF OrderInv, InInit, StartsAgain
  <2>4. Increasing(got') /\ \A n \in DOMAIN got' : got'[n] <= stored
    <3>1. got' \in Seq(1 .. MaxKeys)
      <4>1. RingInv'
        BY GetkeyRing
      <4>. QED  BY <4>1 DEF RingInv, RingType
    <3>2. \A n \in DOMAIN got' : got'[n] \in Int
      <4>. TAKE n \in DOMAIN got'
      <4>1. n \in 1 .. Len(got')
        BY <3>1, LenProperties
      <4>2. got'[n] \in 1 .. MaxKeys
        BY <3>1, <4>1, ElementOfSeq
      <4>. QED  BY <4>2
    <3>3. Increasing(got') /\ \A n \in DOMAIN got' : got'[n] <= getkey.temp
      BY <1>6, <2>1
    <3>4. getkey.temp \in Int /\ getkey.temp <= stored /\ stored \in Int
      BY <1>1, <1>2, <2>1, <2>2
    <3>. QED  BY <3>2, <3>3, <3>4
  <2>5. InARow(0)'
    <3>1. First' = 0
      BY <2>1, <2>2 DEF First
    <3>2. Behind(buffer_wptr)' = 0 /\ \A s \in Slot : Behind(s)' = s
      BY <1>1, <2>1, <2>3, <3>1 DEF Behind
    <3>3. \A s \in Slot : ready'[s] = 0 /\ ~(Behind(s)' < 0)
      BY <1>1, <2>1, <2>3, <3>2
    <3>4. \A n \in DOMAIN got' : got'[n] <= stored' - 0
      BY <1>1, <2>4
    <3>. QED  BY <1>1, <2>2, <3>2, <3>3, <3>4 DEF InARow
  <2>. QED  BY <1>1, <2>2, <2>4, <2>5 DEF OrderInv, InHand, InInit
<1>. QED  BY <1>3, <1>4, <1>5, <1>7, <1>8, <1>9, <1>10, <1>11 DEF Getkey

-----------------------------------------------------------------------------
(* The codes of the keys *)

\* Short sequences, byte by byte.
LEMMA ShortTwo ==
  ASSUME NEW x, NEW y
  PROVE  /\ <<x>> # <<>> /\ Head(<<x>>) = x /\ Tail(<<x>>) = <<>> /\ Append(<<>>, x) = <<x>>
         /\ <<x, y>> # <<>> /\ Head(<<x, y>>) = x /\ Tail(<<x, y>>) = <<y>>
         /\ Append(<<x>>, y) = <<x, y>>
         /\ Len(<<x>>) = 1 /\ Len(<<x, y>>) = 2
<1>. DEFINE S == {x, y}
<1>1. <<x>> \in Seq(S) /\ <<x, y>> \in Seq(S) /\ x \in S /\ y \in S
  OBVIOUS
<1>. HIDE DEF S
<1>2. Append(<<x>>, y) = <<x, y>>
  <2>. DEFINE a == Append(<<x>>, y)
  <2>1. a \in Seq(S) /\ Len(a) = 2 /\ a[1] = x /\ a[2] = y
    BY <1>1, AppendProperties
  <2>. HIDE DEF a
  <2>2. \A i \in 1 .. Len(a) : a[i] = <<x, y>>[i]
    BY <2>1
  <2>. QED  BY <1>1, <2>1, <2>2, SeqEqual DEF a
<1>. QED  BY <1>2

\* A third byte comes after two.
LEMMA ShortThree ==
  ASSUME NEW x, NEW y, NEW z
  PROVE  Append(<<x, y>>, z) = <<x, y, z>>
<1>. DEFINE S == {x, y, z}
            a == Append(<<x, y>>, z)
<1>1. <<x, y>> \in Seq(S) /\ <<x, y, z>> \in Seq(S) /\ z \in S
  OBVIOUS
<1>. HIDE DEF S
<1>2. a \in Seq(S) /\ Len(a) = 3 /\ a[1] = x /\ a[2] = y /\ a[3] = z
  BY <1>1, AppendProperties
<1>. HIDE DEF a
<1>3. \A i \in 1 .. Len(a) : a[i] = <<x, y, z>>[i]
  BY <1>2
<1>. QED  BY <1>1, <1>2, <1>3, SeqEqual DEF a

\* What Break makes of a code.
LEMMA BreakShort ==
  ASSUME NEW x, NEW y
  PROVE  /\ Front(<<y>>) \o <<"f0", Last(<<y>>)>> = <<"f0", y>>
         /\ Front(<<x, y>>) \o <<"f0", Last(<<x, y>>)>> = <<x, "f0", y>>
         /\ Last(<<y>>) = y /\ Last(<<x, y>>) = y
<1>. DEFINE S == {x, y, "f0"}
<1>1. /\ <<y>> \in Seq(S) /\ <<"f0", y>> \in Seq(S) /\ <<x>> \in Seq(S) /\ <<x, y>> \in Seq(S)
      /\ <<x, "f0", y>> \in Seq(S)
      /\ Last(<<y>>) = y /\ Last(<<x, y>>) = y
  BY DEF Last
<1>. x \in S /\ y \in S /\ "f0" \in S
  OBVIOUS
<1>. HIDE DEF S
<1>2. Front(<<y>>) = <<>>
  BY SubSeqEmpty DEF Front
<1>3. Front(<<x, y>>) = <<x>>
  <2>1. Front(<<x, y>>) = SubSeq(<<x, y>>, 1, 1)
    BY DEF Front
  <2>. DEFINE f == SubSeq(<<x, y>>, 1, 1)
  <2>2. \A i \in 1 .. 1 : <<x, y>>[i] \in S
    OBVIOUS
  <2>3. f \in Seq(S) /\ Len(f) = 1 /\ f[1] = <<x, y>>[1]
    BY <2>2, SubSeqProperties
  <2>. HIDE DEF f
  <2>4. \A i \in 1 .. Len(f) : f[i] = <<x>>[i]
    BY <2>3
  <2>5. f = <<x>>
    BY <1>1, <2>3, <2>4, SeqEqual
  <2>. QED  BY <2>1, <2>5 DEF f
<1>4. <<>> \o <<"f0", y>> = <<"f0", y>>
  BY <1>1, ConcatEmptySeq
<1>5. <<x>> \o <<"f0", y>> = <<x, "f0", y>>
  <2>. DEFINE a == <<x>> \o <<"f0", y>>
  <2>1. a \in Seq(S) /\ Len(a) = 3 /\ a[1] = x /\ a[2] = "f0" /\ a[3] = y
    BY <1>1, ConcatProperties
  <2>. HIDE DEF a
  <2>2. \A i \in 1 .. Len(a) : a[i] = <<x, "f0", y>>[i]
    BY <2>1
  <2>. QED  BY <1>1, <2>1, <2>2, SeqEqual DEF a
<1>. QED  BY <1>1, <1>2, <1>3, <1>4, <1>5

\* The codes of the keys.
LEMMA KeyTable ==
  /\ Make("a") = <<"1c">> /\ Break("a") = <<"f0", "1c">> /\ Byte("a") = "1c"
  /\ Make("Caps") = <<"58">> /\ Break("Caps") = <<"f0", "58">> /\ Byte("Caps") = "58"
  /\ Make("LShift") = <<"12">> /\ Break("LShift") = <<"f0", "12">> /\ Byte("LShift") = "12"
  /\ Make("RShift") = <<"59">> /\ Break("RShift") = <<"f0", "59">> /\ Byte("RShift") = "59"
  /\ Make("LCtrl") = <<"14">> /\ Break("LCtrl") = <<"f0", "14">> /\ Byte("LCtrl") = "14"
  /\ Make("RCtrl") = <<"e0", "14">> /\ Break("RCtrl") = <<"e0", "f0", "14">> /\ Byte("RCtrl") = "14"
  /\ Make("LAlt") = <<"11">> /\ Break("LAlt") = <<"f0", "11">> /\ Byte("LAlt") = "11"
  /\ Make("RAlt") = <<"e0", "11">> /\ Break("RAlt") = <<"e0", "f0", "11">> /\ Byte("RAlt") = "11"
<1>1. /\ Make("a") = <<"1c">> /\ Make("Caps") = <<"58">> /\ Make("LShift") = <<"12">>
      /\ Make("RShift") = <<"59">> /\ Make("LCtrl") = <<"14">> /\ Make("RCtrl") = <<"e0", "14">>
      /\ Make("LAlt") = <<"11">> /\ Make("RAlt") = <<"e0", "11">>
  BY DEF Make
<1>2. ASSUME NEW key, NEW y, Make(key) = <<y>>
      PROVE  Break(key) = <<"f0", y>> /\ Byte(key) = y
  BY <1>2, BreakShort DEF Break, Byte
<1>3. ASSUME NEW key, NEW x, NEW y, Make(key) = <<x, y>>
      PROVE  Break(key) = <<x, "f0", y>> /\ Byte(key) = y
  BY <1>3, BreakShort DEF Break, Byte
<1>. QED  BY <1>1, <1>2, <1>3

\* The codes of a key are its byte, with e0 in front of it and f0 when it is released.
LEMMA KeyCodes ==
  ASSUME NEW key \in AllKeys
  PROVE  /\ Byte(key) \in Code
         /\ Make(key) = IF key \in Long THEN <<"e0", Byte(key)>> ELSE <<Byte(key)>>
         /\ Break(key) = IF key \in Long THEN <<"e0", "f0", Byte(key)>> ELSE <<"f0", Byte(key)>>
<1>1. CASE key \in Long
  BY <1>1, KeyTable DEF Long, Code
<1>2. CASE key \notin Long
  BY <1>2, KeyTable DEF AllKeys, Long, Code
<1>. QED  BY <1>1, <1>2

\* A complete code changes the bit of its key, and only Caps Lock toggles caps.
LEMMA ModifiedFacts ==
  ASSUME NEW key \in AllKeys, DecoderType
  PROVE  /\ Modified(Make(key)) \ {"caps"} = (keyboard_state \ {"caps"}) \cup Bits({key})
         /\ Modified(Break(key)) \ {"caps"} = (keyboard_state \ {"caps"}) \ Bits({key})
         /\ key # "Caps" => Modified(Make(key)) \cap {"caps"} = keyboard_state \cap {"caps"}
         /\ Modified(Break(key)) \cap {"caps"} = keyboard_state \cap {"caps"}
         /\ Modified(Make(key)) \subseteq {"caps", "shift", "ctrl", "alt"}
         /\ Modified(Break(key)) \subseteq {"caps", "shift", "ctrl", "alt"}
<1>. DEFINE Sets(bits) ==
              /\ Modified(Make(key)) = keyboard_state \cup bits
              /\ Modified(Break(key)) = keyboard_state \ bits
              /\ Bits({key}) = bits
<1>1. CASE key = "a"
  <2>1. Modified(<<"1c">>) = keyboard_state /\ Modified(<<"f0", "1c">>) = keyboard_state
    BY DEF Modified
  <2>2. Sets({})
    BY <1>1, <2>1, KeyTable DEF Bits
  <2>. QED  BY <1>1, <2>2 DEF DecoderType
<1>2. CASE key = "Caps"
  <2>1. /\ Modified(<<"58">>) = SymDiff(keyboard_state, {"caps"})
        /\ Modified(<<"f0", "58">>) = keyboard_state
    BY DEF Modified
  <2>2. Bits({"Caps"}) = {}
    BY DEF Bits
  <2>3. /\ Modified(Make(key)) = SymDiff(keyboard_state, {"caps"})
        /\ Modified(Break(key)) = keyboard_state /\ Bits({key}) = {}
    BY <1>2, <2>1, <2>2, KeyTable
  <2>. QED  BY <1>2, <2>3 DEF DecoderType, SymDiff
<1>3. CASE key \in {"LShift", "RShift"}
  <2>1. /\ Modified(<<"12">>) = keyboard_state \cup {"shift"}
        /\ Modified(<<"59">>) = keyboard_state \cup {"shift"}
        /\ Modified(<<"f0", "12">>) = keyboard_state \ {"shift"}
        /\ Modified(<<"f0", "59">>) = keyboard_state \ {"shift"}
    BY DEF Modified
  <2>2. Bits({"LShift"}) = {"shift"} /\ Bits({"RShift"}) = {"shift"}
    BY DEF Bits
  <2>3. Sets({"shift"})
    BY <1>3, <2>1, <2>2, KeyTable
  <2>. QED  BY <1>3, <2>3 DEF DecoderType
<1>4. CASE key \in {"LCtrl", "RCtrl"}
  <2>1. /\ Modified(<<"14">>) = keyboard_state \cup {"ctrl"}
        /\ Modified(<<"e0", "14">>) = keyboard_state \cup {"ctrl"}
        /\ Modified(<<"f0", "14">>) = keyboard_state \ {"ctrl"}
        /\ Modified(<<"e0", "f0", "14">>) = keyboard_state \ {"ctrl"}
    BY DEF Modified
  <2>2. Bits({"LCtrl"}) = {"ctrl"} /\ Bits({"RCtrl"}) = {"ctrl"}
    BY DEF Bits
  <2>3. Sets({"ctrl"})
    BY <1>4, <2>1, <2>2, KeyTable
  <2>. QED  BY <1>4, <2>3 DEF DecoderType
<1>5. CASE key \in {"LAlt", "RAlt"}
  <2>1. /\ Modified(<<"11">>) = keyboard_state \cup {"alt"}
        /\ Modified(<<"e0", "11">>) = keyboard_state \cup {"alt"}
        /\ Modified(<<"f0", "11">>) = keyboard_state \ {"alt"}
        /\ Modified(<<"e0", "f0", "11">>) = keyboard_state \ {"alt"}
    BY DEF Modified
  <2>2. Bits({"LAlt"}) = {"alt"} /\ Bits({"RAlt"}) = {"alt"}
    BY DEF Bits
  <2>3. Sets({"alt"})
    BY <1>5, <2>1, <2>2, KeyTable
  <2>. QED  BY <1>5, <2>3 DEF DecoderType
<1>. QED  BY <1>1, <1>2, <1>3, <1>4, <1>5 DEF AllKeys

-----------------------------------------------------------------------------
(* The steps of the decoder *)

\* The last byte of the code of a key has come: the code is taken as a whole.
Complete(code) ==
    /\ line' = <<>> /\ key_buffer' = <<>>
    /\ keyboard_state' = Modified(code)
    /\ IF code = <<"58">> THEN keyboard_cmd_state' = 1 /\ acks' = acks + 1
       ELSE UNCHANGED <<keyboard_cmd_state, acks>>

\* A byte in front of it: only the cut moves on.
Moves ==
    UNCHANGED <<ring, keyboard_state, keyboard_cmd_state, acks>>

\* Prefixes and other bytes, as Decode tells them apart.
LEMMA DecodeFacts ==
  ASSUME NEW byte, NEW rest, Head(line) = byte, Tail(line) = rest,
         Ps2Byte
  PROVE  /\ line' = rest /\ UNCHANGED <<held, caps, reader, led>>
         /\ byte \in Prefix => key_buffer' = Append(key_buffer, byte) /\ Moves
         /\ byte \notin Prefix /\ rest = <<>> => Complete(Append(key_buffer, byte))
         /\ byte \notin Prefix /\ Len(Append(key_buffer, byte)) # 1 => UNCHANGED ring
         /\ byte \notin Prefix => Put \/ UNCHANGED ring
<1>1. Decode(byte, acks) /\ line' = rest /\ UNCHANGED <<held, caps, reader>>
  BY DEF Ps2Byte
<1>2. UNCHANGED led
  BY <1>1 DEF Decode
<1>. QED  BY <1>1, <1>2 DEF Decode, Moves, Complete

\* The code of a pressed key, byte by byte.
LEMMA MakeStep ==
  ASSUME NEW key \in AllKeys, Making(key), Ps2Byte
  PROVE  /\ UNCHANGED <<held, caps, reader, led>>
         /\ \/ <<key_buffer', line'>> \in MakeCuts(key) /\ line' # <<>> /\ Moves
            \/ Complete(Make(key)) /\ (Put \/ UNCHANGED ring)
<1>. DEFINE x == Byte(key)
<1>1. x \in Code /\ x \notin Prefix /\ "e0" \in Prefix
      /\ Make(key) = IF key \in Long THEN <<"e0", x>> ELSE <<x>>
  BY KeyCodes DEF Code, Prefix
<1>. HIDE DEF x
<1>2. CASE key \in Long /\ key_buffer = <<>> /\ line = <<"e0", x>>
  <2>1. Head(line) = "e0" /\ Tail(line) = <<x>>
    BY <1>2
  <2>2. key_buffer' = <<"e0">> /\ line' = <<x>> /\ Moves /\ UNCHANGED <<held, caps, reader, led>>
    BY <1>1, <1>2, <2>1, DecodeFacts, ShortTwo
  <2>. QED  BY <1>2, <2>2 DEF MakeCuts, x
<1>3. CASE key \in Long /\ key_buffer = <<"e0">> /\ line = <<x>>
  <2>1. Head(line) = x /\ Tail(line) = <<>>
    BY <1>3
  <2>2. Append(key_buffer, x) = Make(key)
    <3>1. Append(<<"e0">>, x) = <<"e0", x>>
      BY ShortTwo
    <3>. QED  BY <1>1, <1>3, <3>1
  <2>. QED  BY <1>1, <1>3, <2>1, <2>2, DecodeFacts
<1>4. CASE key \notin Long /\ key_buffer = <<>> /\ line = <<x>>
  <2>1. Head(line) = x /\ Tail(line) = <<>>
    BY <1>4
  <2>2. Append(key_buffer, x) = Make(key)
    BY <1>1, <1>4, ShortTwo
  <2>. QED  BY <1>1, <1>4, <2>1, <2>2, DecodeFacts
<1>5. \/ key \in Long /\ key_buffer = <<>> /\ line = <<"e0", x>>
      \/ key \in Long /\ key_buffer = <<"e0">> /\ line = <<x>>
      \/ key \notin Long /\ key_buffer = <<>> /\ line = <<x>>
  <2>1. <<key_buffer, line>> \in MakeCuts(key)
    BY DEF Making
  <2>2. CASE key \in Long
    BY <2>1, <2>2 DEF MakeCuts, x
  <2>3. CASE key \notin Long
    BY <2>1, <2>3 DEF MakeCuts, x
  <2>. QED  BY <2>2, <2>3
<1>. QED  BY <1>2, <1>3, <1>4, <1>5

\* The code of a released key, byte by byte: nothing of it goes into the ring.
LEMMA BreakStep ==
  ASSUME NEW key \in AllKeys, Breaking(key), Ps2Byte
  PROVE  /\ UNCHANGED <<held, caps, reader, led, ring>>
         /\ \/ <<key_buffer', line'>> \in BreakCuts(key) /\ line' # <<>> /\ Moves
            \/ Complete(Break(key))
<1>. DEFINE x == Byte(key)
<1>1. x \in Code /\ x \notin Prefix /\ "e0" \in Prefix /\ "f0" \in Prefix
      /\ Break(key) = IF key \in Long THEN <<"e0", "f0", x>> ELSE <<"f0", x>>
  BY KeyCodes DEF Code, Prefix
<1>. HIDE DEF x
<1>2. CASE key \in Long /\ key_buffer = <<>> /\ line = <<"e0", "f0", x>>
  <2>1. Head(line) = "e0" /\ Tail(line) = <<"f0", x>>
    BY <1>2
  <2>2. key_buffer' = <<"e0">> /\ line' = <<"f0", x>> /\ Moves
        /\ UNCHANGED <<held, caps, reader, led>>
    BY <1>1, <1>2, <2>1, DecodeFacts, ShortTwo
  <2>. QED  BY <1>2, <2>2 DEF BreakCuts, x, Moves
<1>3. CASE key_buffer = (IF key \in Long THEN <<"e0">> ELSE <<>>) /\ line = <<"f0", x>>
  <2>1. Head(line) = "f0" /\ Tail(line) = <<x>>
    BY <1>3
  <2>2. key_buffer' = (IF key \in Long THEN <<"e0", "f0">> ELSE <<"f0">>) /\ line' = <<x>> /\ Moves
        /\ UNCHANGED <<held, caps, reader, led>>
    BY <1>1, <1>3, <2>1, DecodeFacts, ShortTwo
  <2>. QED  BY <1>3, <2>2 DEF BreakCuts, x, Moves
<1>4. CASE key_buffer = (IF key \in Long THEN <<"e0", "f0">> ELSE <<"f0">>) /\ line = <<x>>
  <2>1. Head(line) = x /\ Tail(line) = <<>>
    BY <1>4
  <2>2. Append(key_buffer, x) = Break(key) /\ Len(Append(key_buffer, x)) # 1
    <3>1. /\ Append(<<"f0">>, x) = <<"f0", x>> /\ Append(<<"e0", "f0">>, x) = <<"e0", "f0", x>>
      <4>1. Append(<<"f0">>, x) = <<"f0", x>>
        BY ShortTwo
      <4>2. Append(<<"e0", "f0">>, x) = <<"e0", "f0", x>>
        BY ShortThree
      <4>. QED  BY <4>1, <4>2
    <3>2. Len(<<"f0", x>>) = 2 /\ Len(<<"e0", "f0", x>>) = 3
      OBVIOUS
    <3>3. CASE key \in Long
      BY <1>1, <1>4, <3>1, <3>2, <3>3
    <3>4. CASE key \notin Long
      BY <1>1, <1>4, <3>1, <3>2, <3>4
    <3>. QED  BY <3>3, <3>4
  <2>. QED  BY <1>1, <1>4, <2>1, <2>2, DecodeFacts
<1>5. \/ key \in Long /\ key_buffer = <<>> /\ line = <<"e0", "f0", x>>
      \/ key_buffer = (IF key \in Long THEN <<"e0">> ELSE <<>>) /\ line = <<"f0", x>>
      \/ key_buffer = (IF key \in Long THEN <<"e0", "f0">> ELSE <<"f0">>) /\ line = <<x>>
  <2>1. <<key_buffer, line>> \in BreakCuts(key)
    BY DEF Breaking
  <2>2. CASE key \in Long
    BY <2>1, <2>2 DEF BreakCuts, x
  <2>3. CASE key \notin Long
    BY <2>1, <2>3 DEF BreakCuts, x
  <2>. QED  BY <2>2, <2>3
<1>. QED  BY <1>2, <1>3, <1>4, <1>5

\* A code that is put into the ring is one of the MaxKeys that the model counts.
LEMMA ByteStep ==
  ASSUME DecoderInv, Ps2Byte
  PROVE  UNCHANGED reader /\ (UNCHANGED ring \/ (Put /\ stored < MaxKeys))
<1>1. UNCHANGED reader /\ line # <<>>
  BY DEF Ps2Byte
<1>2. PICK key \in Keys : Making(key) \/ Breaking(key)
  BY <1>1 DEF DecoderInv
<1>3. key \in AllKeys
  BY ConstantsAssumption
<1>4. CASE Making(key)
  <2>1. Put \/ UNCHANGED ring
    BY <1>3, <1>4, MakeStep DEF Moves
  <2>. QED  BY <1>1, <1>4, <2>1 DEF Making
<1>5. CASE Breaking(key)
  BY <1>1, <1>3, <1>5, BreakStep
<1>. QED  BY <1>2, <1>4, <1>5

\* A key event begins with nothing decoded.
LEMMA EventFacts ==
  ASSUME NEW key \in Keys
  PROVE  /\ key \in AllKeys /\ Make(key) # <<>> /\ Break(key) # <<>>
         /\ <<<<>>, Make(key)>> \in MakeCuts(key) /\ <<<<>>, Break(key)>> \in BreakCuts(key)
<1>1. key \in AllKeys
  BY ConstantsAssumption
<1>2. CASE key \in Long
  <2>1. Make(key) = <<"e0", Byte(key)>> /\ Break(key) = <<"e0", "f0", Byte(key)>>
    BY <1>1, <1>2, KeyCodes
  <2>. QED  BY <1>1, <1>2, <2>1 DEF MakeCuts, BreakCuts
<1>3. CASE key \notin Long
  <2>1. Make(key) = <<Byte(key)>> /\ Break(key) = <<"f0", Byte(key)>>
    BY <1>1, <1>3, KeyCodes
  <2>. QED  BY <1>1, <1>3, <2>1 DEF MakeCuts, BreakCuts
<1>. QED  BY <1>2, <1>3

\* Every step keeps the decoder within the code of one key.
LEMMA DecoderStep ==
  ASSUME DecoderInv, [Next]_vars
  PROVE  DecoderInv'
<1>1. CASE Ps2Byte
  <2>1. PICK key \in Keys : Making(key) \/ Breaking(key)
    BY <1>1 DEF DecoderInv, Ps2Byte
  <2>2. key \in AllKeys /\ DecoderType
    BY <2>1, ConstantsAssumption DEF DecoderInv
  <2>3. CASE Making(key)
    <3>1. UNCHANGED <<held, caps, led>>
      BY <1>1, <2>2, <2>3, MakeStep
    <3>2. CASE <<key_buffer', line'>> \in MakeCuts(key) /\ line' # <<>> /\ Moves
      <4>1. Making(key)'
        BY <2>3, <3>1, <3>2 DEF Making, Moves, ring, ghosts, MakeCuts
      <4>2. DecoderType'
        BY <2>2, <3>1, <3>2 DEF Moves, DecoderType
      <4>. QED  BY <3>2, <4>1, <4>2 DEF DecoderInv
    <3>3. CASE Complete(Make(key))
      <4>1. DecoderType'
        <5>1. Modified(Make(key)) \subseteq {"caps", "shift", "ctrl", "alt"}
          BY <2>2, ModifiedFacts
        <5>2. keyboard_cmd_state' \in {0, 1} /\ acks' \in Nat
          BY <2>2, <3>3 DEF Complete, DecoderType
        <5>. QED  BY <2>2, <3>1, <3>3, <5>1, <5>2 DEF Complete, DecoderType
      <4>. QED  BY <3>3, <4>1 DEF DecoderInv, Complete
    <3>. QED  BY <1>1, <2>2, <2>3, <3>2, <3>3, MakeStep
  <2>4. CASE Breaking(key)
    <3>1. UNCHANGED <<held, caps, led>>
      BY <1>1, <2>2, <2>4, BreakStep
    <3>2. CASE <<key_buffer', line'>> \in BreakCuts(key) /\ line' # <<>> /\ Moves
      <4>1. Breaking(key)'
        BY <2>4, <3>1, <3>2 DEF Breaking, BreakCuts
      <4>2. DecoderType'
        BY <2>2, <3>1, <3>2 DEF Moves, DecoderType
      <4>. QED  BY <3>2, <4>1, <4>2 DEF DecoderInv
    <3>3. CASE Complete(Break(key))
      <4>1. DecoderType'
        <5>1. Modified(Break(key)) \subseteq {"caps", "shift", "ctrl", "alt"}
          BY <2>2, ModifiedFacts
        <5>2. keyboard_cmd_state' \in {0, 1} /\ acks' \in Nat
          BY <2>2, <3>3 DEF Complete, DecoderType
        <5>. QED  BY <2>2, <3>1, <3>3, <5>1, <5>2 DEF Complete, DecoderType
      <4>. QED  BY <3>3, <4>1 DEF DecoderInv, Complete
    <3>. QED  BY <1>1, <2>2, <2>4, <3>2, <3>3, BreakStep
  <2>. QED  BY <2>1, <2>3, <2>4
<1>2. CASE Ps2Ack
  <2>1. DecoderType'
    BY <1>2 DEF Ps2Ack, SendLed, DecoderInv, DecoderType
  <2>. QED  BY <1>2, <2>1 DEF Ps2Ack, DecoderInv
<1>3. ASSUME NEW key \in Keys, Press(key)  PROVE DecoderInv'
  <2>1. DecoderType'
    <3>1. caps' \in 0 .. MaxCaps
      BY <1>3, ConstantsAssumption DEF Press, DecoderInv, DecoderType
    <3>. QED  BY <1>3, <3>1 DEF Press, decoder, DecoderInv, DecoderType
  <2>2. Making(key)'
    BY <1>3, EventFacts DEF Press, Making, decoder, ring, ghosts, DecoderInv, MakeCuts
  <2>. QED  BY <1>3, <2>1, <2>2, EventFacts DEF Press, DecoderInv
<1>4. ASSUME NEW key \in Keys, Release(key)  PROVE DecoderInv'
  <2>1. DecoderType'
    BY <1>4 DEF Release, decoder, DecoderInv, DecoderType
  <2>2. Breaking(key)'
    BY <1>4, EventFacts DEF Release, Breaking, decoder, DecoderInv, BreakCuts
  <2>. QED  BY <1>4, <2>1, <2>2, EventFacts DEF Release, DecoderInv
<1>5. ASSUME UNCHANGED <<decoder, device, stored>>  PROVE DecoderInv'
  BY <1>5 DEF decoder, device, DecoderInv, DecoderType, Making, Breaking, MakeCuts, BreakCuts
<1>6. CASE Getkey
  <2>1. UNCHANGED <<decoder, device, stored>>
    BY <1>6 DEF Getkey, GetkeyCheck, GetkeyTake, GetkeyClear, GetkeyStep, InitWipe, InitUnready,
                InitWptr, InitRptr, OthersOfReader, ghosts
  <2>. QED  BY <1>5, <2>1
<1>7. CASE UNCHANGED vars
  BY <1>5, <1>7 DEF vars, ring, ghosts
<1>. QED  BY <1>1, <1>2, <1>3, <1>4, <1>6, <1>7 DEF Next

\* With one key of each pair a key has a bit of its own.
LEMMA BitsFacts ==
  ASSUME NEW h \in SUBSET Keys, NEW key \in Keys
  PROVE  /\ key \in h => Bits(h \ {key}) \cup Bits({key}) = Bits(h)
         /\ OneOfEachPair /\ key \notin h => Bits(h \cup {key}) \ Bits({key}) = Bits(h)
<1>. DEFINE Shift(k) == k \in {"LShift", "RShift"}
            Ctrl(k) == k \in {"LCtrl", "RCtrl"}
            Alt(k) == k \in {"LAlt", "RAlt"}
            In(k, b) == \/ b = "shift" /\ Shift(k)
                        \/ b = "ctrl" /\ Ctrl(k)
                        \/ b = "alt" /\ Alt(k)
<1>1. ASSUME NEW g, NEW b  PROVE b \in Bits(g) <=> \E k \in g : In(k, b)
  BY DEF Bits
<1>2. ASSUME OneOfEachPair, NEW k \in Keys, NEW b, In(k, b), In(key, b)  PROVE k = key
  BY <1>2 DEF OneOfEachPair
<1>. HIDE DEF In
<1>3. ASSUME key \in h  PROVE Bits(h \ {key}) \cup Bits({key}) = Bits(h)
  <2>1. \A b : b \in Bits(h \ {key}) \cup Bits({key}) <=> b \in Bits(h)
    BY <1>1, <1>3
  <2>. QED  BY <2>1
<1>4. ASSUME OneOfEachPair, key \notin h  PROVE Bits(h \cup {key}) \ Bits({key}) = Bits(h)
  <2>1. \A b : b \in Bits(h \cup {key}) \ Bits({key}) <=> b \in Bits(h)
    BY <1>1, <1>2, <1>4
  <2>. QED  BY <2>1
<1>. QED  BY <1>3, <1>4

\* The bits change with the keys, and the LED is owed until it is sent.
LEMMA BitsStep ==
  ASSUME OneOfEachPair, DecoderInv, BitsInv, [Next]_vars
  PROVE  BitsInv'
<1>. DEFINE Led == IF keyboard_cmd_state = 1 THEN acks > 0 ELSE led = keyboard_state \cap {"caps"}
<1>1. Led /\ DecoderType /\ acks \in Nat /\ held \subseteq Keys
  BY DEF BitsInv, DecoderInv, DecoderType
<1>2. CASE Ps2Byte
  <2>1. PICK key \in Keys :
           \/ Making(key) /\ keyboard_state \ {"caps"} = Bits(held \ {key})
           \/ Breaking(key) /\ keyboard_state \ {"caps"} = Bits(held \cup {key})
    BY <1>2 DEF BitsInv, Ps2Byte
  <2>2. key \in AllKeys
    BY <2>1, ConstantsAssumption
  <2>3. CASE Making(key) /\ keyboard_state \ {"caps"} = Bits(held \ {key})
    <3>1. UNCHANGED <<held, caps, led>>
      BY <1>2, <2>2, <2>3, MakeStep
    <3>2. CASE <<key_buffer', line'>> \in MakeCuts(key) /\ line' # <<>> /\ Moves
      <4>1. Making(key)'
        BY <2>3, <3>1, <3>2 DEF Making, Moves, ring, ghosts, MakeCuts
      <4>2. keyboard_state' \ {"caps"} = Bits(held' \ {key})
        BY <2>3, <3>1, <3>2 DEF Moves, Bits
      <4>. QED  BY <1>1, <3>1, <3>2, <4>1, <4>2 DEF BitsInv, Moves
    <3>3. CASE Complete(Make(key))
      <4>1. keyboard_state' \ {"caps"} = Bits(held)
        BY <1>1, <2>2, <2>3, <3>3, ModifiedFacts, BitsFacts DEF Complete, Making
      <4>2. Led'
        <5>1. key = "Caps" => Make(key) = <<"58">>
          BY KeyTable
        <5>2. CASE Make(key) = <<"58">>
          BY <1>1, <3>3, <5>2 DEF Complete
        <5>3. CASE Make(key) # <<"58">>
          <6>1. keyboard_state' \cap {"caps"} = keyboard_state \cap {"caps"}
            BY <1>1, <2>2, <3>3, <5>1, <5>3, ModifiedFacts DEF Complete
          <6>. QED  BY <1>1, <3>1, <3>3, <5>3, <6>1 DEF Complete
        <5>. QED  BY <5>2, <5>3
      <4>3. Bits(held)' = Bits(held)
        BY <3>1 DEF Bits
      <4>. QED  BY <3>3, <4>1, <4>2, <4>3 DEF BitsInv, Complete
    <3>. QED  BY <1>2, <2>2, <2>3, <3>2, <3>3, MakeStep
  <2>4. CASE Breaking(key) /\ keyboard_state \ {"caps"} = Bits(held \cup {key})
    <3>1. UNCHANGED <<held, caps, led>>
      BY <1>2, <2>2, <2>4, BreakStep
    <3>2. CASE <<key_buffer', line'>> \in BreakCuts(key) /\ line' # <<>> /\ Moves
      <4>1. Breaking(key)'
        BY <2>4, <3>1, <3>2 DEF Breaking, BreakCuts
      <4>2. keyboard_state' \ {"caps"} = Bits(held' \cup {key})
        BY <2>4, <3>1, <3>2 DEF Moves, Bits
      <4>. QED  BY <1>1, <3>1, <3>2, <4>1, <4>2 DEF BitsInv, Moves
    <3>3. CASE Complete(Break(key))
      <4>1. keyboard_state' \ {"caps"} = Bits(held)
        BY <1>1, <2>2, <2>4, <3>3, ModifiedFacts, BitsFacts DEF Complete, Breaking
      <4>2. Led'
        <5>1. keyboard_state' \cap {"caps"} = keyboard_state \cap {"caps"}
          BY <1>1, <2>2, <3>3, ModifiedFacts DEF Complete
        <5>2. CASE Break(key) = <<"58">>
          BY <1>1, <3>3, <5>2 DEF Complete
        <5>3. CASE Break(key) # <<"58">>
          BY <1>1, <3>1, <3>3, <5>1, <5>3 DEF Complete
        <5>. QED  BY <5>2, <5>3
      <4>3. Bits(held)' = Bits(held)
        BY <3>1 DEF Bits
      <4>. QED  BY <3>3, <4>1, <4>2, <4>3 DEF BitsInv, Complete
    <3>. QED  BY <1>2, <2>2, <2>4, <3>2, <3>3, BreakStep
  <2>. QED  BY <2>1, <2>3, <2>4
<1>3. CASE Ps2Ack
  <2>1. line = <<>> /\ UNCHANGED <<line, keyboard_state, held>> /\ Led'
    BY <1>1, <1>3 DEF Ps2Ack, SendLed
  <2>2. Bits(held)' = Bits(held)
    BY <2>1 DEF Bits
  <2>. QED  BY <2>1, <2>2 DEF BitsInv
<1>4. ASSUME NEW key \in Keys, Press(key)  PROVE BitsInv'
  <2>1. /\ line = <<>> /\ line' # <<>> /\ held' \ {key} = held
        /\ UNCHANGED <<keyboard_state, keyboard_cmd_state, led, acks>>
    BY <1>4, EventFacts DEF Press, decoder
  <2>2. Making(key)'
    BY <1>4, EventFacts DEF Press, Making, decoder, ring, ghosts, DecoderInv, MakeCuts
  <2>3. keyboard_state' \ {"caps"} = Bits(held' \ {key})
    BY <2>1 DEF BitsInv
  <2>. QED  BY <1>1, <2>1, <2>2, <2>3 DEF BitsInv
<1>5. ASSUME NEW key \in Keys, Release(key)  PROVE BitsInv'
  <2>1. /\ line = <<>> /\ line' # <<>> /\ held' \cup {key} = held
        /\ UNCHANGED <<keyboard_state, keyboard_cmd_state, led, acks>>
    BY <1>5, EventFacts DEF Release, decoder
  <2>2. Breaking(key)'
    BY <1>5, EventFacts DEF Release, Breaking, decoder, DecoderInv, BreakCuts
  <2>3. keyboard_state' \ {"caps"} = Bits(held' \cup {key})
    BY <2>1 DEF BitsInv
  <2>. QED  BY <1>1, <2>1, <2>2, <2>3 DEF BitsInv
<1>6. ASSUME UNCHANGED <<decoder, device, stored>>  PROVE BitsInv'
  BY <1>6 DEF decoder, device, BitsInv, Bits, Making, Breaking, MakeCuts, BreakCuts
<1>7. CASE Getkey
  <2>1. UNCHANGED <<decoder, device, stored>>
    BY <1>7 DEF Getkey, GetkeyCheck, GetkeyTake, GetkeyClear, GetkeyStep, InitWipe, InitUnready,
                InitWptr, InitRptr, OthersOfReader, ghosts
  <2>. QED  BY <1>6, <2>1
<1>8. CASE UNCHANGED vars
  BY <1>6, <1>8 DEF vars, ring, ghosts
<1>. QED  BY <1>2, <1>3, <1>4, <1>5, <1>7, <1>8 DEF Next

-----------------------------------------------------------------------------
(* The theorems *)

\* All of it but the bits, which hold with one key of each pair only.
KeyInv == RingInv /\ OrderInv /\ DecoderInv

\* A code is at most three bytes, prefixes before one byte of a key.
LEMMA CutTypes ==
  ASSUME DecoderInv
  PROVE  key_buffer \in Seq(Prefix) /\ Len(key_buffer) <= 3 /\ line \in Seq(Code \cup Prefix)
<1>1. CASE line = <<>>
  BY <1>1 DEF DecoderInv
<1>2. CASE line # <<>>
  <2>1. PICK key \in Keys : <<key_buffer, line>> \in MakeCuts(key) \cup BreakCuts(key)
    BY <1>2 DEF DecoderInv, Making, Breaking
  <2>. DEFINE x == Byte(key)
  <2>2. x \in Code /\ "e0" \in Prefix /\ "f0" \in Prefix
    BY <2>1, KeyCodes, ConstantsAssumption DEF Prefix
  <2>. HIDE DEF x
  <2>3. key_buffer \in {<<>>, <<"e0">>, <<"f0">>, <<"e0", "f0">>}
    <3>1. CASE key \in Long
      BY <2>1, <3>1 DEF MakeCuts, BreakCuts
    <3>2. CASE key \notin Long
      BY <2>1, <3>2 DEF MakeCuts, BreakCuts
    <3>. QED  BY <3>1, <3>2
  <2>4. line \in {<<x>>, <<"e0", x>>, <<"f0", x>>, <<"e0", "f0", x>>}
    <3>1. CASE key \in Long
      BY <2>1, <3>1 DEF MakeCuts, BreakCuts, x
    <3>2. CASE key \notin Long
      BY <2>1, <3>2 DEF MakeCuts, BreakCuts, x
    <3>. QED  BY <3>1, <3>2
  <2>5. key_buffer \in Seq(Prefix) /\ Len(key_buffer) <= 3
    <3>1. /\ <<>> \in Seq(Prefix) /\ <<"e0">> \in Seq(Prefix)
          /\ <<"f0">> \in Seq(Prefix) /\ <<"e0", "f0">> \in Seq(Prefix)
      BY <2>2
    <3>2. Len(<<>>) = 0 /\ Len(<<"e0">>) = 1 /\ Len(<<"f0">>) = 1 /\ Len(<<"e0", "f0">>) = 2
      OBVIOUS
    <3>3. key_buffer \in Seq(Prefix)
      BY <2>3, <3>1
    <3>4. Len(key_buffer) <= 3
      <4>1. key_buffer = <<>> \/ key_buffer = <<"e0">> \/ key_buffer = <<"f0">> \/ key_buffer = <<"e0", "f0">>
        BY <2>3
      <4>2. Len(key_buffer) = 0 \/ Len(key_buffer) = 1 \/ Len(key_buffer) = 2
        BY <4>1, <3>2
      <4>3. 0 <= 3 /\ 1 <= 3 /\ 2 <= 3
        OBVIOUS
      <4>. QED  BY <4>2, <4>3
    <3>. QED  BY <3>3, <3>4
  <2>6. line \in Seq(Code \cup Prefix)
    <3>. DEFINE S == Code \cup Prefix
    <3>1. x \in S /\ "e0" \in S /\ "f0" \in S
      BY <2>2
    <3>. HIDE DEF S
    <3>2. /\ <<x>> \in Seq(S) /\ <<"e0", x>> \in Seq(S)
          /\ <<"f0", x>> \in Seq(S) /\ <<"e0", "f0", x>> \in Seq(S)
      BY <3>1
    <3>3. line \in Seq(S)
      BY <2>4, <3>2
    <3>. QED  BY <3>3 DEF S
  <2>. QED  BY <2>5, <2>6
<1>. QED  BY <1>1, <1>2

\* The ring, the reader and the decoder begin empty.
LEMMA InitKeyInv == Init => KeyInv /\ BitsInv
<1>. SUFFICES ASSUME Init  PROVE KeyInv /\ BitsInv
  OBVIOUS
<1>1. 0 \in Slot /\ 0 \in 0 .. MaxKeys /\ 0 \in 0 .. Size /\ 0 \in 0 .. MaxCaps /\ Size \in Nat
  BY ConstantsAssumption DEF Slot
<1>2. RingInv
  <2>1. RingType
    BY <1>1 DEF Init, RingType
  <2>2. ReaderOK /\ CodesApart /\ IsInjective(got)
    BY <1>1 DEF Init, ReaderOK, InInit, CodesApart, InHand, IsInjective
  <2>. QED  BY <2>1, <2>2 DEF RingInv
<1>3. OrderInv
  <2>1. \A s \in Slot : Behind(s) = s /\ s \in Nat
    BY <1>1 DEF Init, Behind, First, Slot
  <2>2. InARow(0)
    BY <1>1, <2>1 DEF Init, InARow
  <2>. QED  BY <1>1, <2>2 DEF Init, OrderInv, Increasing, InHand, InInit
<1>4. DecoderInv
  BY <1>1 DEF Init, DecoderInv, DecoderType
<1>5. BitsInv
  BY DEF Init, BitsInv, Bits
<1>. QED  BY <1>2, <1>3, <1>4, <1>5 DEF KeyInv

\* Every byte and every statement of the reader keeps the invariant.
LEMMA NextKeyInv == KeyInv /\ [Next]_vars => KeyInv'
<1>. SUFFICES ASSUME KeyInv, [Next]_vars  PROVE KeyInv'
  OBVIOUS
<1>. USE DEF KeyInv
<1>1. DecoderInv'
  BY DecoderStep
<1>2. ASSUME UNCHANGED <<ring, reader>>  PROVE RingInv' /\ OrderInv'
  <2>1. RingInv'
    BY <1>2 DEF ring, reader, ghosts, RingInv, RingType, ReaderOK, InInit, CodesApart, InHand, Wiped
  <2>2. OrderInv'
    BY <1>2 DEF ring, reader, ghosts, OrderInv, Increasing, InHand, InInit, StartsAgain, InARow,
                Behind, First
  <2>. QED  BY <2>1, <2>2
<1>3. ASSUME UNCHANGED reader, UNCHANGED ring \/ (Put /\ stored < MaxKeys)
      PROVE  RingInv' /\ OrderInv'
  BY <1>2, <1>3, PutRing, PutOrder
<1>4. CASE Ps2Byte
  BY <1>1, <1>3, <1>4, ByteStep
<1>5. CASE Ps2Ack
  BY <1>1, <1>3, <1>5 DEF Ps2Ack
<1>6. CASE \E key \in Keys : Press(key) \/ Release(key)
  BY <1>1, <1>2, <1>6 DEF Press, Release
<1>7. CASE Getkey
  BY <1>1, <1>7, GetkeyRing, GetkeyOrder
<1>8. CASE UNCHANGED vars
  BY <1>1, <1>2, <1>8 DEF vars
<1>. QED  BY <1>4, <1>5, <1>6, <1>7, <1>8 DEF Next

LEMMA KeyInvariant == Spec => []KeyInv
<1>1. Init => KeyInv
  BY InitKeyInv
<1>. QED  BY <1>1, NextKeyInv, PTL DEF Spec

\* No key is seen twice and none is made up, however the handler interrupts
\* kernel_getkey and init_buffer, and whether or not the ring overflows.
THEOREM NeverTwiceHolds == Spec => []NeverTwice
<1>1. KeyInv => NeverTwice
  <2>. SUFFICES ASSUME KeyInv  PROVE NeverTwice
    OBVIOUS
  <2>1. TypeOK
    BY CutTypes DEF KeyInv, TypeOK, RingInv, RingType, DecoderInv, DecoderType
  <2>. QED  BY <2>1 DEF KeyInv, NeverTwice, RingInv, CodesApart
<1>. QED  BY <1>1, KeyInvariant, PTL

\* While the ring has room and no code comes inside init_buffer, kernel_getkey
\* returns the keys in the order they were hit.
THEOREM InOrderHolds == Spec => []InOrder
<1>1. KeyInv => InOrder
  BY DEF KeyInv, OrderInv, InOrder, Increasing
<1>. QED  BY <1>1, KeyInvariant, PTL

\* With one key of each pair the modifier bits say which keys are held, between any
\* two key events, and the LED the Caps Lock state.
THEOREM ModifiersHold == OneOfEachPair => (Spec => []ModifiersFollow)
<1>. SUFFICES ASSUME OneOfEachPair  PROVE Spec => []ModifiersFollow
  OBVIOUS
<1>1. Init => KeyInv /\ BitsInv
  BY InitKeyInv
<1>2. KeyInv /\ BitsInv /\ [Next]_vars => (KeyInv /\ BitsInv)'
  BY NextKeyInv, BitsStep DEF KeyInv
<1>3. KeyInv /\ BitsInv => ModifiersFollow
  <2>1. Bits(held) = HeldBits
    BY DEF Bits, HeldBits
  <2>. QED  BY <2>1 DEF KeyInv, DecoderInv, DecoderType, BitsInv, ModifiersFollow
<1>. QED  BY <1>1, <1>2, <1>3, PTL DEF Spec
=============================================================================
