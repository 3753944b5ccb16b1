--------------------------- MODULE FsCache_proofs ---------------------------
(***************************************************************************)
(* Proofs about FsCache, for every number of buffers, set of sectors and    *)
(* set of values: which failures of the card the caches survive.            *)
(***************************************************************************)
EXTENDS FsCache, WellFoundedInduction, TLAPS

-----------------------------------------------------------------------------
(* The assumptions, each used only where a theorem names it *)

\* The partition begins behind its last sector number: an address without
\* base_addr is never one with it.
Apart == \A s, t \in Sectors : s # t + BASE

\* A write that fails is noticed by its caller (see the run fscache_error).
WritesNoticed == <<"512", "write">> \notin Fails

\* The card answers every read.
ReadsSucceed == \A k \in Kinds : <<k, "read">> \notin Fails

-----------------------------------------------------------------------------
(* The inductive invariant *)

\* Buffer i has to be written to sector s, or buffer i holds it.
Unsaved(i, s) == buf[i].dirty /\ buf[i].cur = s + BASE
Holds(i, s) == buf[i].cur = s + BASE

OneEach ==
    /\ \A i, j \in Buffer : buf[i].cur = buf[j].cur => i = j \/ buf[i].cur = NoSector
    /\ \A i \in Buffer, s \in Sectors : buf[i].cur = s => s \in owned

\* What was written last is in the buffer that is to be written, or else on the card.
LastWritten ==
    /\ \A i \in Buffer, s \in Sectors : Unsaved(i, s) => buf[i].data = content[s]
    /\ \A s \in Sectors : (\A i \in Buffer : ~Unsaved(i, s)) => disk[s + BASE] = content[s]
    /\ \A s \in Sectors : content[s] \in since[s] /\ disk[s + BASE] \in since[s]

\* Buffers that need not be written hold it as well, if no read went wrong.
Fresh == \A i \in Buffer, s \in Sectors : Holds(i, s) => buf[i].data = content[s]

-----------------------------------------------------------------------------
(* The operators *)

BufferType == [cur : Card \cup {NoSector}, ref : BOOLEAN, dirty : BOOLEAN, data : Data]

\* A set of naturals has a smallest element.
LEMMA MinFacts ==
  ASSUME NEW S \in SUBSET Nat, S # {}
  PROVE  Min(S) \in S /\ \A y \in S : Min(S) <= y
<1>1. PICK x \in S : \A y \in S : ~(<<y, x>> \in OpToRel(<, Nat))
  BY NatLessThanWellFounded, WFMin
<1>2. \A y \in S : ~(y < x)
  BY <1>1 DEF OpToRel
<1>3. \A y \in S : x <= y
  BY <1>2
<1>. QED  BY <1>3 DEF Min

\* An address on the card is a natural number, so no free buffer has it.
LEMMA Addresses ==
  /\ Buffer \subseteq Nat /\ Card \subseteq Nat /\ NoSector \notin Card
  /\ \A s \in Sectors : s \in Card /\ s + BASE \in Card
  /\ \A s, t \in Sectors : s + BASE = t + BASE => s = t
  /\ Zero \in Data /\ Mixed \in Data /\ Values \subseteq Data
<1>1. /\ Size \in Nat /\ \A s \in Sectors : s \in Nat /\ s + BASE \in Nat
      /\ \A s, t \in Sectors : s + BASE = t + BASE => s = t
  BY ConstantsAssumption
<1>2. Buffer \subseteq Nat
  BY <1>1 DEF Buffer
<1>3. Card \subseteq Nat /\ \A s \in Sectors : s \in Card /\ s + BASE \in Card
  BY <1>1 DEF Card
<1>. QED  BY <1>1, <1>2, <1>3 DEF NoSector, Data

\* The clock hand stays within the buffers.
LEMMA VictimFacts ==
  ASSUME TypeOK
  PROVE  Victim \in Buffer /\ After(Victim) \in Buffer
<1>1. ASSUME NEW m \in Nat  PROVE m % Size \in Buffer
  <2>1. ASSUME NEW n \in Nat, n > 0  PROVE m % n \in 0 .. n - 1
    BY <2>1
  <2>. QED  BY <2>1, ConstantsAssumption DEF Buffer
<1>2. Steps \in Nat
  <2>1. Idle \in SUBSET Nat /\ Clean \in SUBSET Nat
    BY Addresses DEF Idle, Clean
  <2>. HIDE DEF Idle, Clean
  <2>2. Idle # {} => Min(Idle) \in Nat
    BY <2>1, MinFacts
  <2>3. Clean # {} => Min(Clean) \in Nat
    BY <2>1, MinFacts
  <2>. QED  BY <2>2, <2>3 DEF Steps
<1>3. clock_head \in Nat
  BY Addresses DEF TypeOK
<1>4. Victim \in Buffer
  BY <1>1, <1>2, <1>3 DEF Victim, Hand
<1>5. Victim + 1 \in Nat
  BY <1>4, Addresses
<1>. QED  BY <1>1, <1>4, <1>5 DEF After

\* A buffer keeps everything but its reference bit.
Kept(j) ==
    buf'[j].cur = buf[j].cur /\ buf'[j].dirty = buf[j].dirty /\ buf'[j].data = buf[j].data

\* The first sweep takes nothing but reference bits.
LEMMA SweptFacts ==
  ASSUME TypeOK
  PROVE  /\ Swept \in [Buffer -> BufferType]
         /\ \A j \in Buffer : /\ Swept[j].cur = buf[j].cur /\ Swept[j].dirty = buf[j].dirty
                              /\ Swept[j].data = buf[j].data
<1>. DEFINE P == Passed
<1>1. Swept = [i \in Buffer |-> IF i \in P THEN [buf[i] EXCEPT !.ref = FALSE] ELSE buf[i]]
  BY DEF Swept
<1>. HIDE DEF P
<1>2. \A j \in Buffer : buf[j] \in BufferType
  BY DEF TypeOK, BufferType
<1>3. \A j \in Buffer :
         LET b == [buf[j] EXCEPT !.ref = FALSE]
         IN  b \in BufferType /\ b.cur = buf[j].cur /\ b.dirty = buf[j].dirty /\ b.data = buf[j].data
  BY <1>2 DEF BufferType
<1>. QED  BY <1>1, <1>2, <1>3

\* What the card holds at an address after some buffers were written.
LEMMA SavedFacts ==
  ASSUME NEW old, NEW a \in DOMAIN old, NEW bufs \in SUBSET Buffer, NEW lost, NEW torn
  PROVE  LET new == Saved(old, bufs, lost, torn)[a]
         IN  \/ /\ new = old[a]
                /\ \A i \in bufs : buf[i].dirty /\ buf[i].cur = a => i \in lost /\ i \notin torn
             \/ \E i \in bufs \ lost : buf[i].dirty /\ buf[i].cur = a /\ new = buf[i].data
             \/ \E i \in bufs \cap torn : buf[i].dirty /\ buf[i].cur = a /\ new = Mixed
<1>. DEFINE here == {i \in bufs : buf[i].dirty /\ buf[i].cur = a}
            new == Saved(old, bufs, lost, torn)[a]
<1>1. new = IF here \ lost # {} THEN buf[Min(here \ lost)].data
            ELSE IF here \cap torn # {} THEN Mixed ELSE old[a]
  BY DEF Saved
<1>2. CASE here \ lost # {}
  <2>1. here \ lost \in SUBSET Nat
    BY Addresses
  <2>. DEFINE m == Min(here \ lost)
  <2>2. m \in here \ lost
    BY <1>2, <2>1, MinFacts
  <2>3. new = buf[m].data
    BY <1>1, <1>2
  <2>. HIDE DEF m, new
  <2>. QED  BY <2>2, <2>3 DEF new
<1>3. CASE here \ lost = {} /\ here \cap torn # {}
  <2>1. new = Mixed
    BY <1>1, <1>3
  <2>. HIDE DEF new
  <2>. QED  BY <1>3, <2>1 DEF new
<1>4. CASE here \ lost = {} /\ here \cap torn = {}
  <2>1. new = old[a]
    BY <1>1, <1>4
  <2>. HIDE DEF new
  <2>. QED  BY <1>4, <2>1 DEF new
<1>. QED  BY <1>2, <1>3, <1>4

\* The card keeps its type.
LEMMA SavedType ==
  ASSUME TypeOK, NEW old \in [Card -> Data], NEW bufs \in SUBSET Buffer, NEW lost, NEW torn
  PROVE  Saved(old, bufs, lost, torn) \in [Card -> Data]
<1>. DEFINE new == Saved(old, bufs, lost, torn)
<1>1. DOMAIN old = Card
  OBVIOUS
<1>2. ASSUME NEW a \in Card  PROVE new[a] \in Data
  <2>1. \A i \in Buffer : buf[i].data \in Data
    BY DEF TypeOK
  <2>2. a \in DOMAIN old /\ old[a] \in Data
    BY <1>1
  <2>. HIDE DEF new
  <2>3. new[a] = old[a] \/ (\E i \in Buffer : new[a] = buf[i].data) \/ new[a] = Mixed
    BY <2>2, SavedFacts DEF new
  <2>. QED  BY <2>1, <2>2, <2>3, Addresses
<1>3. new = [a \in Card |-> new[a]]
  BY <1>1 DEF Saved
<1>. HIDE DEF new
<1>4. new \in [Card -> Data]
  BY <1>2, <1>3
<1>. QED  BY <1>4 DEF new

\* The caller of a write that tears learns of it.
LEMMA TornFacts ==
  ASSUME TypeOK, NEW torn
  PROVE  /\ Torn(torn) \in [Sectors -> SUBSET Data]
         /\ \A s \in Sectors : /\ since[s] \subseteq Torn(torn)[s]
                               /\ (\E i \in torn : Unsaved(i, s)) => Mixed \in Torn(torn)[s]
BY Addresses DEF TypeOK, Torn, Unsaved

-----------------------------------------------------------------------------
(* The steps *)

\* A sector that is in a buffer: the search finds a buffer that holds it.
LEMMA CachedFacts ==
  ASSUME NEW s \in Sectors, Cached(s) # {}
  PROVE  Min(Cached(s)) \in Buffer /\ Holds(Min(Cached(s)), s)
<1>1. Cached(s) \in SUBSET Nat
  BY Addresses DEF Cached
<1>2. Min(Cached(s)) \in Cached(s)
  BY <1>1, MinFacts
<1>. QED  BY <1>2 DEF Cached, Holds

\* The failures of a transfer of one buffer.
LEMMA OneLoss ==
  ASSUME NEW i \in Buffer, NEW op, NEW lost \in Losses(op, {i}), NEW torn \in Tears(lost)
  PROVE  /\ lost \subseteq {i} /\ torn \subseteq {i}
         /\ lost # {} => <<kind, op>> \in Fails
<1>1. lost = {} \/ (lost = {i} /\ <<kind, op>> \in Fails)
  BY DEF Losses
<1>2. torn = {} \/ (lost # {} /\ torn = {Min(lost)})
  BY DEF Tears, Noticed
<1>3. lost # {} => Min(lost) = i
  <2>1. {i} \in SUBSET Nat
    BY Addresses
  <2>2. Min({i}) \in {i}
    BY <2>1, MinFacts
  <2>. QED  BY <1>1, <2>2
<1>. QED  BY <1>1, <1>2, <1>3

\* A miss changes one buffer, unless its content could not be written.
MissOf(i, s, lost, unread, torn) ==
    /\ lost \in Losses("write", {i}) /\ unread \in Losses("read", {i}) /\ torn \in Tears(lost)
    /\ Stored({i}, lost, torn) /\ since' = Torn(torn)
    /\ \A j \in Buffer : j # i \/ (buf[i].dirty /\ Noticed(lost)) => Kept(j)
    /\ ~(buf[i].dirty /\ Noticed(lost)) =>
          /\ ~buf'[i].dirty
          /\ IF Noticed(unread) THEN buf'[i].cur = buf[i].cur
             ELSE /\ buf'[i].cur = s + BASE
                  /\ unread = {} => buf'[i].data = disk'[s + BASE]

LEMMA MissFacts ==
  ASSUME TypeOK, NEW s \in Sectors, Miss(s)
  PROVE  /\ Victim \in Buffer /\ Cached(s) = {} /\ clock_head' \in Buffer
         /\ UNCHANGED <<kind, owned, content>>
         /\ buf' \in [Buffer -> BufferType] /\ disk' \in [Card -> Data] /\ copy' \in [Card -> Data]
         /\ \E lost, unread, torn : MissOf(Victim, s, lost, unread, torn)
<1>. DEFINE i == Victim
<1>1. i \in Buffer /\ clock_head' \in Buffer /\ Cached(s) = {} /\ UNCHANGED <<kind, owned, content>>
  BY VictimFacts DEF Miss
<1>2. PICK lost \in Losses("write", {i}), unread \in Losses("read", {i}) : \E torn \in Tears(lost) :
        /\ Evicted(lost, torn)
        /\ buf' = IF buf[i].dirty /\ Noticed(lost) THEN Swept
                  ELSE IF Noticed(unread)
                  THEN [Swept EXCEPT ![i].dirty = FALSE, ![i].data = Mixed]
                  ELSE [Swept EXCEPT ![i] =
                           [cur |-> s + BASE, ref |-> TRUE, dirty |-> FALSE,
                            data |-> IF unread = {} THEN disk'[s + BASE] ELSE buf[i].data]]
        /\ since' = Torn(torn)
  BY DEF Miss
<1>3. PICK torn \in Tears(lost) :
        /\ Stored({i}, lost, torn)
        /\ buf' = IF buf[i].dirty /\ Noticed(lost) THEN Swept
                  ELSE IF Noticed(unread)
                  THEN [Swept EXCEPT ![i].dirty = FALSE, ![i].data = Mixed]
                  ELSE [Swept EXCEPT ![i] =
                           [cur |-> s + BASE, ref |-> TRUE, dirty |-> FALSE,
                            data |-> IF unread = {} THEN disk'[s + BASE] ELSE buf[i].data]]
        /\ since' = Torn(torn)
  BY <1>2 DEF Evicted
<1>. HIDE DEF i
<1>4. disk' \in [Card -> Data] /\ copy' \in [Card -> Data]
  <2>1. disk' = Saved(disk, {i}, lost, torn) /\ copy' \in {copy, Saved(copy, {i}, lost, torn)}
    BY <1>3 DEF Stored
  <2>2. disk \in [Card -> Data] /\ copy \in [Card -> Data] /\ {i} \in SUBSET Buffer
    BY <1>1 DEF TypeOK
  <2>. QED  BY <2>1, <2>2, SavedType
<1>5. /\ s + BASE \in Card /\ disk'[s + BASE] \in Data /\ buf[i].data \in Data /\ Mixed \in Data
      /\ Swept \in [Buffer -> BufferType]
      /\ \A j \in Buffer : /\ Swept[j].cur = buf[j].cur /\ Swept[j].dirty = buf[j].dirty
                           /\ Swept[j].data = buf[j].data
  BY <1>1, <1>4, Addresses, SweptFacts DEF TypeOK
<1>. DEFINE w == Swept
<1>. HIDE DEF w
<1>6. CASE buf[i].dirty /\ Noticed(lost)
  <2>1. buf' = w
    BY <1>3, <1>6 DEF w
  <2>2. buf' \in [Buffer -> BufferType] /\ \A j \in Buffer : Kept(j)
    BY <1>5, <2>1 DEF w, Kept
  <2>3. MissOf(i, s, lost, unread, torn)
    BY <1>2, <1>3, <1>6, <2>2 DEF MissOf
  <2>. QED  BY <1>1, <1>4, <2>2, <2>3 DEF i
<1>7. CASE ~(buf[i].dirty /\ Noticed(lost)) /\ Noticed(unread)
  <2>1. buf' = [w EXCEPT ![i].dirty = FALSE, ![i].data = Mixed]
    BY <1>3, <1>7 DEF w
  <2>2. buf' \in [Buffer -> BufferType]
    BY <1>1, <1>5, <2>1 DEF w, BufferType
  <2>3. \A j \in Buffer : j # i => Kept(j)
    BY <1>1, <1>5, <2>1 DEF w, Kept
  <2>4. ~buf'[i].dirty /\ buf'[i].cur = buf[i].cur
    BY <1>1, <1>5, <2>1 DEF w, BufferType
  <2>5. MissOf(i, s, lost, unread, torn)
    BY <1>2, <1>3, <1>7, <2>3, <2>4 DEF MissOf
  <2>. QED  BY <1>1, <1>4, <2>2, <2>5 DEF i
<1>8. CASE ~(buf[i].dirty /\ Noticed(lost)) /\ ~Noticed(unread)
  <2>. DEFINE d == IF unread = {} THEN disk'[s + BASE] ELSE buf[i].data
              b == [cur |-> s + BASE, ref |-> TRUE, dirty |-> FALSE, data |-> d]
  <2>1. buf' = [w EXCEPT ![i] = b]
    BY <1>3, <1>8 DEF w
  <2>2. d \in Data /\ (unread = {} => d = disk'[s + BASE])
    BY <1>5
  <2>. HIDE DEF d
  <2>3. b \in BufferType /\ b.cur = s + BASE /\ ~b.dirty /\ b.data = d
    BY <1>5, <2>2 DEF BufferType
  <2>. HIDE DEF b
  <2>4. buf' \in [Buffer -> BufferType] /\ buf'[i] = b /\ \A j \in Buffer : j # i => buf'[j] = w[j]
    BY <1>1, <1>5, <2>1, <2>3 DEF w
  <2>5. \A j \in Buffer : j # i => Kept(j)
    BY <1>5, <2>4 DEF w, Kept
  <2>6. MissOf(i, s, lost, unread, torn)
    BY <1>2, <1>3, <1>8, <2>2, <2>3, <2>4, <2>5 DEF MissOf
  <2>. QED  BY <1>1, <1>4, <2>4, <2>6 DEF i
<1>. QED  BY <1>6, <1>7, <1>8

\* A hit changes no more than a reference bit.
LEMMA HitFacts ==
  ASSUME TypeOK, NEW s \in Sectors, Hit(s)
  PROVE  buf' \in [Buffer -> BufferType] /\ \A j \in Buffer : Kept(j)
<1>. DEFINE m == Min(Cached(s))
<1>1. m \in Buffer /\ buf' = [buf EXCEPT ![m].ref = TRUE] /\ buf \in [Buffer -> BufferType]
  BY CachedFacts DEF Hit, TypeOK, BufferType
<1>. HIDE DEF m
<1>2. buf' \in [Buffer -> BufferType]
  BY <1>1 DEF BufferType
<1>. QED  BY <1>1, <1>2 DEF Kept, BufferType

\* A caller changes the one buffer that it has read.
LEMMA ModifyFacts ==
  ASSUME TypeOK, NEW s \in Sectors, NEW v \in Values, Modify(s, v)
  PROVE  /\ buf' \in [Buffer -> BufferType]
         /\ \E m \in Buffer :
               /\ Holds(m, s)
               /\ buf'[m].cur = buf[m].cur /\ buf'[m].dirty /\ buf'[m].data = v
               /\ \A j \in Buffer : j # m => Kept(j)
<1>. DEFINE m == Min(Cached(s))
<1>1. /\ m \in Buffer /\ Holds(m, s) /\ v \in Data /\ buf \in [Buffer -> BufferType]
      /\ buf' = [buf EXCEPT ![m] = [@ EXCEPT !.ref = TRUE, !.dirty = TRUE, !.data = v]]
  BY CachedFacts, Addresses DEF Modify, TypeOK, BufferType
<1>. HIDE DEF m
<1>2. buf' \in [Buffer -> BufferType]
  BY <1>1 DEF BufferType
<1>3. buf'[m].cur = buf[m].cur /\ buf'[m].dirty /\ buf'[m].data = v
  BY <1>1 DEF BufferType
<1>4. \A j \in Buffer : j # m => Kept(j)
  BY <1>1 DEF Kept
<1>. QED  BY <1>1, <1>2, <1>3, <1>4

\* A flush writes the buffers up to the first failure that it notices.
FlushOf(tried, lost, torn) ==
    /\ tried \subseteq Buffer /\ torn \subseteq Buffer /\ Stored(tried \cup torn, lost, torn)
    /\ lost # {} => <<kind, "write">> \in Fails
    /\ IF Noticed(lost) THEN tried \cap (lost \cup torn) = {} /\ since' = Torn(torn)
       ELSE tried = Buffer /\ torn = {} /\ since' = [s \in Sectors |-> {content[s]}]
    /\ \A j \in Buffer : /\ buf'[j].cur = buf[j].cur /\ buf'[j].data = buf[j].data
                         /\ buf'[j].dirty <=> (j \notin tried /\ buf[j].dirty)

LEMMA FlushFacts ==
  ASSUME TypeOK, Flush
  PROVE  /\ buf' \in [Buffer -> BufferType] /\ disk' \in [Card -> Data] /\ copy' \in [Card -> Data]
         /\ UNCHANGED <<clock_head, kind, owned, content>>
         /\ \E tried, lost, torn : FlushOf(tried, lost, torn)
<1>1. PICK lost \in Losses("write", {i \in Buffer : buf[i].dirty}) : \E torn \in Tears(lost) :
        LET tried == IF Noticed(lost) THEN 0 .. Min(lost) - 1 ELSE Buffer
        IN  /\ Stored(tried \cup torn, lost, torn)
            /\ buf' = [i \in Buffer |-> [buf[i] EXCEPT !.dirty = i \notin tried /\ @]]
            /\ since' = IF Noticed(lost) THEN Torn(torn) ELSE [s \in Sectors |-> {content[s]}]
            /\ UNCHANGED <<clock_head, kind, owned, content>>
  BY DEF Flush
<1>. DEFINE tried == IF Noticed(lost) THEN 0 .. Min(lost) - 1 ELSE Buffer
<1>2. PICK torn \in Tears(lost) :
            /\ Stored(tried \cup torn, lost, torn)
            /\ buf' = [i \in Buffer |-> [buf[i] EXCEPT !.dirty = i \notin tried /\ @]]
            /\ since' = IF Noticed(lost) THEN Torn(torn) ELSE [s \in Sectors |-> {content[s]}]
            /\ UNCHANGED <<clock_head, kind, owned, content>>
  BY <1>1
<1>3. lost \subseteq Buffer /\ (lost # {} => <<kind, "write">> \in Fails)
  BY DEF Losses
<1>4. /\ tried \subseteq Buffer /\ torn \subseteq Buffer
      /\ IF Noticed(lost) THEN tried \cap (lost \cup torn) = {} ELSE tried = Buffer /\ torn = {}
  <2>1. CASE Noticed(lost)
    <3>. DEFINE m == Min(lost)
    <3>1. lost \in SUBSET Nat /\ lost # {}
      BY <1>3, <2>1, Addresses DEF Noticed
    <3>2. m \in lost /\ \A y \in lost : m <= y
      BY <3>1, MinFacts
    <3>3. tried = 0 .. m - 1 /\ torn \subseteq {m}
      BY <2>1 DEF Tears
    <3>. HIDE DEF m, tried
    <3>4. m \in Buffer /\ m \in Nat /\ Size \in Nat
      BY <1>3, <3>2, Addresses, ConstantsAssumption
    <3>5. 0 .. m - 1 \subseteq Buffer
      BY <3>4 DEF Buffer
    <3>6. \A y \in lost : y \notin 0 .. m - 1
      BY <3>1, <3>2, <3>4
    <3>. QED  BY <2>1, <3>2, <3>3, <3>4, <3>5, <3>6
  <2>2. CASE ~Noticed(lost)
    BY <2>2 DEF Tears
  <2>. QED  BY <2>1, <2>2
<1>. HIDE DEF tried
<1>5. /\ buf' \in [Buffer -> BufferType]
      /\ \A j \in Buffer : /\ buf'[j].cur = buf[j].cur /\ buf'[j].data = buf[j].data
                           /\ buf'[j].dirty <=> (j \notin tried /\ buf[j].dirty)
  <2>1. \A j \in Buffer : buf[j] \in BufferType
    BY DEF TypeOK, BufferType
  <2>2. \A j \in Buffer : buf'[j] = [buf[j] EXCEPT !.dirty = j \notin tried /\ @]
    BY <1>2
  <2>3. ASSUME NEW b \in BufferType, NEW yes \in BOOLEAN
        PROVE  LET c == [b EXCEPT !.dirty = yes]
               IN  c \in BufferType /\ c.cur = b.cur /\ c.data = b.data /\ c.dirty = yes
    BY DEF BufferType
  <2>4. \A j \in Buffer : (j \notin tried /\ buf[j].dirty) \in BOOLEAN
    OBVIOUS
  <2>5. \A j \in Buffer : /\ buf'[j] \in BufferType
                          /\ buf'[j].cur = buf[j].cur /\ buf'[j].data = buf[j].data
                          /\ buf'[j].dirty <=> (j \notin tried /\ buf[j].dirty)
    <3>. TAKE j \in Buffer
    <3>. DEFINE yes == j \notin tried /\ buf[j].dirty
    <3>1. yes \in BOOLEAN /\ buf'[j] = [buf[j] EXCEPT !.dirty = yes] /\ buf[j] \in BufferType
      BY <2>1, <2>2
    <3>. HIDE DEF yes
    <3>2. /\ buf'[j] \in BufferType /\ buf'[j].dirty = yes
          /\ buf'[j].cur = buf[j].cur /\ buf'[j].data = buf[j].data
      BY <2>3, <3>1
    <3>. QED  BY <3>2 DEF yes
  <2>. QED  BY <1>2, <2>5
<1>6. disk' \in [Card -> Data] /\ copy' \in [Card -> Data]
  <2>. DEFINE bufs == tried \cup torn
  <2>1. disk' = Saved(disk, bufs, lost, torn) /\ copy' \in {copy, Saved(copy, bufs, lost, torn)}
    BY <1>2 DEF Stored
  <2>2. disk \in [Card -> Data] /\ copy \in [Card -> Data] /\ bufs \in SUBSET Buffer
    BY <1>4 DEF TypeOK
  <2>. HIDE DEF bufs
  <2>. QED  BY <2>1, <2>2, SavedType
<1>7. FlushOf(tried, lost, torn)
  BY <1>2, <1>3, <1>4, <1>5 DEF FlushOf
<1>. QED  BY <1>2, <1>5, <1>6, <1>7

\* A new cluster takes the victim and leaves the other sectors of the file alone.
LEMMA NewClusterFacts ==
  ASSUME TypeOK, NEW s \in Sectors, NewCluster(s)
  PROVE  /\ buf' \in [Buffer -> BufferType] /\ disk' \in [Card -> Data] /\ clock_head' \in Buffer
         /\ Victim \in Buffer /\ s \notin owned /\ owned' = owned \cup {s}
         /\ UNCHANGED <<copy, kind, content, since>> /\ kind = "4K"
         /\ \A j \in Buffer : j # Victim => Kept(j)
         /\ buf'[Victim].cur = s /\ ~buf'[Victim].dirty
         /\ \E erased \in [Card -> Data] :
               /\ disk' = Saved(erased, {Victim}, {}, {})
               /\ \A a \in Card : a # s => erased[a] = disk[a]
<1>. DEFINE i == Victim
            erased == [a \in Card |-> IF a = s THEN Zero ELSE disk[a]]
            w == Swept
            b == [Empty EXCEPT !.cur = s]
<1>1. /\ i \in Buffer /\ clock_head' \in Buffer /\ s \notin owned /\ owned' = owned \cup {s}
      /\ UNCHANGED <<copy, kind, content, since>> /\ kind = "4K"
      /\ disk' = Saved(erased, {i}, {}, {})
      /\ buf' = [w EXCEPT ![i] = b]
  BY VictimFacts DEF NewCluster
<1>2. erased \in [Card -> Data] /\ \A a \in Card : a # s => erased[a] = disk[a]
  BY Addresses DEF TypeOK
<1>3. b \in BufferType /\ b.cur = s /\ ~b.dirty
  BY Addresses DEF Empty, BufferType
<1>4. w \in [Buffer -> BufferType] /\ \A j \in Buffer : /\ w[j].cur = buf[j].cur
                /\ w[j].dirty = buf[j].dirty /\ w[j].data = buf[j].data
  BY SweptFacts
<1>. HIDE DEF i, erased, w, b
<1>5. buf' \in [Buffer -> BufferType] /\ buf'[i] = b /\ \A j \in Buffer : j # i => buf'[j] = w[j]
  BY <1>1, <1>3, <1>4
<1>6. \A j \in Buffer : j # i => Kept(j)
  BY <1>4, <1>5 DEF Kept
<1>7. disk' \in [Card -> Data]
  BY <1>1, <1>2, SavedType
<1>. QED  BY <1>1, <1>2, <1>3, <1>5, <1>6, <1>7 DEF i

-----------------------------------------------------------------------------
(* The invariants *)

\* Every step keeps the types.
LEMMA TypeStep == TypeOK /\ [Next]_vars => TypeOK'
<1>. SUFFICES ASSUME TypeOK, [Next]_vars  PROVE TypeOK'
  OBVIOUS
<1>. DEFINE Rest == /\ clock_head \in Buffer /\ kind \in Kinds
                    /\ disk \in [Card -> Data] /\ copy \in [Card -> Data]
                    /\ content \in [Sectors -> Data] /\ since \in [Sectors -> SUBSET Data]
                    /\ owned \subseteq Sectors
<1>1. TypeOK <=> buf \in [Buffer -> BufferType] /\ Rest
  BY DEF TypeOK, BufferType
<1>2. TypeOK' <=> buf' \in [Buffer -> BufferType] /\ Rest'
  BY DEF TypeOK, BufferType
<1>3. ASSUME NEW s \in Sectors, Hit(s)  PROVE TypeOK'
  <2>1. Rest'
    BY <1>1, <1>3 DEF Hit, card, history
  <2>. QED  BY <1>2, <1>3, <2>1, HitFacts
<1>4. ASSUME NEW s \in Sectors, Miss(s)  PROVE TypeOK'
  <2>1. PICK lost, unread, torn : MissOf(Victim, s, lost, unread, torn)
    BY <1>4, MissFacts
  <2>2. since' \in [Sectors -> SUBSET Data]
    BY <2>1, TornFacts DEF MissOf
  <2>3. Rest'
    BY <1>1, <1>4, <2>2, MissFacts
  <2>. QED  BY <1>2, <1>4, <2>3, MissFacts
<1>5. ASSUME NEW s \in Sectors, NEW v \in Values, Modify(s, v)  PROVE TypeOK'
  <2>1. v \in Data
    BY Addresses
  <2>2. content' \in [Sectors -> Data] /\ since' \in [Sectors -> SUBSET Data]
    BY <1>1, <1>5, <2>1 DEF Modify
  <2>3. Rest'
    BY <1>1, <1>5, <2>2 DEF Modify, card
  <2>. QED  BY <1>2, <1>5, <2>3, ModifyFacts
<1>6. ASSUME NEW s \in Sectors, NewCluster(s)  PROVE TypeOK'
  <2>1. Rest'
    BY <1>1, <1>6, NewClusterFacts
  <2>. QED  BY <1>2, <1>6, <2>1, NewClusterFacts
<1>7. CASE Flush
  <2>1. PICK tried, lost, torn : FlushOf(tried, lost, torn)
    BY <1>7, FlushFacts
  <2>2. [s \in Sectors |-> {content[s]}] \in [Sectors -> SUBSET Data]
    BY <1>1
  <2>3. since' \in [Sectors -> SUBSET Data]
    BY <2>1, <2>2, TornFacts DEF FlushOf
  <2>4. Rest'
    BY <1>1, <1>7, <2>3, FlushFacts
  <2>. QED  BY <1>2, <1>7, <2>4, FlushFacts
<1>8. CASE Crash
  <2>1. Empty \in BufferType /\ 0 \in Buffer
    BY Addresses, ConstantsAssumption DEF Empty, BufferType, Buffer
  <2>2. buf' \in [Buffer -> BufferType]
    BY <1>8, <2>1 DEF Crash
  <2>3. \A s \in Sectors : disk[s + BASE] \in Data
    BY <1>1, Addresses
  <2>4. Rest'
    BY <1>1, <1>8, <2>1, <2>3 DEF Crash, card
  <2>. QED  BY <1>2, <2>2, <2>4
<1>9. CASE UNCHANGED vars
  BY <1>9 DEF TypeOK, vars, cache, card, history
<1>. QED  BY <1>3, <1>4, <1>5, <1>6, <1>7, <1>8, <1>9 DEF Next, Read

LEMMA TypeInvariant == Spec => []TypeOK
<1>1. Init => TypeOK
  <2>. SUFFICES ASSUME Init  PROVE TypeOK
    OBVIOUS
  <2>1. Empty \in BufferType /\ 0 \in Buffer
    BY Addresses, ConstantsAssumption DEF Empty, BufferType, Buffer
  <2>2. buf \in [Buffer -> BufferType]
    BY <2>1 DEF Init
  <2>3. disk \in [Card -> Data] /\ copy \in [Card -> Data]
    BY Addresses DEF Init
  <2>4. \A s \in Sectors : disk[s + BASE] \in Data
    BY <2>3, Addresses
  <2>5. content \in [Sectors -> Data] /\ since \in [Sectors -> SUBSET Data]
    BY <2>4 DEF Init
  <2>. QED  BY <2>1, <2>2, <2>3, <2>5 DEF Init, TypeOK, BufferType
<1>. QED  BY <1>1, TypeStep, PTL DEF Spec

\* A step that brings no address to a buffer but that of a sector which no buffer
\* holds, or that of a cluster which was not the file's, keeps the sectors apart.
LEMMA OneEachStep ==
  ASSUME Apart, TypeOK, OneEach, [Next]_vars
  PROVE  OneEach'
<1>1. ASSUME \A j \in Buffer : buf'[j].cur = buf[j].cur, owned' = owned  PROVE OneEach'
  BY <1>1 DEF OneEach
<1>2. ASSUME NEW i \in Buffer, NEW s \in Sectors, Cached(s) = {}, owned' = owned,
             \A j \in Buffer : j # i => buf'[j].cur = buf[j].cur, buf'[i].cur = s + BASE
      PROVE  OneEach'
  <2>1. \A j \in Buffer : j # i => buf'[j].cur # s + BASE
    BY <1>2 DEF Cached
  <2>2. \A t \in Sectors : t # s + BASE
    BY DEF Apart
  <2>. QED  BY <1>2, <2>1, <2>2 DEF OneEach
<1>3. ASSUME NEW s \in Sectors, Read(s)  PROVE OneEach'
  <2>1. CASE Hit(s)
    <3>1. (\A j \in Buffer : buf'[j].cur = buf[j].cur) /\ owned' = owned
      BY <2>1, HitFacts DEF Hit, history, Kept
    <3>. QED  BY <1>1, <3>1
  <2>2. CASE Miss(s)
    <3>1. PICK lost, unread, torn : MissOf(Victim, s, lost, unread, torn)
      BY <2>2, MissFacts
    <3>. DEFINE i == Victim
    <3>2. i \in Buffer /\ Cached(s) = {} /\ owned' = owned /\ MissOf(i, s, lost, unread, torn)
      BY <2>2, <3>1, MissFacts
    <3>. HIDE DEF i
    <3>3. \/ \A j \in Buffer : buf'[j].cur = buf[j].cur
          \/ (\A j \in Buffer : j # i => buf'[j].cur = buf[j].cur) /\ buf'[i].cur = s + BASE
      BY <3>2 DEF MissOf, Kept
    <3>. QED  BY <1>1, <1>2, <3>2, <3>3
  <2>. QED  BY <1>3, <2>1, <2>2 DEF Read
<1>4. ASSUME NEW s \in Sectors, NEW v \in Values, Modify(s, v)  PROVE OneEach'
  <2>1. \A j \in Buffer : buf'[j].cur = buf[j].cur
    BY <1>4, ModifyFacts DEF Kept
  <2>. QED  BY <1>1, <1>4, <2>1 DEF Modify
<1>5. ASSUME NEW s \in Sectors, NewCluster(s)  PROVE OneEach'
  <2>. DEFINE i == Victim
  <2>1. /\ i \in Buffer /\ s \notin owned /\ owned' = owned \cup {s} /\ buf'[i].cur = s
        /\ \A j \in Buffer : j # i => buf'[j].cur = buf[j].cur
    BY <1>5, NewClusterFacts DEF Kept
  <2>. HIDE DEF i
  <2>2. \A j \in Buffer : j # i => buf'[j].cur # s
    BY <2>1 DEF OneEach
  <2>. QED  BY <2>1, <2>2 DEF OneEach
<1>6. CASE Flush
  BY <1>1, <1>6, FlushFacts DEF FlushOf
<1>7. CASE Crash
  <2>1. (\A j \in Buffer : buf'[j].cur = NoSector) /\ owned' = owned
    BY <1>7 DEF Crash, Empty
  <2>2. \A s \in Sectors : s # NoSector
    BY Addresses
  <2>. QED  BY <2>1, <2>2 DEF OneEach
<1>8. CASE UNCHANGED vars
  BY <1>8 DEF OneEach, vars, cache, history
<1>. QED  BY <1>3, <1>4, <1>5, <1>6, <1>7, <1>8 DEF Next

\* A write that is not noticed has not failed, or else no one would know.
LEMMA NoLoss ==
  ASSUME WritesNoticed, TypeOK, NEW lost, ~Noticed(lost), lost # {} => <<kind, "write">> \in Fails
  PROVE  lost = {} /\ \A torn \in Tears(lost) : torn = {}
<1>1. kind \in AllKinds
  BY ConstantsAssumption DEF TypeOK
<1>2. ASSUME lost # {}  PROVE FALSE
  <2>1. kind = "4K"
    BY <1>1, <1>2, ConstantsAssumption DEF WritesNoticed, AllKinds
  <2>. QED  BY <1>2, <2>1 DEF Noticed, SingleBlock
<1>. QED  BY <1>2 DEF Tears, Noticed

\* A sector on the card after a write: new, as it was, or torn.
LEMMA SectorSaved ==
  ASSUME TypeOK, LastWritten, NEW s \in Sectors, NEW bufs \in SUBSET Buffer, NEW lost, NEW torn,
         NEW old \in [Card -> Data], old[s + BASE] = disk[s + BASE],
         disk' = Saved(old, bufs, lost, torn)
  PROVE  \/ /\ disk'[s + BASE] = disk[s + BASE]
            /\ \A i \in bufs : Unsaved(i, s) => i \in lost /\ i \notin torn
         \/ disk'[s + BASE] = content[s]
         \/ /\ disk'[s + BASE] = Mixed
            /\ \E i \in bufs \cap torn : Unsaved(i, s)
<1>. DEFINE a == s + BASE
<1>1. a \in DOMAIN old
  BY Addresses
<1>2. LET new == disk'[a]
      IN  \/ /\ new = old[a]
             /\ \A i \in bufs : buf[i].dirty /\ buf[i].cur = a => i \in lost /\ i \notin torn
          \/ \E i \in bufs \ lost : buf[i].dirty /\ buf[i].cur = a /\ new = buf[i].data
          \/ \E i \in bufs \cap torn : buf[i].dirty /\ buf[i].cur = a /\ new = Mixed
  BY <1>1, SavedFacts
<1>. QED  BY <1>2 DEF Unsaved, LastWritten

\* What was written last stays in its buffer until it is on the card.
LEMMA LastWrittenStep ==
  ASSUME Apart, WritesNoticed, TypeOK, OneEach, LastWritten, [Next]_vars
  PROVE  LastWritten'
<1>. USE DEF Unsaved
<1>1. disk \in [Card -> Data] /\ (\A s \in Sectors : s + BASE \in Card)
  BY Addresses DEF TypeOK
<1>2. ASSUME NEW s \in Sectors, Hit(s)  PROVE LastWritten'
  <2>1. UNCHANGED <<disk, content, since>> /\ \A j \in Buffer : Kept(j)
    BY <1>2, HitFacts DEF Hit, card, history
  <2>. QED  BY <2>1 DEF LastWritten, Kept
<1>3. ASSUME NEW s \in Sectors, Miss(s)  PROVE LastWritten'
  <2>. DEFINE i == Victim
  <2>1. PICK lost, unread, torn : MissOf(i, s, lost, unread, torn)
    BY <1>3, MissFacts
  <2>2. /\ i \in Buffer /\ content' = content /\ disk' = Saved(disk, {i}, lost, torn)
        /\ since' = Torn(torn) /\ lost \in Losses("write", {i}) /\ torn \in Tears(lost)
    BY <1>3, <2>1, MissFacts DEF MissOf, Stored
  <2>. HIDE DEF i
  <2>3. \A t \in Sectors : \/ /\ disk'[t + BASE] = disk[t + BASE]
                              /\ Unsaved(i, t) => i \in lost /\ i \notin torn
                           \/ disk'[t + BASE] = content[t]
                           \/ disk'[t + BASE] = Mixed /\ i \in torn /\ Unsaved(i, t)
    <3>1. {i} \in SUBSET Buffer
      BY <2>2
    <3>. HIDE DEF Unsaved
    <3>. QED  BY <1>1, <2>2, <3>1, SectorSaved
  <2>4. \A t \in Sectors : content'[t] \in since'[t] /\ disk'[t + BASE] \in since'[t]
    BY <2>2, <2>3, TornFacts DEF LastWritten
  <2>5. lost # {} => <<kind, "write">> \in Fails
    BY <2>2, OneLoss
  <2>6. CASE buf[i].dirty /\ Noticed(lost)
    <3>1. \A j \in Buffer : Kept(j)
      BY <2>1, <2>6 DEF MissOf
    <3>2. \A t \in Sectors : (\A j \in Buffer : ~Unsaved(j, t)') => disk'[t + BASE] = content'[t]
      <4>. TAKE t \in Sectors
      <4>. HAVE \A j \in Buffer : ~Unsaved(j, t)'
      <4>1. \A j \in Buffer : ~Unsaved(j, t)
        BY <3>1 DEF Kept
      <4>. QED  BY <2>2, <2>3, <4>1 DEF LastWritten
    <3>3. \A j \in Buffer, t \in Sectors : Unsaved(j, t)' => buf'[j].data = content'[t]
      BY <2>2, <3>1 DEF LastWritten, Kept
    <3>. QED  BY <2>4, <3>2, <3>3 DEF LastWritten
  <2>7. CASE ~(buf[i].dirty /\ Noticed(lost))
    <3>1. ~buf'[i].dirty /\ \A j \in Buffer : j # i => Kept(j)
      BY <2>1, <2>7 DEF MissOf
    <3>2. buf[i].dirty => lost = {} /\ torn = {}
      BY <2>2, <2>5, <2>7, NoLoss
    <3>3. \A t \in Sectors : (\A j \in Buffer : ~Unsaved(j, t)') => disk'[t + BASE] = content'[t]
      <4>. TAKE t \in Sectors
      <4>. HAVE \A j \in Buffer : ~Unsaved(j, t)'
      <4>1. \A j \in Buffer : j # i => ~Unsaved(j, t)
        BY <3>1 DEF Kept
      <4>2. CASE Unsaved(i, t)
        BY <2>2, <2>3, <3>2, <4>2
      <4>3. CASE ~Unsaved(i, t)
        BY <2>2, <2>3, <4>1, <4>3 DEF LastWritten
      <4>. QED  BY <4>2, <4>3
    <3>4. \A j \in Buffer, t \in Sectors : Unsaved(j, t)' => buf'[j].data = content'[t]
      BY <2>2, <3>1 DEF LastWritten, Kept
    <3>. QED  BY <2>4, <3>3, <3>4 DEF LastWritten
  <2>. QED  BY <2>6, <2>7
<1>4. ASSUME NEW s \in Sectors, NEW v \in Values, Modify(s, v)  PROVE LastWritten'
  <2>1. PICK m \in Buffer : /\ Holds(m, s)
                            /\ buf'[m].cur = buf[m].cur /\ buf'[m].dirty /\ buf'[m].data = v
                            /\ \A j \in Buffer : j # m => Kept(j)
    BY <1>4, ModifyFacts
  <2>2. /\ disk' = disk
        /\ \A t \in Sectors : content'[t] = IF t = s THEN v ELSE content[t]
        /\ \A t \in Sectors : since'[t] = IF t = s THEN since[t] \cup {v} ELSE since[t]
    BY <1>4 DEF Modify, card, TypeOK
  <2>3. \A j \in Buffer : j # m => buf[j].cur # s + BASE
    BY <2>1, Addresses DEF OneEach, Holds
  <2>4. \A j \in Buffer, t \in Sectors : Unsaved(j, t)' => buf'[j].data = content'[t]
    <3>. TAKE j \in Buffer, t \in Sectors
    <3>1. CASE j = m
      BY <2>1, <2>2, <3>1, Addresses DEF Holds
    <3>2. CASE j # m
      BY <2>1, <2>2, <2>3, <3>2 DEF Kept, LastWritten
    <3>. QED  BY <3>1, <3>2
  <2>5. \A t \in Sectors : (\A j \in Buffer : ~Unsaved(j, t)') => disk'[t + BASE] = content'[t]
    <3>. TAKE t \in Sectors
    <3>. HAVE \A j \in Buffer : ~Unsaved(j, t)'
    <3>1. t # s
      BY <2>1 DEF Holds
    <3>2. \A j \in Buffer : ~Unsaved(j, t)
      BY <2>1, <3>1, Addresses DEF Kept, Holds
    <3>. QED  BY <2>2, <3>1, <3>2 DEF LastWritten
  <2>6. \A t \in Sectors : content'[t] \in since'[t] /\ disk'[t + BASE] \in since'[t]
    BY <2>2 DEF LastWritten
  <2>. QED  BY <2>4, <2>5, <2>6 DEF LastWritten
<1>5. ASSUME NEW s \in Sectors, NewCluster(s)  PROVE LastWritten'
  <2>. DEFINE i == Victim
  <2>1. PICK erased \in [Card -> Data] : /\ disk' = Saved(erased, {i}, {}, {})
                                         /\ \A a \in Card : a # s => erased[a] = disk[a]
    BY <1>5, NewClusterFacts
  <2>2. /\ i \in Buffer /\ UNCHANGED <<content, since>>
        /\ ~buf'[i].dirty /\ \A j \in Buffer : j # i => Kept(j)
    BY <1>5, NewClusterFacts
  <2>. HIDE DEF i
  <2>3. \A t \in Sectors : \/ disk'[t + BASE] = disk[t + BASE] /\ ~Unsaved(i, t)
                           \/ disk'[t + BASE] = content[t]
    <3>. TAKE t \in Sectors
    <3>1. erased[t + BASE] = disk[t + BASE] /\ {i} \in SUBSET Buffer
      BY <1>1, <2>1, <2>2 DEF Apart
    <3>. HIDE DEF Unsaved
    <3>2. \/ /\ disk'[t + BASE] = disk[t + BASE]
             /\ \A j \in {i} : Unsaved(j, t) => j \in {} /\ j \notin {}
          \/ disk'[t + BASE] = content[t]
          \/ /\ disk'[t + BASE] = Mixed
             /\ \E j \in {i} \cap {} : Unsaved(j, t)
      BY <2>1, <3>1, SectorSaved
    <3>. QED  BY <3>2
  <2>4. \A t \in Sectors : (\A j \in Buffer : ~Unsaved(j, t)') => disk'[t + BASE] = content'[t]
    BY <2>2, <2>3 DEF LastWritten, Kept
  <2>5. \A j \in Buffer, t \in Sectors : Unsaved(j, t)' => buf'[j].data = content'[t]
    BY <2>2 DEF LastWritten, Kept
  <2>6. \A t \in Sectors : content'[t] \in since'[t] /\ disk'[t + BASE] \in since'[t]
    BY <2>2, <2>3 DEF LastWritten
  <2>. QED  BY <2>4, <2>5, <2>6 DEF LastWritten
<1>6. CASE Flush
  <2>1. PICK tried, lost, torn : FlushOf(tried, lost, torn)
    BY <1>6, FlushFacts
  <2>. DEFINE bufs == tried \cup torn
  <2>2. /\ content' = content /\ disk' = Saved(disk, bufs, lost, torn) /\ bufs \in SUBSET Buffer
    BY <1>6, <2>1, FlushFacts DEF FlushOf, Stored
  <2>3. \A t \in Sectors : \/ /\ disk'[t + BASE] = disk[t + BASE]
                              /\ \A j \in bufs : Unsaved(j, t) => j \in lost /\ j \notin torn
                           \/ disk'[t + BASE] = content[t]
                           \/ disk'[t + BASE] = Mixed /\ \E j \in bufs \cap torn : Unsaved(j, t)
    <3>. HIDE DEF Unsaved, bufs
    <3>. QED  BY <1>1, <2>2, SectorSaved
  <2>4. \A j \in Buffer, t \in Sectors : /\ Unsaved(j, t)' <=> (j \notin tried /\ Unsaved(j, t))
                                         /\ buf'[j].data = buf[j].data
    BY <2>1 DEF FlushOf
  <2>5. \A j \in Buffer, t \in Sectors : Unsaved(j, t)' => buf'[j].data = content'[t]
    BY <2>2, <2>4 DEF LastWritten
  <2>6. CASE Noticed(lost)
    <3>1. tried \cap (lost \cup torn) = {} /\ since' = Torn(torn) /\ torn \subseteq Buffer /\ tried \subseteq Buffer
      BY <2>1, <2>6 DEF FlushOf
    <3>2. \A t \in Sectors : (\A j \in Buffer : ~Unsaved(j, t)') => disk'[t + BASE] = content'[t]
      <4>. TAKE t \in Sectors
      <4>. HAVE \A j \in Buffer : ~Unsaved(j, t)'
      <4>1. \A j \in Buffer : Unsaved(j, t) => j \in tried
        BY <2>4
      <4>2. ~\E j \in bufs \cap torn : Unsaved(j, t)
        BY <3>1, <4>1
      <4>3. CASE \E j \in Buffer : Unsaved(j, t)
        BY <2>2, <2>3, <3>1, <4>1, <4>2, <4>3
      <4>4. CASE ~\E j \in Buffer : Unsaved(j, t)
        BY <2>2, <2>3, <4>2, <4>4 DEF LastWritten
      <4>. QED  BY <4>3, <4>4
    <3>3. \A t \in Sectors : content'[t] \in since'[t] /\ disk'[t + BASE] \in since'[t]
      BY <2>2, <2>3, <3>1, TornFacts DEF LastWritten
    <3>. QED  BY <2>5, <3>2, <3>3 DEF LastWritten
  <2>7. CASE ~Noticed(lost)
    <3>1. tried = Buffer /\ torn = {} /\ lost = {} /\ since' = [s \in Sectors |-> {content[s]}]
      BY <2>1, <2>7, NoLoss DEF FlushOf
    <3>2. \A t \in Sectors : disk'[t + BASE] = content'[t]
      <4>. TAKE t \in Sectors
      <4>1. CASE \E j \in Buffer : Unsaved(j, t)
        BY <2>2, <2>3, <3>1, <4>1
      <4>2. CASE ~\E j \in Buffer : Unsaved(j, t)
        BY <2>2, <2>3, <3>1, <4>2 DEF LastWritten
      <4>. QED  BY <4>1, <4>2
    <3>3. \A t \in Sectors : content'[t] \in since'[t] /\ disk'[t + BASE] \in since'[t]
      BY <2>2, <3>1, <3>2
    <3>. QED  BY <2>5, <3>2, <3>3 DEF LastWritten
  <2>. QED  BY <2>6, <2>7
<1>7. CASE Crash
  <2>1. /\ \A j \in Buffer : ~buf'[j].dirty
        /\ \A s \in Sectors : content'[s] = disk'[s + BASE] /\ since'[s] = {disk'[s + BASE]}
    BY <1>7 DEF Crash, Empty, card
  <2>. QED  BY <2>1 DEF LastWritten
<1>8. CASE UNCHANGED vars
  BY <1>8 DEF LastWritten, vars, cache, card, history
<1>. QED  BY <1>2, <1>3, <1>4, <1>5, <1>6, <1>7, <1>8 DEF Next, Read

\* What is read into a buffer is what was written last, as it is on the card then.
LEMMA FreshStep ==
  ASSUME Apart, ReadsSucceed, TypeOK, OneEach, Fresh, LastWritten', [Next]_vars
  PROVE  Fresh'
<1>. USE DEF Holds
<1>1. ASSUME content' = content, \A j \in Buffer : Kept(j)  PROVE Fresh'
  BY <1>1 DEF Fresh, Kept
<1>2. ASSUME NEW s \in Sectors, Hit(s)  PROVE Fresh'
  BY <1>1, <1>2, HitFacts DEF Hit, history
<1>3. ASSUME NEW s \in Sectors, Miss(s)  PROVE Fresh'
  <2>. DEFINE i == Victim
  <2>1. PICK lost, unread, torn : MissOf(i, s, lost, unread, torn)
    BY <1>3, MissFacts
  <2>2. i \in Buffer /\ content' = content /\ Cached(s) = {} /\ unread \in Losses("read", {i})
    BY <1>3, <2>1, MissFacts DEF MissOf
  <2>. HIDE DEF i
  <2>3. unread = {} /\ ~Noticed(unread)
    <3>1. kind \in Kinds
      BY DEF TypeOK
    <3>. QED  BY <2>2, <3>1 DEF ReadsSucceed, Losses, Noticed
  <2>4. CASE buf[i].dirty /\ Noticed(lost)
    BY <1>1, <2>1, <2>2, <2>4 DEF MissOf
  <2>5. CASE ~(buf[i].dirty /\ Noticed(lost))
    <3>1. /\ ~buf'[i].dirty /\ \A j \in Buffer : j # i => Kept(j)
          /\ buf'[i].cur = s + BASE /\ buf'[i].data = disk'[s + BASE]
      BY <2>1, <2>3, <2>5 DEF MissOf
    <3>2. \A j \in Buffer : ~Unsaved(j, s)'
      BY <2>2, <3>1 DEF Cached, Kept, Unsaved
    <3>3. buf'[i].data = content'[s]
      BY <3>1, <3>2 DEF LastWritten
    <3>4. ASSUME NEW j \in Buffer, NEW t \in Sectors, Holds(j, t)'  PROVE buf'[j].data = content'[t]
      <4>1. CASE j = i
        BY <3>1, <3>3, <3>4, <4>1, Addresses
      <4>2. CASE j # i
        BY <2>2, <3>1, <3>4, <4>2 DEF Fresh, Kept
      <4>. QED  BY <4>1, <4>2
    <3>. QED  BY <3>4 DEF Fresh
  <2>. QED  BY <2>4, <2>5
<1>4. ASSUME NEW s \in Sectors, NEW v \in Values, Modify(s, v)  PROVE Fresh'
  <2>1. PICK m \in Buffer : /\ Holds(m, s)
                            /\ buf'[m].cur = buf[m].cur /\ buf'[m].dirty /\ buf'[m].data = v
                            /\ \A j \in Buffer : j # m => Kept(j)
    BY <1>4, ModifyFacts
  <2>2. \A t \in Sectors : content'[t] = IF t = s THEN v ELSE content[t]
    BY <1>4 DEF Modify, TypeOK
  <2>3. \A j \in Buffer : j # m => buf[j].cur # s + BASE
    BY <2>1, Addresses DEF OneEach
  <2>4. ASSUME NEW j \in Buffer, NEW t \in Sectors, Holds(j, t)'  PROVE buf'[j].data = content'[t]
    <3>1. CASE j = m
      BY <2>1, <2>2, <2>4, <3>1, Addresses
    <3>2. CASE j # m
      BY <2>1, <2>2, <2>3, <2>4, <3>2 DEF Kept, Fresh
    <3>. QED  BY <3>1, <3>2
  <2>. QED  BY <2>4 DEF Fresh
<1>5. ASSUME NEW s \in Sectors, NewCluster(s)  PROVE Fresh'
  <2>. DEFINE i == Victim
  <2>1. /\ content' = content /\ buf'[i].cur = s /\ \A j \in Buffer : j # i => Kept(j)
    BY <1>5, NewClusterFacts
  <2>. HIDE DEF i
  <2>2. \A t \in Sectors : s # t + BASE
    BY DEF Apart
  <2>. QED  BY <2>1, <2>2 DEF Fresh, Kept
<1>6. CASE Flush
  <2>1. content' = content /\ \A j \in Buffer : buf'[j].cur = buf[j].cur /\ buf'[j].data = buf[j].data
    BY <1>6, FlushFacts DEF FlushOf
  <2>. QED  BY <2>1 DEF Fresh
<1>7. CASE Crash
  <2>1. \A j \in Buffer : buf'[j].cur = NoSector
    BY <1>7 DEF Crash, Empty
  <2>2. \A t \in Sectors : NoSector # t + BASE
    BY Addresses
  <2>. QED  BY <2>1, <2>2 DEF Fresh
<1>8. CASE UNCHANGED vars
  BY <1>8 DEF Fresh, vars, cache, history
<1>. QED  BY <1>2, <1>3, <1>4, <1>5, <1>6, <1>7, <1>8 DEF Next, Read

\* At the start the card holds everything.
LEMMA InitFacts ==
  ASSUME Init
  PROVE  OneEach /\ LastWritten /\ Fresh
<1>1. /\ \A i \in Buffer : buf[i].cur = NoSector /\ ~buf[i].dirty
      /\ \A s \in Sectors : content[s] = disk[s + BASE] /\ since[s] = {disk[s + BASE]}
  BY DEF Init, Empty
<1>2. \A s \in Sectors : s # NoSector /\ s + BASE # NoSector
  BY Addresses
<1>. QED  BY <1>1, <1>2 DEF OneEach, LastWritten, Fresh, Unsaved, Holds

-----------------------------------------------------------------------------
(* The theorems *)

\* No sector is ever in two buffers.
THEOREM OneBufferHolds == Apart => (Spec => []OneBufferEach)
<1>. SUFFICES ASSUME Apart  PROVE Spec => []OneBufferEach
  OBVIOUS
<1>1. Init => OneEach
  BY InitFacts
<1>2. TypeOK /\ OneEach /\ [Next]_vars => OneEach'
  BY OneEachStep
<1>3. TypeOK /\ OneEach => OneBufferEach
  BY DEF OneEach, OneBufferEach
<1>. QED  BY <1>1, <1>2, <1>3, TypeInvariant, PTL DEF Spec

LEMMA LastWrittenInvariant == Apart /\ WritesNoticed => (Spec => [](TypeOK /\ OneEach /\ LastWritten))
<1>. SUFFICES ASSUME Apart, WritesNoticed  PROVE Spec => [](TypeOK /\ OneEach /\ LastWritten)
  OBVIOUS
<1>1. Init => OneEach /\ LastWritten
  BY InitFacts
<1>2. TypeOK /\ OneEach /\ LastWritten /\ [Next]_vars => (OneEach /\ LastWritten)'
  BY OneEachStep, LastWrittenStep
<1>. QED  BY <1>1, <1>2, TypeInvariant, PTL DEF Spec

\* If a write that fails is noticed, what was flushed survives a loss of power,
\* whatever reads fail.
THEOREM FlushedHolds == Apart /\ WritesNoticed => (Spec => []FlushedSurvives)
<1>. SUFFICES ASSUME Apart, WritesNoticed  PROVE Spec => []FlushedSurvives
  OBVIOUS
<1>1. TypeOK /\ OneEach /\ LastWritten => FlushedSurvives
  BY DEF TypeOK, LastWritten, FlushedSurvives
<1>2. Spec => [](TypeOK /\ OneEach /\ LastWritten)
  BY LastWrittenInvariant
<1>. QED  BY <1>1, <1>2, PTL

\* If the card also answers every read, a reader gets what was written last, whatever
\* is evicted and whatever write fails.
THEOREM ReadsHold == Apart /\ WritesNoticed /\ ReadsSucceed => (Spec => []ReadsBack)
<1>. SUFFICES ASSUME Apart, WritesNoticed, ReadsSucceed  PROVE Spec => []ReadsBack
  OBVIOUS
<1>1. Init => Fresh
  BY InitFacts
<1>2. TypeOK /\ OneEach /\ Fresh /\ LastWritten' /\ [Next]_vars => Fresh'
  BY FreshStep
<1>3. TypeOK /\ LastWritten /\ Fresh => ReadsBack
  <2>. SUFFICES ASSUME TypeOK, LastWritten, Fresh, NEW s \in owned  PROVE View(s) = content[s]
    BY DEF ReadsBack
  <2>1. s \in Sectors
    BY DEF TypeOK
  <2>2. CASE Cached(s) # {}
    BY <2>1, <2>2, CachedFacts DEF View, Fresh
  <2>3. CASE Cached(s) = {}
    BY <2>1, <2>3 DEF View, Cached, LastWritten, Unsaved
  <2>. QED  BY <2>2, <2>3
<1>4. Spec => [](TypeOK /\ OneEach /\ LastWritten)
  BY LastWrittenInvariant
<1>. QED  BY <1>1, <1>2, <1>3, <1>4, PTL DEF Spec

\* The two FATs are equal between two calls, whatever fails.
THEOREM MirrorsHold == Spec => []MirrorsAgree
<1>. DEFINE Mirrored == kind = "FAT" => disk = copy
<1>1. Init => Mirrored
  BY DEF Init
<1>2. TypeOK /\ Mirrored /\ [Next]_vars => Mirrored'
  <2>. SUFFICES ASSUME TypeOK, Mirrored, [Next]_vars  PROVE Mirrored'
    OBVIOUS
  <2>1. ASSUME NEW bufs, NEW lost, NEW torn, Stored(bufs, lost, torn), kind' = kind  PROVE Mirrored'
    BY <2>1 DEF Stored
  <2>2. ASSUME NEW s \in Sectors, Read(s)  PROVE Mirrored'
    <3>1. CASE Hit(s)
      BY <3>1 DEF Hit, card, history
    <3>2. CASE Miss(s)
      BY <2>1, <3>2, MissFacts DEF MissOf
    <3>. QED  BY <2>2, <3>1, <3>2 DEF Read
  <2>3. ASSUME NEW s \in Sectors, NEW v \in Values, Modify(s, v)  PROVE Mirrored'
    BY <2>3 DEF Modify, card
  <2>4. ASSUME NEW s \in Sectors, NewCluster(s)  PROVE Mirrored'
    BY <2>4 DEF NewCluster
  <2>5. CASE Flush
    BY <2>1, <2>5, FlushFacts DEF FlushOf
  <2>6. CASE Crash
    BY <2>6 DEF Crash, card
  <2>7. CASE UNCHANGED vars
    BY <2>7 DEF vars, card, history
  <2>. QED  BY <2>2, <2>3, <2>4, <2>5, <2>6, <2>7 DEF Next
<1>3. Mirrored => MirrorsAgree
  BY DEF MirrorsAgree
<1>. QED  BY <1>1, <1>2, <1>3, TypeInvariant, PTL DEF Spec
=============================================================================
