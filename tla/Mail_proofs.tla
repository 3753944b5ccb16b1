----------------------------- MODULE Mail_proofs -----------------------------
(***************************************************************************)
(* Proofs about Mail, for every number of senders, mails and successive      *)
(* owners: if no call overlaps another on the same mailbox, the linked list  *)
(* is never damaged, and it is the queue of MailQueue.                       *)
(***************************************************************************)
EXTENDS Mail, SequenceTheorems, FiniteSetTheorems, WellFoundedInduction, TLAPS

-----------------------------------------------------------------------------
(* The inductive invariant *)

\* One call at most is on its way, and it is on the open box.
OneCall ==
    /\ \A s \in Senders : send[s].at # "idle" =>
          /\ open /\ send[s].target = box /\ send[s].number <= Sends
          /\ read.at = "idle"
          /\ \A t \in Senders : t # s => send[t].at = "idle"
    /\ read.at # "idle" => open /\ read.target = box
    /\ open => box \in Box

\* So many mails of sent have left the list: those of got, but for the one that
\* ReadMail has copied and not yet unlinked.
Gone == IF read.at \in {"back", "skip"} THEN Len(got) - 1 ELSE Len(got)

\* The nodes of the list: the head, and a node for each mail that is not gone.
NodeAt(i) == IF i = Gone THEN HeadOf(box) ELSE sent[i]
LastNode == NodeAt(Len(sent))

\* Mails are read in the order they were sent, and none is sent twice.
History ==
    /\ Gone \in Nat /\ Gone <= Len(sent) /\ Len(got) <= Len(sent)
    /\ \A i \in 1 .. Len(got) : got[i] = sent[i]
    /\ \A i, j \in 1 .. Len(sent) : sent[i] = sent[j] => i = j
    /\ \A i \in 1 .. Len(sent) : sent[i].number < send[sent[i].src].number

\* The list is linked both ways as far as its mails are complete.
Linked ==
    /\ \A i \in Gone .. Len(sent) - 1 : next[NodeAt(i)] = sent[i + 1]
    /\ \A i \in Gone + 1 .. Len(sent) :
          /\ previous[sent[i]] = IF read.at = "skip" /\ i = Gone + 2 THEN HeadOf(box)
                                 ELSE NodeAt(i - 1)
          /\ message[sent[i]] = sent[i]

\* What SendMail has done so far at the end of the list.
Sent(s) ==
    LET at == send[s].at
    IN  /\ at \in {"back", "move", "end", "fill", "load", "store"} => next[LastNode] = Current(s)
        /\ at \in {"move", "end", "fill", "load", "store"} => previous[Current(s)] = LastNode
        /\ at \in {"end", "fill", "load", "store"} => tail[box] = Current(s)
        /\ at \in {"fill", "load", "store"} => next[Current(s)] = NULL
        /\ at \in {"load", "store"} => message[Current(s)] = Current(s)
        /\ at = "store" => send[s].load = length[box]
        /\ at # "idle" => length[box] < MAILBOX_SIZE

\* The end of the list while nobody is behind it, or only just there.
AtEnd ==
    /\ (\A s \in Senders : send[s].at \in {"idle", "link"}) => next[LastNode] = NULL
    /\ (\A s \in Senders : send[s].at \in {"idle", "link", "back", "move"}) =>
          tail[box] = IF read.at \in {"copy", "back", "skip"} /\ Len(sent) = Gone + 1
                      THEN HeadOf(box) ELSE LastNode
    /\ length[box] = IF read.at \in {"load", "store"} THEN Len(sent) - Gone + 1 ELSE Len(sent) - Gone

\* What ReadMail has in its hands.
Received ==
    /\ read.at \in {"first", "compare", "reset", "copy", "back", "skip"} => Len(sent) > Gone
    /\ read.at \in {"compare", "reset", "copy", "back", "skip"} => read.temp = sent[Gone + 1]
    /\ read.at = "reset" => Len(sent) = Gone + 1
    /\ read.at = "store" => read.load = length[box]

ListInv == History /\ Linked /\ (\A s \in Senders : Sent(s)) /\ AtEnd /\ Received

IInv ==
    /\ TypeOK /\ ~wild /\ OneCall
    /\ open => ListInv

-----------------------------------------------------------------------------
(* The nodes *)

\* Heads, mails and bad pointers are told apart.
LEMMA NodeKinds ==
  /\ \A m \in Mails : m \in Node /\ m.src \in Senders /\ m.number \in 1 .. Sends
  /\ \A b \in Box : HeadOf(b) \in Node /\ HeadOf(b) \notin Mails
  /\ NULL \notin Node /\ Junk \notin Node /\ NULL # Junk
<1>1. /\ \A m \in Mails : m.src \in Senders /\ m.number \in 1 .. Sends
      /\ \A b : HeadOf(b).src = "head"
      /\ NULL.src = "nobody" /\ Junk.src = "nobody" /\ NULL.number = 0 /\ Junk.number = 1
  BY DEF Mails, HeadOf, NULL, Junk
<1>2. "head" \notin Senders /\ "nobody" \notin Senders
  BY ConstantsAssumption
<1>3. \A m \in Node : m \in Mails \/ m.src = "head"
  BY <1>1 DEF Node
<1>. HIDE DEF Mails, HeadOf, NULL, Junk
<1>4. \A m \in Mails : m \in Node
  BY DEF Node
<1>5. \A b \in Box : HeadOf(b) \in Node /\ HeadOf(b) \notin Mails
  BY <1>1, <1>2 DEF Node
<1>6. NULL \notin Node /\ Junk \notin Node
  BY <1>1, <1>2, <1>3
<1>7. NULL # Junk
  BY <1>1
<1>. QED  BY <1>1, <1>4, <1>5, <1>6, <1>7

\* The nodes of the open box are nodes, and different ones.
LEMMA ListNodes ==
  ASSUME IInv, open
  PROVE  /\ box \in Box /\ HeadOf(box) \in Node
         /\ Gone \in Nat /\ Len(sent) \in Nat /\ Len(got) \in Nat /\ Gone <= Len(sent)
         /\ \A i \in 1 .. Len(sent) : sent[i] \in Mails /\ sent[i] \in Node /\ sent[i] # HeadOf(box)
         /\ \A i \in Gone .. Len(sent) : NodeAt(i) \in Node
         /\ \A i, j \in Gone .. Len(sent) : NodeAt(i) = NodeAt(j) => i = j
         /\ LastNode \in Node
<1>1. box \in Box /\ HeadOf(box) \in Node /\ HeadOf(box) \notin Mails
  BY NodeKinds DEF IInv, OneCall
<1>2. /\ Gone \in Nat /\ Len(sent) \in Nat /\ Len(got) \in Nat /\ Gone <= Len(sent)
      /\ \A i, j \in 1 .. Len(sent) : sent[i] = sent[j] => i = j
  BY LenProperties DEF IInv, ListInv, History, TypeOK
<1>3. \A i \in 1 .. Len(sent) : sent[i] \in Mails
  BY ElementOfSeq DEF IInv, TypeOK
<1>4. \A i \in Gone .. Len(sent) : i = Gone \/ i \in 1 .. Len(sent)
  BY <1>2
<1>5. \A i \in Gone .. Len(sent) : NodeAt(i) \in Node
  BY <1>1, <1>3, <1>4, NodeKinds DEF NodeAt
<1>6. \A i, j \in Gone .. Len(sent) : NodeAt(i) = NodeAt(j) => i = j
  BY <1>1, <1>2, <1>3, <1>4 DEF NodeAt
<1>7. LastNode \in Node
  BY <1>2, <1>5 DEF LastNode
<1>. QED  BY <1>1, <1>2, <1>3, <1>5, <1>6, <1>7, NodeKinds

\* The mail that is being sent is a new one.
LEMMA CurrentNew ==
  ASSUME IInv, NEW s \in Senders, send[s].at # "idle"
  PROVE  /\ open /\ send[s].target = box /\ read.at = "idle" /\ Gone = Len(got)
         /\ \A t \in Senders : t # s => send[t].at = "idle"
         /\ Current(s) \in Mails /\ Current(s) \in Node /\ Current(s) # HeadOf(box)
         /\ \A i \in 1 .. Len(sent) : sent[i] # Current(s)
         /\ \A i \in Gone .. Len(sent) : NodeAt(i) # Current(s)
         /\ LastNode # Current(s)
<1>1. /\ open /\ send[s].target = box /\ read.at = "idle" /\ send[s].number <= Sends
      /\ \A t \in Senders : t # s => send[t].at = "idle"
  BY DEF IInv, OneCall
<1>2. Current(s) \in Mails
  <2>1. send[s].number \in 1 .. Sends + 1
    BY DEF IInv, TypeOK, SendState
  <2>2. send[s].number \in 1 .. Sends
    BY <1>1, <2>1, ConstantsAssumption
  <2>. QED  BY <2>2 DEF Current, Mails
<1>3. Current(s) \in Node /\ Current(s) # HeadOf(box)
  BY <1>1, <1>2, NodeKinds, ListNodes
<1>4. \A i \in 1 .. Len(sent) : sent[i] # Current(s)
  <2>. TAKE i \in 1 .. Len(sent)
  <2>1. sent[i].number < send[sent[i].src].number
    BY <1>1 DEF IInv, ListInv, History
  <2>2. Current(s).src = s /\ Current(s).number = send[s].number
    BY DEF Current
  <2>3. send[s].number \in Int
    BY DEF IInv, TypeOK, SendState
  <2>4. ~(send[s].number < send[s].number)
    BY <2>3
  <2>. QED  BY <2>1, <2>2, <2>4
<1>5. \A i \in Gone .. Len(sent) : NodeAt(i) # Current(s)
  <2>1. \A i \in Gone .. Len(sent) : i = Gone \/ i \in 1 .. Len(sent)
    BY <1>1, ListNodes
  <2>. QED  BY <1>3, <1>4, <2>1 DEF NodeAt
<1>6. LastNode # Current(s)
  BY <1>1, <1>5, ListNodes DEF LastNode
<1>. QED  BY <1>1, <1>2, <1>3, <1>4, <1>5, <1>6 DEF Gone

\* What moving on changes of a caller.
LEMMA GotoFacts ==
  ASSUME TypeOK, NEW s \in Senders,
         NEW there \in {"idle", "link", "back", "move", "end", "fill", "load", "store"}, Goto(s, there)
  PROVE  /\ send' \in [Senders -> SendState]
         /\ send'[s].at = there /\ send'[s].target = send[s].target
         /\ send'[s].load = send[s].load /\ send'[s].number = send[s].number
         /\ \A t \in Senders : t # s => send'[t] = send[t]
         /\ Current(s)' = Current(s)
<1>1. send[s] \in SendState /\ send \in [Senders -> SendState]
  BY DEF TypeOK
<1>2. send' = [send EXCEPT ![s].at = there]
  BY DEF Goto
<1>3. /\ send' \in [Senders -> SendState]
      /\ send'[s].at = there /\ send'[s].target = send[s].target
      /\ send'[s].load = send[s].load /\ send'[s].number = send[s].number
  BY <1>1, <1>2 DEF SendState
<1>4. \A t \in Senders : t # s => send'[t] = send[t]
  BY <1>1, <1>2
<1>. QED  BY <1>3, <1>4 DEF Current

-----------------------------------------------------------------------------
(* The steps of SendMail *)

\* A sender that moves on inside its call leaves the others and the history alone.
LEMMA SenderMoves ==
  ASSUME IInv, NEW s \in Senders, send[s].at # "idle",
         UNCHANGED <<box, open, read, got, sent>>,
         send' \in [Senders -> SendState], send'[s].at # "idle",
         send'[s].target = send[s].target, send'[s].number = send[s].number,
         \A t \in Senders : t # s => send'[t] = send[t]
  PROVE  /\ OneCall' /\ History' /\ Received' /\ Gone' = Gone /\ LastNode' = LastNode
         /\ \A i \in Gone .. Len(sent) : NodeAt(i)' = NodeAt(i)
         /\ \A t \in Senders : t # s => Sent(t)' /\ send'[t].at = "idle"
<1>1. /\ open /\ send[s].target = box /\ read.at = "idle" /\ Gone = Len(got)
      /\ \A t \in Senders : t # s => send[t].at = "idle"
  BY CurrentNew
<1>2. OneCall'
  BY <1>1 DEF IInv, OneCall
<1>3. Gone' = Gone
  BY DEF Gone
<1>4. \A i : NodeAt(i)' = NodeAt(i)
  BY <1>3 DEF NodeAt
<1>5. LastNode' = LastNode
  BY <1>4 DEF LastNode, NodeAt, Gone
<1>6. History'
  <2>1. \A t \in Senders : send'[t].number = send[t].number
    OBVIOUS
  <2>2. \A i \in 1 .. Len(sent) : sent[i].src \in Senders
    BY <1>1, ListNodes, NodeKinds
  <2>. QED  BY <1>1, <1>3, <2>1, <2>2 DEF IInv, ListInv, History
<1>7. Received'
  BY <1>1 DEF Received
<1>8. \A t \in Senders : t # s => Sent(t)' /\ send'[t].at = "idle"
  BY <1>1 DEF Sent
<1>. QED  BY <1>2, <1>3, <1>4, <1>5, <1>6, <1>7, <1>8

\* Where a link may lead.
Link == Node \cup {NULL, Junk}

\* A new node is linked behind the last one: only its owner's link changes.
LEMMA SendLinkStep ==
  ASSUME IInv, NEW s \in Senders, SendLink(s)
  PROVE  IInv'
<1>1. /\ send[s].at = "link" /\ ~wild /\ UNCHANGED <<sent, box, open, read, got>>
      /\ Goto(s, "back")
  BY DEF SendLink, At, OthersOfSend
<1>2. /\ open /\ send[s].target = box /\ read.at = "idle" /\ Current(s) \in Node
      /\ LastNode # Current(s)
      /\ \A t \in Senders : t # s => send[t].at = "idle"
      /\ \A i \in Gone .. Len(sent) : NodeAt(i) # Current(s)
  BY <1>1, CurrentNew
<1>3. /\ TypeOK /\ ListInv /\ tail[box] = LastNode
  <2>1. \A t \in Senders : send[t].at \in {"idle", "link"}
    BY <1>1, <1>2
  <2>2. read.at \notin {"copy", "back", "skip"}
    BY <1>2
  <2>. QED  BY <1>2, <2>1, <2>2 DEF IInv, ListInv, AtEnd
<1>4. /\ send' \in [Senders -> SendState] /\ send'[s].at = "back"
      /\ send'[s].target = send[s].target /\ send'[s].load = send[s].load
      /\ send'[s].number = send[s].number
      /\ \A t \in Senders : t # s => send'[t] = send[t]
      /\ Current(s)' = Current(s)
  BY <1>1, <1>3, GotoFacts
<1>5. /\ OneCall' /\ History' /\ Received' /\ Gone' = Gone /\ LastNode' = LastNode
      /\ \A i \in Gone .. Len(sent) : NodeAt(i)' = NodeAt(i)
      /\ \A t \in Senders : t # s => Sent(t)' /\ send'[t].at = "idle"
  BY <1>1, <1>4, SenderMoves
<1>6. /\ LastNode \in Node /\ Gone \in Nat /\ Len(sent) \in Nat /\ Gone <= Len(sent)
      /\ \A i, j \in Gone .. Len(sent) : NodeAt(i) = NodeAt(j) => i = j
      /\ \A i \in Gone .. Len(sent) : NodeAt(i) \in Node
  BY <1>2, ListNodes
<1>7. /\ next' = [next EXCEPT ![LastNode] = Current(s)]
      /\ UNCHANGED <<previous, message, tail, length, wild>>
  BY <1>2, <1>3, <1>6 DEF SendLink, Follow, End
<1>8. \A x \in Node : next'[x] = IF x = LastNode THEN Current(s) ELSE next[x]
  BY <1>3, <1>6, <1>7 DEF TypeOK
<1>9. TypeOK'
  <2>1. next' \in [Node -> Link]
    BY <1>2, <1>3, <1>7 DEF TypeOK, Link
  <2>. QED  BY <1>1, <1>3, <1>4, <1>7, <2>1 DEF TypeOK, Link
<1>10. Linked'
  <2>1. \A i \in Gone .. Len(sent) - 1 : NodeAt(i) # LastNode
    BY <1>6 DEF LastNode
  <2>2. \A i \in Gone .. Len(sent) - 1 : next'[NodeAt(i)] = sent[i + 1]
    BY <1>3, <1>6, <1>8, <2>1 DEF ListInv, Linked
  <2>3. \A i \in Gone + 1 .. Len(sent) : NodeAt(i - 1)' = NodeAt(i - 1)
    BY <1>5, <1>6
  <2>. QED  BY <1>1, <1>2, <1>3, <1>5, <1>6, <1>7, <2>2, <2>3 DEF ListInv, Linked
<1>11. Sent(s)'
  BY <1>1, <1>3, <1>4, <1>5, <1>6, <1>7, <1>8, <1>2 DEF ListInv, Sent
<1>12. AtEnd'
  BY <1>1, <1>2, <1>3, <1>4, <1>5, <1>7 DEF ListInv, AtEnd
<1>. QED  BY <1>1, <1>5, <1>7, <1>9, <1>10, <1>11, <1>12 DEF IInv, ListInv

\* The new node is linked back; it is in nobody's list yet.
LEMMA SendBackStep ==
  ASSUME IInv, NEW s \in Senders, SendBack(s)
  PROVE  IInv'
<1>1. /\ send[s].at = "back" /\ ~wild /\ UNCHANGED <<sent, box, open, read, got>>
      /\ Goto(s, "move")
  BY DEF SendBack, At, OthersOfSend
<1>2. /\ open /\ send[s].target = box /\ read.at = "idle" /\ Current(s) \in Node
      /\ \A t \in Senders : t # s => send[t].at = "idle"
      /\ \A i \in 1 .. Len(sent) : sent[i] # Current(s)
  BY <1>1, CurrentNew
<1>3. /\ TypeOK /\ ListInv /\ tail[box] = LastNode /\ next[LastNode] = Current(s)
  <2>1. \A t \in Senders : send[t].at \in {"idle", "link", "back", "move"}
    BY <1>1, <1>2
  <2>2. read.at \notin {"copy", "back", "skip"}
    BY <1>2
  <2>. QED  BY <1>1, <1>2, <2>1, <2>2 DEF IInv, ListInv, AtEnd, Sent
<1>4. /\ send' \in [Senders -> SendState] /\ send'[s].at = "move"
      /\ send'[s].target = send[s].target /\ send'[s].load = send[s].load
      /\ send'[s].number = send[s].number
      /\ \A t \in Senders : t # s => send'[t] = send[t]
      /\ Current(s)' = Current(s)
  BY <1>1, <1>3, GotoFacts
<1>5. /\ OneCall' /\ History' /\ Received' /\ Gone' = Gone /\ LastNode' = LastNode
      /\ \A i \in Gone .. Len(sent) : NodeAt(i)' = NodeAt(i)
      /\ \A t \in Senders : t # s => Sent(t)' /\ send'[t].at = "idle"
  BY <1>1, <1>4, SenderMoves
<1>6. LastNode \in Node /\ Gone \in Nat /\ Len(sent) \in Nat /\ Gone <= Len(sent)
  BY <1>2, ListNodes
<1>7. /\ previous' = [previous EXCEPT ![Current(s)] = LastNode]
      /\ UNCHANGED <<next, message, tail, length, wild>>
  BY <1>2, <1>3 DEF SendBack, Follow, End
<1>8. \A x \in Node : previous'[x] = IF x = Current(s) THEN LastNode ELSE previous[x]
  BY <1>2, <1>3, <1>7 DEF TypeOK
<1>9. TypeOK'
  <2>1. previous' \in [Node -> Link]
    BY <1>2, <1>3, <1>6, <1>7 DEF TypeOK, Link
  <2>. QED  BY <1>1, <1>3, <1>4, <1>7, <2>1 DEF TypeOK, Link
<1>10. Linked'
  <2>1. \A i \in Gone + 1 .. Len(sent) : sent[i] # Current(s) /\ sent[i] \in Node
    BY <1>2, <1>6, ListNodes
  <2>2. \A i \in Gone + 1 .. Len(sent) : NodeAt(i - 1)' = NodeAt(i - 1)
    BY <1>5, <1>6
  <2>3. \A i \in Gone .. Len(sent) - 1 : NodeAt(i)' = NodeAt(i)
    BY <1>5, <1>6
  <2>. QED  BY <1>1, <1>2, <1>3, <1>5, <1>6, <1>7, <1>8, <2>1, <2>2, <2>3 DEF ListInv, Linked
<1>11. Sent(s)'
  BY <1>1, <1>3, <1>4, <1>5, <1>6, <1>7, <1>8, <1>2 DEF ListInv, Sent
<1>12. AtEnd'
  BY <1>1, <1>2, <1>3, <1>4, <1>5, <1>7 DEF ListInv, AtEnd
<1>. QED  BY <1>1, <1>5, <1>7, <1>9, <1>10, <1>11, <1>12 DEF IInv, ListInv

\* The tail moves to the new node.
LEMMA SendMoveStep ==
  ASSUME IInv, NEW s \in Senders, SendMove(s)
  PROVE  IInv'
<1>1. /\ send[s].at = "move" /\ ~wild /\ UNCHANGED <<sent, box, open, read, got>>
      /\ Goto(s, "end")
  BY DEF SendMove, At, OthersOfSend
<1>2. /\ open /\ send[s].target = box /\ read.at = "idle" /\ Current(s) \in Node /\ box \in Box
      /\ \A t \in Senders : t # s => send[t].at = "idle"
  BY <1>1, CurrentNew, ListNodes
<1>3. /\ TypeOK /\ ListInv /\ tail[box] = LastNode /\ next[LastNode] = Current(s)
  <2>1. \A t \in Senders : send[t].at \in {"idle", "link", "back", "move"}
    BY <1>1, <1>2
  <2>2. read.at \notin {"copy", "back", "skip"}
    BY <1>2
  <2>. QED  BY <1>1, <1>2, <2>1, <2>2 DEF IInv, ListInv, AtEnd, Sent
<1>4. /\ send' \in [Senders -> SendState] /\ send'[s].at = "end"
      /\ send'[s].target = send[s].target /\ send'[s].load = send[s].load
      /\ send'[s].number = send[s].number
      /\ \A t \in Senders : t # s => send'[t] = send[t]
      /\ Current(s)' = Current(s)
  BY <1>1, <1>3, GotoFacts
<1>5. /\ OneCall' /\ History' /\ Received' /\ Gone' = Gone /\ LastNode' = LastNode
      /\ \A i \in Gone .. Len(sent) : NodeAt(i)' = NodeAt(i)
      /\ \A t \in Senders : t # s => Sent(t)' /\ send'[t].at = "idle"
  BY <1>1, <1>4, SenderMoves
<1>6. LastNode \in Node /\ Gone \in Nat /\ Len(sent) \in Nat /\ Gone <= Len(sent)
  BY <1>2, ListNodes
<1>7. /\ tail' = [tail EXCEPT ![box] = Current(s)]
      /\ UNCHANGED <<next, previous, message, length, wild>>
  BY <1>2, <1>3 DEF SendMove, Follow, End
<1>8. tail' \in [Box -> Node] /\ tail'[box] = Current(s)
  BY <1>2, <1>3, <1>7 DEF TypeOK
<1>9. TypeOK'
  BY <1>1, <1>3, <1>4, <1>7, <1>8 DEF TypeOK
<1>10. Linked'
  <2>2. \A i \in Gone + 1 .. Len(sent) : NodeAt(i - 1)' = NodeAt(i - 1)
    BY <1>5, <1>6
  <2>3. \A i \in Gone .. Len(sent) - 1 : NodeAt(i)' = NodeAt(i)
    BY <1>5, <1>6
  <2>. QED  BY <1>1, <1>2, <1>3, <1>5, <1>6, <1>7, <2>2, <2>3 DEF ListInv, Linked
<1>11. Sent(s)'
  BY <1>1, <1>3, <1>4, <1>5, <1>6, <1>7, <1>8, <1>2 DEF ListInv, Sent
<1>12. AtEnd'
  BY <1>1, <1>2, <1>3, <1>4, <1>5, <1>7 DEF ListInv, AtEnd
<1>. QED  BY <1>1, <1>5, <1>7, <1>9, <1>10, <1>11, <1>12 DEF IInv, ListInv

\* The list ends at the new node again.
LEMMA SendEndStep ==
  ASSUME IInv, NEW s \in Senders, SendEnd(s)
  PROVE  IInv'
<1>1. /\ send[s].at = "end" /\ ~wild /\ UNCHANGED <<sent, box, open, read, got>>
      /\ Goto(s, "fill") /\ next' = [next EXCEPT ![End(s)] = NULL]
      /\ UNCHANGED <<previous, message, tail, length, wild>>
  BY DEF SendEnd, At, OthersOfSend
<1>2. /\ open /\ send[s].target = box /\ read.at = "idle" /\ Current(s) \in Node
      /\ LastNode # Current(s)
      /\ \A t \in Senders : t # s => send[t].at = "idle"
      /\ \A i \in Gone .. Len(sent) : NodeAt(i) # Current(s)
  BY <1>1, CurrentNew
<1>3. /\ TypeOK /\ ListInv /\ tail[box] = Current(s)
  BY <1>1, <1>2 DEF IInv, ListInv, Sent
<1>4. /\ send' \in [Senders -> SendState] /\ send'[s].at = "fill"
      /\ send'[s].target = send[s].target /\ send'[s].load = send[s].load
      /\ send'[s].number = send[s].number
      /\ \A t \in Senders : t # s => send'[t] = send[t]
      /\ Current(s)' = Current(s)
  BY <1>1, <1>3, GotoFacts
<1>5. /\ OneCall' /\ History' /\ Received' /\ Gone' = Gone /\ LastNode' = LastNode
      /\ \A i \in Gone .. Len(sent) : NodeAt(i)' = NodeAt(i)
      /\ \A t \in Senders : t # s => Sent(t)' /\ send'[t].at = "idle"
  BY <1>1, <1>4, SenderMoves
<1>6. /\ LastNode \in Node /\ Gone \in Nat /\ Len(sent) \in Nat /\ Gone <= Len(sent)
      /\ \A i \in Gone .. Len(sent) : NodeAt(i) \in Node
  BY <1>2, ListNodes
<1>7. /\ next' = [next EXCEPT ![Current(s)] = NULL]
      /\ \A x \in Node : next'[x] = IF x = Current(s) THEN NULL ELSE next[x]
  BY <1>1, <1>2, <1>3 DEF End, TypeOK
<1>9. TypeOK'
  <2>1. next' \in [Node -> Link]
    BY <1>2, <1>3, <1>7 DEF TypeOK, Link
  <2>. QED  BY <1>1, <1>3, <1>4, <1>7, <2>1 DEF TypeOK, Link
<1>10. Linked'
  <2>1. \A i \in Gone .. Len(sent) - 1 : NodeAt(i)' = NodeAt(i) /\ next'[NodeAt(i)] = next[NodeAt(i)]
    BY <1>2, <1>5, <1>6, <1>7
  <2>2. \A i \in Gone + 1 .. Len(sent) : NodeAt(i - 1)' = NodeAt(i - 1)
    BY <1>5, <1>6
  <2>. QED  BY <1>1, <1>2, <1>3, <1>5, <1>6, <2>1, <2>2 DEF ListInv, Linked
<1>11. Sent(s)'
  BY <1>1, <1>3, <1>4, <1>5, <1>6, <1>7, <1>2 DEF ListInv, Sent
<1>12. AtEnd'
  BY <1>1, <1>2, <1>3, <1>4, <1>5 DEF ListInv, AtEnd
<1>. QED  BY <1>1, <1>5, <1>9, <1>10, <1>11, <1>12 DEF IInv, ListInv

\* The mail is written to a node that no mail of the list has.
LEMMA SendFillStep ==
  ASSUME IInv, NEW s \in Senders, SendFill(s)
  PROVE  IInv'
<1>1. /\ send[s].at = "fill" /\ ~wild /\ UNCHANGED <<sent, box, open, read, got>>
      /\ Goto(s, "load") /\ message' = [message EXCEPT ![End(s)] = Current(s)]
      /\ UNCHANGED <<next, previous, tail, length, wild>>
  BY DEF SendFill, At, OthersOfSend
<1>2. /\ open /\ send[s].target = box /\ read.at = "idle" /\ Current(s) \in Mails
      /\ Current(s) \in Node
      /\ \A t \in Senders : t # s => send[t].at = "idle"
      /\ \A i \in 1 .. Len(sent) : sent[i] # Current(s)
  BY <1>1, CurrentNew
<1>3. /\ TypeOK /\ ListInv /\ tail[box] = Current(s)
  BY <1>1, <1>2 DEF IInv, ListInv, Sent
<1>4. /\ send' \in [Senders -> SendState] /\ send'[s].at = "load"
      /\ send'[s].target = send[s].target /\ send'[s].load = send[s].load
      /\ send'[s].number = send[s].number
      /\ \A t \in Senders : t # s => send'[t] = send[t]
      /\ Current(s)' = Current(s)
  BY <1>1, <1>3, GotoFacts
<1>5. /\ OneCall' /\ History' /\ Received' /\ Gone' = Gone /\ LastNode' = LastNode
      /\ \A i \in Gone .. Len(sent) : NodeAt(i)' = NodeAt(i)
      /\ \A t \in Senders : t # s => Sent(t)' /\ send'[t].at = "idle"
  BY <1>1, <1>4, SenderMoves
<1>6. LastNode \in Node /\ Gone \in Nat /\ Len(sent) \in Nat /\ Gone <= Len(sent)
  BY <1>2, ListNodes
<1>7. /\ message' = [message EXCEPT ![Current(s)] = Current(s)]
      /\ \A x \in Node : message'[x] = IF x = Current(s) THEN Current(s) ELSE message[x]
  BY <1>1, <1>2, <1>3 DEF End, TypeOK
<1>9. TypeOK'
  <2>1. message' \in [Node -> Mails \cup {NoMail}]
    BY <1>2, <1>3, <1>7 DEF TypeOK
  <2>. QED  BY <1>1, <1>3, <1>4, <2>1 DEF TypeOK
<1>10. Linked'
  <2>1. \A i \in Gone + 1 .. Len(sent) : message'[sent[i]] = message[sent[i]]
    BY <1>2, <1>6, <1>7, ListNodes
  <2>2. \A i \in Gone + 1 .. Len(sent) : NodeAt(i - 1)' = NodeAt(i - 1)
    BY <1>5, <1>6
  <2>3. \A i \in Gone .. Len(sent) - 1 : NodeAt(i)' = NodeAt(i)
    BY <1>5, <1>6
  <2>. QED  BY <1>1, <1>2, <1>3, <1>5, <1>6, <2>1, <2>2, <2>3 DEF ListInv, Linked
<1>11. Sent(s)'
  BY <1>1, <1>3, <1>4, <1>5, <1>6, <1>7, <1>2 DEF ListInv, Sent
<1>12. AtEnd'
  BY <1>1, <1>2, <1>3, <1>4, <1>5 DEF ListInv, AtEnd
<1>. QED  BY <1>1, <1>5, <1>9, <1>10, <1>11, <1>12 DEF IInv, ListInv

\* The length that SendMail loads is the one it will find when it stores.
LEMMA SendLoadStep ==
  ASSUME IInv, NEW s \in Senders, SendLoad(s)
  PROVE  IInv'
<1>1. /\ send[s].at = "load" /\ ~wild /\ UNCHANGED <<sent, box, open, read, got>>
      /\ send' = [send EXCEPT ![s].at = "store", ![s].load = length[send[s].target]]
      /\ UNCHANGED <<next, previous, message, tail, length, wild>>
  BY DEF SendLoad, At, OthersOfSend, list
<1>2. /\ open /\ send[s].target = box /\ read.at = "idle" /\ box \in Box
      /\ \A t \in Senders : t # s => send[t].at = "idle"
  BY <1>1, CurrentNew, ListNodes
<1>3. /\ TypeOK /\ ListInv /\ length[box] \in Int /\ send[s] \in SendState
  BY <1>1, <1>2, ConstantsAssumption DEF IInv, TypeOK
<1>4. /\ send' \in [Senders -> SendState] /\ send'[s].at = "store"
      /\ send'[s].target = send[s].target /\ send'[s].load = length[box]
      /\ send'[s].number = send[s].number
      /\ \A t \in Senders : t # s => send'[t] = send[t]
      /\ Current(s)' = Current(s)
  <2>1. /\ send' \in [Senders -> SendState] /\ send'[s].at = "store"
        /\ send'[s].target = send[s].target /\ send'[s].load = length[box]
        /\ send'[s].number = send[s].number
    BY <1>1, <1>2, <1>3 DEF SendState, TypeOK
  <2>2. \A t \in Senders : t # s => send'[t] = send[t]
    BY <1>1, <1>3 DEF TypeOK
  <2>. QED  BY <2>1, <2>2 DEF Current
<1>5. /\ OneCall' /\ History' /\ Received' /\ Gone' = Gone /\ LastNode' = LastNode
      /\ \A i \in Gone .. Len(sent) : NodeAt(i)' = NodeAt(i)
      /\ \A t \in Senders : t # s => Sent(t)' /\ send'[t].at = "idle"
  BY <1>1, <1>4, SenderMoves
<1>6. Gone \in Nat /\ Len(sent) \in Nat /\ Gone <= Len(sent)
  BY <1>2, ListNodes
<1>9. TypeOK'
  BY <1>1, <1>3, <1>4 DEF TypeOK
<1>10. Linked'
  <2>2. \A i \in Gone + 1 .. Len(sent) : NodeAt(i - 1)' = NodeAt(i - 1)
    BY <1>5, <1>6
  <2>3. \A i \in Gone .. Len(sent) - 1 : NodeAt(i)' = NodeAt(i)
    BY <1>5, <1>6
  <2>. QED  BY <1>1, <1>2, <1>3, <1>5, <1>6, <2>2, <2>3 DEF ListInv, Linked
<1>11. Sent(s)'
  BY <1>1, <1>3, <1>4, <1>5, <1>6, <1>2 DEF ListInv, Sent
<1>12. AtEnd'
  BY <1>1, <1>2, <1>3, <1>4, <1>5 DEF ListInv, AtEnd
<1>. QED  BY <1>1, <1>5, <1>9, <1>10, <1>11, <1>12 DEF IInv, ListInv

\* The mail in the list becomes a sent one.
LEMMA SendStoreStep ==
  ASSUME IInv, NEW s \in Senders, SendStore(s)
  PROVE  IInv'
<1>1. /\ send[s].at = "store" /\ ~wild
      /\ length' = [length EXCEPT ![send[s].target] = send[s].load + 1]
      /\ sent' = IF open /\ send[s].target = box THEN Append(sent, Current(s)) ELSE sent
      /\ send' = [send EXCEPT ![s].at = "idle", ![s].number = @ + 1]
      /\ UNCHANGED <<next, previous, message, tail, wild, box, open, read, got>>
  BY DEF SendStore, At, OthersOfSend
<1>2. /\ open /\ send[s].target = box /\ read.at = "idle" /\ Gone = Len(got)
      /\ \A t \in Senders : t # s => send[t].at = "idle"
      /\ Current(s) \in Mails /\ Current(s) \in Node /\ Current(s) # HeadOf(box)
      /\ \A i \in 1 .. Len(sent) : sent[i] # Current(s)
      /\ LastNode # Current(s) /\ box \in Box
  BY <1>1, CurrentNew, ListNodes
<1>3. /\ TypeOK /\ ListInv /\ send[s] \in SendState /\ send[s].number <= Sends
      /\ next[LastNode] = Current(s) /\ previous[Current(s)] = LastNode
      /\ tail[box] = Current(s) /\ next[Current(s)] = NULL
      /\ message[Current(s)] = Current(s) /\ send[s].load = length[box]
      /\ length[box] < MAILBOX_SIZE
  BY <1>1, <1>2 DEF IInv, OneCall, ListInv, Sent, TypeOK
<1>4. /\ Gone \in Nat /\ Len(sent) \in Nat /\ Len(got) \in Nat /\ Gone <= Len(sent)
      /\ \A i \in 1 .. Len(sent) : sent[i] \in Mails
  BY <1>2, ListNodes
<1>n. PICK n \in Nat : n = Len(sent)
  BY <1>4
<1>5. /\ sent' \in Seq(Mails) /\ Len(sent') = n + 1 /\ sent'[n + 1] = Current(s)
      /\ \A i \in 1 .. n : sent'[i] = sent[i]
  <2>1. sent' = Append(sent, Current(s)) /\ sent \in Seq(Mails)
    BY <1>1, <1>2, <1>3 DEF TypeOK
  <2>. QED  BY <1>2, <1>n, <2>1, AppendProperties
<1>6. length[box] \in 0 .. MAILBOX_SIZE /\ MAILBOX_SIZE \in Nat
  BY <1>2, <1>3, ConstantsAssumption DEF TypeOK
<1>7. length' \in [Box -> 0 .. MAILBOX_SIZE] /\ length'[box] = length[box] + 1
  <2>1. length[box] + 1 \in 0 .. MAILBOX_SIZE
    BY <1>3, <1>6
  <2>2. length' = [length EXCEPT ![box] = length[box] + 1]
    BY <1>1, <1>2, <1>3
  <2>. QED  BY <1>2, <1>3, <2>1, <2>2 DEF TypeOK
<1>8. /\ send' \in [Senders -> SendState] /\ send'[s].at = "idle"
      /\ send'[s].number = send[s].number + 1
      /\ \A t \in Senders : t # s => send'[t] = send[t]
  <2>1. send[s].number + 1 \in 1 .. Sends + 1
    BY <1>3, ConstantsAssumption DEF SendState
  <2>2. /\ send' \in [Senders -> SendState] /\ send'[s].at = "idle"
        /\ send'[s].number = send[s].number + 1
    BY <1>1, <1>3, <2>1 DEF SendState, TypeOK
  <2>3. \A t \in Senders : t # s => send'[t] = send[t]
    BY <1>1, <1>3 DEF TypeOK
  <2>. QED  BY <2>2, <2>3
<1>9. \A t \in Senders : send'[t].at = "idle"
  BY <1>2, <1>8
<1>10. TypeOK'
  BY <1>1, <1>3, <1>5, <1>7, <1>8 DEF TypeOK
<1>11. OneCall'
  BY <1>1, <1>2, <1>9 DEF OneCall
<1>12. /\ Gone' = Gone /\ LastNode' = Current(s) /\ NodeAt(n + 1)' = Current(s)
       /\ \A i \in Gone .. n : NodeAt(i)' = NodeAt(i)
  <2>1. Gone' = Gone
    BY <1>1 DEF Gone
  <2>2. NodeAt(n + 1)' = Current(s)
    BY <1>4, <1>n, <1>5, <2>1 DEF NodeAt
  <2>3. LastNode' = Current(s)
    BY <1>4, <1>n, <1>5, <2>1 DEF LastNode, NodeAt
  <2>4. \A i \in Gone .. n : NodeAt(i)' = NodeAt(i)
    BY <1>1, <1>4, <1>n, <1>5, <2>1 DEF NodeAt
  <2>. QED  BY <2>1, <2>2, <2>3, <2>4
<1>13. History'
  <2>1. \A i \in 1 .. Len(got) : got'[i] = sent'[i]
    BY <1>1, <1>3, <1>4, <1>n, <1>5 DEF ListInv, History
  <2>2. \A i, j \in 1 .. n + 1 : sent'[i] = sent'[j] => i = j
    <3>1. \A i, j \in 1 .. n : sent[i] = sent[j] => i = j
      BY <1>3, <1>n DEF ListInv, History
    <3>2. \A i \in 1 .. n + 1 : i = n + 1 \/ i \in 1 .. n
      BY <1>4, <1>n
    <3>. QED  BY <1>2, <1>n, <1>5, <3>1, <3>2
  <2>3. \A i \in 1 .. n + 1 : sent'[i].number < send'[sent'[i].src].number
    <3>. TAKE i \in 1 .. n + 1
    <3>1. CASE i = n + 1
      <4>1. sent'[i].src = s /\ sent'[i].number = send[s].number /\ send[s].number \in Int
        BY <1>3, <1>n, <1>5, <3>1 DEF Current, SendState
      <4>. QED  BY <1>8, <4>1
    <3>2. CASE i \in 1 .. n
      <4>1. sent'[i] = sent[i] /\ sent[i].number < send[sent[i].src].number
        BY <1>3, <1>n, <1>5, <3>2 DEF ListInv, History
      <4>2. sent[i].src \in Senders /\ sent[i].number \in Int /\ send[s].number \in Int
        BY <1>3, <1>4, <1>n, <3>2, NodeKinds DEF SendState
      <4>. QED  BY <1>8, <4>1, <4>2
    <3>. QED  BY <1>4, <1>n, <3>1, <3>2
  <2>4. Gone' \in Nat /\ Gone' <= Len(sent') /\ Len(got') <= Len(sent')
    BY <1>1, <1>2, <1>4, <1>n, <1>5, <1>12
  <2>. QED  BY <1>1, <1>n, <1>5, <2>1, <2>2, <2>3, <2>4 DEF History
<1>14. Linked'
  <2>1. \A i \in Gone .. n : next[NodeAt(i)'] = sent'[i + 1]
    <3>. TAKE i \in Gone .. n
    <3>1. CASE i = n
      BY <1>3, <1>n, <1>5, <1>12, <3>1 DEF LastNode
    <3>2. CASE i # n
      <4>1. i \in Gone .. n - 1 /\ i + 1 \in 1 .. n
        BY <1>4, <1>n, <3>2
      <4>. QED  BY <1>3, <1>n, <1>5, <1>12, <4>1 DEF ListInv, Linked
    <3>. QED  BY <3>1, <3>2
  <2>2. \A i \in Gone + 1 .. n + 1 :
           previous[sent'[i]] = NodeAt(i - 1)' /\ message[sent'[i]] = sent'[i]
    <3>. TAKE i \in Gone + 1 .. n + 1
    <3>0. i - 1 \in Gone .. n
      BY <1>4, <1>n
    <3>1. CASE i = n + 1
      <4>1. NodeAt(n)' = LastNode /\ i - 1 = n
        BY <1>4, <1>n, <1>12, <3>1 DEF LastNode
      <4>. QED  BY <1>3, <1>n, <1>5, <3>1, <4>1
    <3>2. CASE i # n + 1
      <4>1. i \in Gone + 1 .. n /\ i \in 1 .. n
        BY <1>4, <1>n, <3>2
      <4>. QED  BY <1>2, <1>3, <1>n, <1>5, <1>12, <3>0, <4>1 DEF ListInv, Linked
    <3>. QED  BY <3>1, <3>2
  <2>3. Len(sent') - 1 = n
    BY <1>4, <1>n, <1>5
  <2>. QED  BY <1>1, <1>2, <1>5, <1>12, <2>1, <2>2, <2>3 DEF Linked
<1>15. \A t \in Senders : Sent(t)'
  BY <1>9 DEF Sent
<1>16. AtEnd'
  <2>1. length[box] = Len(sent) - Gone
    BY <1>2, <1>3 DEF ListInv, AtEnd
  <2>. QED  BY <1>1, <1>2, <1>3, <1>4, <1>n, <1>5, <1>7, <1>12, <2>1 DEF AtEnd
<1>17. Received'
  BY <1>1, <1>2 DEF Received
<1>. QED  BY <1>1, <1>10, <1>11, <1>13, <1>14, <1>15, <1>16, <1>17 DEF IInv, ListInv

\* A call begins when no other is on its way.
LEMMA QuietIdle ==
  ASSUME IInv, open, Quiet(box)
  PROVE  (\A s \in Senders : send[s].at = "idle") /\ read.at = "idle"
BY DEF Quiet, Unsent, IInv, OneCall

\* A sender enters when there is room and nobody else is in a call.
LEMMA SendCheckStep ==
  ASSUME TakeTurns, IInv, NEW s \in Senders, SendCheck(s)
  PROVE  IInv'
<1>1. /\ send[s].at = "idle" /\ ~wild /\ open /\ Quiet(box)
      /\ send[s].number <= Sends /\ length[box] < MAILBOX_SIZE
      /\ send' = [send EXCEPT ![s].at = "link", ![s].target = box]
      /\ UNCHANGED <<next, previous, message, tail, length, wild, box, open, read, got, sent>>
  BY DEF SendCheck, At, OthersOfSend, list
<1>2. /\ \A t \in Senders : send[t].at = "idle"
      /\ read.at = "idle" /\ box \in Box /\ TypeOK /\ ListInv
  BY <1>1, QuietIdle, ListNodes DEF IInv
<1>3. /\ send' \in [Senders -> SendState] /\ send'[s].at = "link"
      /\ send'[s].target = box /\ send'[s].number = send[s].number
      /\ \A t \in Senders : t # s => send'[t] = send[t]
  <2>1. /\ send' \in [Senders -> SendState] /\ send'[s].at = "link"
        /\ send'[s].target = box /\ send'[s].number = send[s].number
    BY <1>1, <1>2 DEF SendState, TypeOK
  <2>2. \A t \in Senders : t # s => send'[t] = send[t]
    BY <1>1, <1>2 DEF TypeOK
  <2>. QED  BY <2>1, <2>2
<1>4. TypeOK'
  BY <1>1, <1>2, <1>3 DEF TypeOK
<1>5. OneCall'
  BY <1>1, <1>2, <1>3 DEF OneCall
<1>6. Gone' = Gone /\ \A i : NodeAt(i)' = NodeAt(i)
  BY <1>1 DEF Gone, NodeAt
<1>7. LastNode' = LastNode
  BY <1>1, <1>6 DEF LastNode, NodeAt
<1>8. History'
  <2>1. \A t \in Senders : send'[t].number = send[t].number
    BY <1>3
  <2>2. \A i \in 1 .. Len(sent) : sent[i].src \in Senders
    BY <1>1, ListNodes, NodeKinds
  <2>. QED  BY <1>1, <1>2, <1>6, <2>1, <2>2 DEF ListInv, History
<1>9. Linked'
  BY <1>1, <1>2, <1>6 DEF ListInv, Linked
<1>10. \A t \in Senders : Sent(t)'
  BY <1>1, <1>2, <1>3 DEF Sent
<1>11. AtEnd'
  BY <1>1, <1>2, <1>3, <1>6, <1>7 DEF ListInv, AtEnd
<1>12. Received'
  BY <1>1, <1>2 DEF Received
<1>. QED  BY <1>1, <1>4, <1>5, <1>8, <1>9, <1>10, <1>11, <1>12 DEF IInv, ListInv

-----------------------------------------------------------------------------
(* The next owner *)

\* The box of a new owner is an empty list.
LEMMA RegisterStep ==
  ASSUME IInv, Register
  PROVE  IInv'
<1>1. /\ ~open /\ box < Registrations /\ box' = box + 1 /\ open' = TRUE
      /\ next' = [next EXCEPT ![HeadOf(box')] = NULL]
      /\ previous' = [previous EXCEPT ![HeadOf(box')] = NULL]
      /\ tail' = [tail EXCEPT ![box'] = HeadOf(box')]
      /\ length' = [length EXCEPT ![box'] = 0]
      /\ sent' = <<>> /\ got' = <<>>
      /\ UNCHANGED <<message, send, read, wild>>
  BY DEF Register
<1>2. /\ TypeOK /\ ~wild
      /\ \A t \in Senders : send[t].at = "idle"
      /\ read.at = "idle"
  BY <1>1 DEF IInv, OneCall
<1>3. box' \in Box
  BY <1>1, <1>2, ConstantsAssumption DEF TypeOK, Box
<1>4. HeadOf(box') \in Node /\ MAILBOX_SIZE \in Nat
  BY <1>3, NodeKinds, ConstantsAssumption
<1>. DEFINE h == HeadOf(box')
<1>. HIDE DEF h
<1>5. /\ next' \in [Node -> Link] /\ next'[h] = NULL
      /\ previous' \in [Node -> Link]
      /\ tail' \in [Box -> Node] /\ tail'[box'] = h
      /\ length' \in [Box -> 0 .. MAILBOX_SIZE] /\ length'[box'] = 0
  BY <1>1, <1>2, <1>3, <1>4 DEF TypeOK, Link, h
<1>6. Len(sent') = 0 /\ Len(got') = 0 /\ sent' \in Seq(Mails) /\ got' \in Seq(Mails)
  BY <1>1
<1>7. TypeOK'
  BY <1>1, <1>2, <1>3, <1>5, <1>6 DEF TypeOK, Link
<1>8. OneCall'
  BY <1>1, <1>2, <1>3 DEF OneCall
<1>9. Gone' = 0 /\ LastNode' = h
  BY <1>1, <1>2, <1>6 DEF Gone, LastNode, NodeAt, h
<1>10. History' /\ Linked'
  BY <1>6, <1>9 DEF History, Linked
<1>11. (\A t \in Senders : Sent(t)') /\ Received'
  BY <1>1, <1>2 DEF Sent, Received
<1>12. AtEnd'
  BY <1>1, <1>2, <1>5, <1>6, <1>9 DEF AtEnd
<1>. QED  BY <1>1, <1>2, <1>7, <1>8, <1>10, <1>11, <1>12 DEF IInv, ListInv

\* The owner dies, perhaps inside ReadMail; nobody is left on the box.
LEMMA DestroyStep ==
  ASSUME TakeTurns, IInv, Destroy
  PROVE  IInv'
<1>1. /\ open /\ Unsent(box) /\ open' = FALSE
      /\ next' = [next EXCEPT ![HeadOf(box)] = NULL]
      /\ read' = [read EXCEPT !.at = "idle"]
      /\ sent' = <<>> /\ got' = <<>>
      /\ UNCHANGED <<previous, message, tail, length, box, send, wild>>
  BY DEF Destroy
<1>2. TypeOK /\ ~wild /\ \A t \in Senders : send[t].at = "idle"
  BY <1>1 DEF IInv, OneCall, Unsent
<1>3. next' \in [Node -> Link]
  BY <1>1, <1>2, ListNodes DEF TypeOK, Link
<1>4. read' \in ReadState /\ read'.at = "idle"
  BY <1>1, <1>2 DEF TypeOK, ReadState
<1>5. TypeOK'
  <2>1. sent' \in Seq(Mails) /\ got' \in Seq(Mails)
    BY <1>1, EmptySeq
  <2>2. /\ previous' \in [Node -> Link] /\ message' \in [Node -> Mails \cup {NoMail}]
        /\ tail' \in [Box -> Node] /\ length' \in [Box -> 0 .. MAILBOX_SIZE]
        /\ box' \in Box \cup {0} /\ send' \in [Senders -> SendState]
    BY <1>1, <1>2 DEF TypeOK, Link
  <2>3. open' \in BOOLEAN /\ wild' \in BOOLEAN
    BY <1>1, <1>2 DEF TypeOK
  <2>. QED  BY <1>3, <1>4, <2>1, <2>2, <2>3 DEF TypeOK, Link
<1>6. OneCall'
  BY <1>1, <1>2, <1>4 DEF OneCall
<1>. QED  BY <1>1, <1>2, <1>5, <1>6 DEF IInv

-----------------------------------------------------------------------------
(* The steps of ReadMail *)

\* The owner enters when length says that there is a mail, and there is one.
LEMMA ReadCheckStep ==
  ASSUME TakeTurns, IInv, ReadCheck
  PROVE  IInv'
<1>1. /\ open /\ ~wild /\ read.at = "idle" /\ length[box] > 0 /\ Quiet(box)
      /\ read' = [read EXCEPT !.at = "first", !.target = box]
      /\ UNCHANGED <<next, previous, message, tail, length, wild, got, box, open, send, sent>>
  BY DEF ReadCheck, ReadAt, OthersOfRead, list
<1>2. /\ \A t \in Senders : send[t].at = "idle"
      /\ box \in Box /\ TypeOK /\ ListInv
  BY <1>1, QuietIdle, ListNodes DEF IInv
<1>3. read' \in ReadState /\ read'.at = "first" /\ read'.target = box
  BY <1>1, <1>2 DEF TypeOK, ReadState
<1>4. TypeOK'
  BY <1>1, <1>2, <1>3 DEF TypeOK
<1>5. OneCall'
  BY <1>1, <1>2, <1>3 DEF OneCall
<1>6. Gone' = Gone /\ \A i : NodeAt(i)' = NodeAt(i)
  BY <1>1, <1>3 DEF Gone, NodeAt
<1>7. LastNode' = LastNode
  BY <1>1, <1>3 DEF LastNode, NodeAt, Gone
<1>8. History' /\ Linked'
  BY <1>1, <1>2, <1>3, <1>6 DEF ListInv, History, Linked
<1>9. \A t \in Senders : Sent(t)'
  BY <1>1, <1>2 DEF Sent
<1>10. AtEnd'
  BY <1>1, <1>2, <1>3, <1>6, <1>7 DEF ListInv, AtEnd
<1>11. Received'
  <2>1. length[box] = Len(sent) - Gone
    BY <1>1, <1>2 DEF ListInv, AtEnd
  <2>2. Len(sent) > Gone
    BY <1>1, <2>1, ListNodes
  <2>. QED  BY <1>1, <1>3, <1>6, <2>2 DEF Received
<1>. QED  BY <1>1, <1>4, <1>5, <1>8, <1>9, <1>10, <1>11 DEF IInv, ListInv

\* While the owner reads, nobody sends.
LEMMA OwnerAlone ==
  ASSUME IInv, read.at # "idle"
  PROVE  /\ open /\ read.target = box /\ box \in Box /\ TypeOK /\ ListInv
         /\ \A t \in Senders : send[t].at = "idle"
<1>1. open /\ read.target = box /\ \A t \in Senders : send[t].at = "idle"
  BY DEF IInv, OneCall
<1>. QED  BY <1>1, ListNodes DEF IInv

\* An owner that moves on inside its call leaves the senders alone; until the
\* mail is unlinked it leaves the places in the list alone, too.
LEMMA OwnerMoves ==
  ASSUME IInv, read.at # "idle", UNCHANGED <<box, open, send, sent>>,
         read'.target = read.target
  PROVE  /\ OneCall' /\ \A t \in Senders : Sent(t)'
         /\ Gone' = Gone =>
               LastNode' = LastNode /\ \A i \in Gone .. Len(sent) : NodeAt(i)' = NodeAt(i)
         /\ UNCHANGED got /\ Gone' = Gone => History'
<1>1. /\ open /\ read.target = box /\ box \in Box
      /\ \A t \in Senders : send[t].at = "idle"
  BY OwnerAlone
<1>2. OneCall'
  BY <1>1 DEF OneCall
<1>3. \A t \in Senders : Sent(t)'
  BY <1>1 DEF Sent
<1>4. ASSUME Gone' = Gone
      PROVE  LastNode' = LastNode /\ \A i \in Gone .. Len(sent) : NodeAt(i)' = NodeAt(i)
  <2>1. \A i \in Gone .. Len(sent) : NodeAt(i)' = NodeAt(i)
    BY <1>4 DEF NodeAt
  <2>2. LastNode' = LastNode
    BY <1>4 DEF LastNode, NodeAt
  <2>. QED  BY <2>1, <2>2
<1>5. ASSUME UNCHANGED got, Gone' = Gone
      PROVE  History'
  BY <1>1, <1>5 DEF IInv, ListInv, History
<1>. QED  BY <1>2, <1>3, <1>4, <1>5

\* The first node is found; ReadMail's -1 for an empty list is not reached.
LEMMA ReadFirstStep ==
  ASSUME IInv, ReadFirst
  PROVE  IInv'
<1>1. /\ read.at = "first" /\ ~wild
      /\ read' = [read EXCEPT !.at = IF next[HeadOf(read.target)] = NULL THEN "idle" ELSE "compare",
                              !.temp = next[HeadOf(read.target)]]
      /\ UNCHANGED <<next, previous, message, tail, length, wild, got, box, open, send, sent>>
  BY DEF ReadFirst, ReadAt, OthersOfRead, list
<1>2. /\ open /\ read.target = box /\ TypeOK /\ ListInv
      /\ \A t \in Senders : send[t].at = "idle"
  BY <1>1, OwnerAlone
<1>3. /\ Gone \in Nat /\ Len(sent) \in Nat /\ Gone < Len(sent)
      /\ sent[Gone + 1] \in Mails /\ sent[Gone + 1] \in Node /\ sent[Gone + 1] # NULL
  <2>1. Gone < Len(sent) /\ Gone \in Nat /\ Len(sent) \in Nat
    BY <1>1, <1>2, ListNodes DEF ListInv, Received
  <2>2. Gone + 1 \in 1 .. Len(sent)
    BY <2>1
  <2>3. sent[Gone + 1] \in Mails
    BY <1>2, <2>2, ListNodes
  <2>. QED  BY <2>1, <2>3, NodeKinds
<1>4. next[HeadOf(box)] = sent[Gone + 1]
  <2>1. Gone \in Gone .. Len(sent) - 1
    BY <1>3
  <2>2. next[NodeAt(Gone)] = sent[Gone + 1]
    BY <1>2, <2>1 DEF ListInv, Linked
  <2>. QED  BY <2>2 DEF NodeAt
<1>5. /\ read' \in ReadState /\ read'.at = "compare" /\ read'.target = read.target
      /\ read'.temp = sent[Gone + 1]
  BY <1>1, <1>2, <1>3, <1>4 DEF TypeOK, ReadState
<1>6. Gone' = Gone
  BY <1>1, <1>5 DEF Gone
<1>7. /\ OneCall' /\ History' /\ LastNode' = LastNode
      /\ \A t \in Senders : Sent(t)'
      /\ \A i \in Gone .. Len(sent) : NodeAt(i)' = NodeAt(i)
  BY <1>1, <1>5, <1>6, OwnerMoves
<1>8. TypeOK'
  BY <1>1, <1>2, <1>5 DEF TypeOK
<1>9. Linked'
  <2>1. /\ \A i \in Gone + 1 .. Len(sent) : NodeAt(i - 1)' = NodeAt(i - 1)
        /\ \A i \in Gone .. Len(sent) - 1 : NodeAt(i)' = NodeAt(i)
    BY <1>3, <1>7
  <2>. QED  BY <1>1, <1>2, <1>5, <1>6, <2>1 DEF ListInv, Linked
<1>10. AtEnd'
  BY <1>1, <1>2, <1>5, <1>6, <1>7 DEF ListInv, AtEnd
<1>11. Received'
  BY <1>1, <1>3, <1>5, <1>6 DEF Received
<1>. QED  BY <1>1, <1>7, <1>8, <1>9, <1>10, <1>11 DEF IInv, ListInv

\* The mail in the hands of the owner is the first of the list.
LEMMA InHandFacts ==
  ASSUME IInv, read.at \in {"compare", "reset", "copy", "back", "skip"}
  PROVE  /\ Gone \in Nat /\ Len(sent) \in Nat /\ Gone + 1 \in 1 .. Len(sent)
         /\ read.temp = sent[Gone + 1] /\ read.temp \in Mails /\ read.temp \in Node
         /\ read.temp # HeadOf(box) /\ NodeAt(Gone + 1) = read.temp /\ NodeAt(Gone) = HeadOf(box)
<1>1. open /\ ListInv
  BY OwnerAlone
<1>2. Gone \in Nat /\ Len(sent) \in Nat /\ Gone + 1 \in 1 .. Len(sent)
  BY <1>1, ListNodes DEF ListInv, Received
<1>3. read.temp = sent[Gone + 1]
  BY <1>1 DEF ListInv, Received
<1>4. read.temp \in Mails /\ read.temp \in Node /\ read.temp # HeadOf(box)
  BY <1>1, <1>2, <1>3, ListNodes
<1>5. NodeAt(Gone + 1) = read.temp /\ NodeAt(Gone) = HeadOf(box)
  BY <1>2, <1>3 DEF NodeAt
<1>. QED  BY <1>2, <1>3, <1>4, <1>5

\* The node is the tail exactly when it is the only one.
LEMMA ReadCompareStep ==
  ASSUME IInv, ReadCompare
  PROVE  IInv'
<1>1. /\ read.at = "compare" /\ ~wild
      /\ read' = [read EXCEPT !.at = IF read.temp = tail[read.target] THEN "reset" ELSE "copy"]
      /\ UNCHANGED <<next, previous, message, tail, length, wild, got, box, open, send, sent>>
  BY DEF ReadCompare, ReadAt, OthersOfRead, list
<1>2. /\ open /\ read.target = box /\ TypeOK /\ ListInv
      /\ \A t \in Senders : send[t].at = "idle"
  BY <1>1, OwnerAlone
<1>3. /\ Gone \in Nat /\ Len(sent) \in Nat /\ Gone + 1 \in 1 .. Len(sent)
      /\ read.temp = sent[Gone + 1] /\ NodeAt(Gone + 1) = read.temp
  BY <1>1, InHandFacts
<1>4. tail[box] = LastNode
  BY <1>1, <1>2 DEF ListInv, AtEnd
<1>5. read.temp = tail[box] <=> Len(sent) = Gone + 1
  <2>1. Gone + 1 \in Gone .. Len(sent) /\ Len(sent) \in Gone .. Len(sent)
    BY <1>3
  <2>2. \A i, j \in Gone .. Len(sent) : NodeAt(i) = NodeAt(j) => i = j
    BY <1>2, ListNodes
  <2>. QED  BY <1>3, <1>4, <2>1, <2>2 DEF LastNode
<1>6. /\ read' \in ReadState /\ read'.target = read.target /\ read'.temp = read.temp
      /\ read'.at = IF Len(sent) = Gone + 1 THEN "reset" ELSE "copy"
  BY <1>1, <1>2, <1>5 DEF TypeOK, ReadState
<1>7. Gone' = Gone
  BY <1>1, <1>6 DEF Gone
<1>8. /\ OneCall' /\ History' /\ LastNode' = LastNode
      /\ \A t \in Senders : Sent(t)'
      /\ \A i \in Gone .. Len(sent) : NodeAt(i)' = NodeAt(i)
  BY <1>1, <1>6, <1>7, OwnerMoves
<1>9. TypeOK'
  BY <1>1, <1>2, <1>6 DEF TypeOK
<1>10. Linked'
  <2>1. /\ \A i \in Gone + 1 .. Len(sent) : NodeAt(i - 1)' = NodeAt(i - 1)
        /\ \A i \in Gone .. Len(sent) - 1 : NodeAt(i)' = NodeAt(i)
    BY <1>3, <1>8
  <2>. QED  BY <1>1, <1>2, <1>6, <1>7, <2>1 DEF ListInv, Linked
<1>11. AtEnd'
  BY <1>1, <1>2, <1>6, <1>7, <1>8 DEF ListInv, AtEnd
<1>12. Received'
  BY <1>1, <1>3, <1>6, <1>7 DEF Received
<1>. QED  BY <1>1, <1>8, <1>9, <1>10, <1>11, <1>12 DEF IInv, ListInv

\* The tail moves to the head when the last mail is being read.
LEMMA ReadResetStep ==
  ASSUME IInv, ReadReset
  PROVE  IInv'
<1>1. /\ read.at = "reset" /\ ~wild
      /\ tail' = [tail EXCEPT ![read.target] = HeadOf(read.target)]
      /\ read' = [read EXCEPT !.at = "copy"]
      /\ UNCHANGED <<next, previous, message, length, wild, got, box, open, send, sent>>
  BY DEF ReadReset, ReadAt, OthersOfRead
<1>2. /\ open /\ read.target = box /\ box \in Box /\ TypeOK /\ ListInv
      /\ \A t \in Senders : send[t].at = "idle"
  BY <1>1, OwnerAlone
<1>3. /\ Gone \in Nat /\ Len(sent) \in Nat /\ Gone + 1 \in 1 .. Len(sent)
      /\ read.temp = sent[Gone + 1] /\ Len(sent) = Gone + 1 /\ HeadOf(box) \in Node
  BY <1>1, <1>2, InHandFacts, ListNodes DEF ListInv, Received
<1>4. /\ read' \in ReadState /\ read'.target = read.target /\ read'.temp = read.temp
      /\ read'.at = "copy"
  BY <1>1, <1>2 DEF TypeOK, ReadState
<1>5. tail' \in [Box -> Node] /\ tail'[box] = HeadOf(box)
  BY <1>1, <1>2, <1>3 DEF TypeOK
<1>7. Gone' = Gone
  BY <1>1, <1>4 DEF Gone
<1>8. /\ OneCall' /\ History' /\ LastNode' = LastNode
      /\ \A t \in Senders : Sent(t)'
      /\ \A i \in Gone .. Len(sent) : NodeAt(i)' = NodeAt(i)
  BY <1>1, <1>4, <1>7, OwnerMoves
<1>9. TypeOK'
  BY <1>1, <1>2, <1>4, <1>5 DEF TypeOK
<1>10. Linked'
  <2>1. /\ \A i \in Gone + 1 .. Len(sent) : NodeAt(i - 1)' = NodeAt(i - 1)
        /\ \A i \in Gone .. Len(sent) - 1 : NodeAt(i)' = NodeAt(i)
    BY <1>3, <1>8
  <2>. QED  BY <1>1, <1>2, <1>4, <1>7, <2>1 DEF ListInv, Linked
<1>11. AtEnd'
  BY <1>1, <1>2, <1>3, <1>4, <1>5, <1>7, <1>8 DEF ListInv, AtEnd
<1>12. Received'
  BY <1>1, <1>3, <1>4, <1>7 DEF Received
<1>. QED  BY <1>1, <1>8, <1>9, <1>10, <1>11, <1>12 DEF IInv, ListInv

\* The mail that the owner gets is the next one that was sent.
LEMMA ReadCopyStep ==
  ASSUME IInv, ReadCopy
  PROVE  IInv' /\ got' = Append(got, sent[Len(got) + 1]) /\ Len(got) < Len(sent)
<1>1. /\ read.at = "copy" /\ ~wild /\ read' = [read EXCEPT !.at = "back"]
      /\ UNCHANGED <<next, previous, message, tail, length, box, open, send, sent>>
  BY DEF ReadCopy, ReadAt, OthersOfRead, list
<1>2. /\ open /\ read.target = box /\ TypeOK /\ ListInv
      /\ \A t \in Senders : send[t].at = "idle"
  BY <1>1, OwnerAlone
<1>3. /\ Gone \in Nat /\ Len(sent) \in Nat /\ Gone + 1 \in 1 .. Len(sent) /\ Gone = Len(got)
      /\ read.temp = sent[Gone + 1] /\ read.temp \in Mails /\ read.temp \in Node
      /\ Gone + 1 \in Gone + 1 .. Len(sent)
  <2>1. /\ Gone \in Nat /\ Len(sent) \in Nat /\ Gone + 1 \in 1 .. Len(sent)
        /\ read.temp = sent[Gone + 1] /\ read.temp \in Mails /\ read.temp \in Node
    BY <1>1, InHandFacts
  <2>. QED  BY <1>1, <2>1 DEF Gone
<1>4. got' = Append(got, sent[Gone + 1]) /\ UNCHANGED wild
  <2>1. message[sent[Gone + 1]] = sent[Gone + 1]
    BY <1>2, <1>3 DEF ListInv, Linked
  <2>. QED  BY <1>3, <2>1 DEF ReadCopy
<1>5. /\ got' \in Seq(Mails) /\ Len(got') = Gone + 1 /\ got'[Gone + 1] = sent[Gone + 1]
      /\ \A i \in 1 .. Gone : got'[i] = got[i]
  BY <1>2, <1>3, <1>4, AppendProperties DEF TypeOK
<1>6. /\ read' \in ReadState /\ read'.target = read.target /\ read'.temp = read.temp
      /\ read'.at = "back"
  BY <1>1, <1>2 DEF TypeOK, ReadState
<1>7. Gone' = Gone
  BY <1>3, <1>5, <1>6 DEF Gone
<1>8. /\ OneCall' /\ LastNode' = LastNode
      /\ \A t \in Senders : Sent(t)'
      /\ \A i \in Gone .. Len(sent) : NodeAt(i)' = NodeAt(i)
  BY <1>1, <1>6, <1>7, OwnerMoves
<1>9. TypeOK'
  BY <1>1, <1>2, <1>4, <1>5, <1>6 DEF TypeOK
<1>10. History'
  <2>1. \A i \in 1 .. Len(got') : got'[i] = sent[i]
    <3>1. \A i \in 1 .. Gone : got[i] = sent[i]
      BY <1>2, <1>3 DEF ListInv, History
    <3>2. \A i \in 1 .. Gone + 1 : i = Gone + 1 \/ i \in 1 .. Gone
      BY <1>3
    <3>. QED  BY <1>5, <3>1, <3>2
  <2>. QED  BY <1>1, <1>2, <1>3, <1>5, <1>7, <2>1 DEF ListInv, History
<1>11. Linked'
  <2>1. /\ \A i \in Gone + 1 .. Len(sent) : NodeAt(i - 1)' = NodeAt(i - 1)
        /\ \A i \in Gone .. Len(sent) - 1 : NodeAt(i)' = NodeAt(i)
    BY <1>3, <1>8
  <2>. QED  BY <1>1, <1>2, <1>6, <1>7, <2>1 DEF ListInv, Linked
<1>12. AtEnd'
  BY <1>1, <1>2, <1>6, <1>7, <1>8 DEF ListInv, AtEnd
<1>13. Received'
  BY <1>1, <1>3, <1>6, <1>7 DEF Received
<1>14. IInv'
  BY <1>1, <1>4, <1>8, <1>9, <1>10, <1>11, <1>12, <1>13 DEF IInv, ListInv
<1>. QED  BY <1>3, <1>4, <1>14

\* The second node, if there is one, is linked back to the head.
LEMMA ReadBackStep ==
  ASSUME IInv, ReadBack
  PROVE  IInv'
<1>1. /\ read.at = "back" /\ ~wild /\ read' = [read EXCEPT !.at = "skip"]
      /\ UNCHANGED <<got, box, open, send, sent>>
  BY DEF ReadBack, ReadAt, OthersOfRead
<1>2. /\ open /\ read.target = box /\ TypeOK /\ ListInv
      /\ \A t \in Senders : send[t].at = "idle"
  BY <1>1, OwnerAlone
<1>3. /\ Gone \in Nat /\ Len(sent) \in Nat /\ Gone + 1 \in 1 .. Len(sent)
      /\ read.temp = sent[Gone + 1] /\ NodeAt(Gone + 1) = read.temp /\ NodeAt(Gone) = HeadOf(box)
      /\ HeadOf(box) \in Node
      /\ \A i \in 1 .. Len(sent) : sent[i] \in Node /\ sent[i] # NULL
  BY <1>1, <1>2, InHandFacts, ListNodes, NodeKinds
<1>4. /\ read' \in ReadState /\ read'.target = read.target /\ read'.temp = read.temp
      /\ read'.at = "skip"
  BY <1>1, <1>2 DEF TypeOK, ReadState
<1>5. previous[read.temp] = HeadOf(box)
  <2>1. Gone + 1 \in Gone + 1 .. Len(sent) /\ Gone + 1 - 1 = Gone
    BY <1>3
  <2>. QED  BY <1>1, <1>2, <1>3, <2>1 DEF ListInv, Linked
<1>6. /\ UNCHANGED <<next, message, tail, length, wild>>
      /\ previous' \in [Node -> Link]
      /\ \A i \in Gone + 1 .. Len(sent) :
            previous'[sent[i]] = IF i = Gone + 2 THEN HeadOf(box) ELSE previous[sent[i]]
  <2>1. CASE Len(sent) = Gone + 1
    <3>1. next[read.temp] = NULL
      BY <1>1, <1>2, <1>3, <2>1 DEF ListInv, AtEnd, LastNode
    <3>2. UNCHANGED <<previous, next, message, tail, length, wild>>
      BY <3>1 DEF ReadBack, list
    <3>3. \A i \in Gone + 1 .. Len(sent) : i # Gone + 2
      BY <1>3, <2>1
    <3>. QED  BY <1>2, <3>2, <3>3 DEF TypeOK, Link
  <2>2. CASE Len(sent) # Gone + 1
    <3>1. Gone + 1 \in Gone .. Len(sent) - 1 /\ Gone + 2 \in 1 .. Len(sent) /\ Gone + 1 + 1 = Gone + 2
      BY <1>3, <2>2
    <3>2. next[read.temp] = sent[Gone + 2]
      BY <1>2, <1>3, <3>1 DEF ListInv, Linked
    <3>3. /\ previous' = [previous EXCEPT ![sent[Gone + 2]] = HeadOf(box)]
          /\ UNCHANGED <<next, message, tail, length, wild>>
      BY <1>3, <1>5, <3>1, <3>2 DEF ReadBack, Follow
    <3>4. previous' \in [Node -> Link]
      BY <1>2, <1>3, <3>1, <3>3 DEF TypeOK, Link
    <3>5. \A i \in Gone + 1 .. Len(sent) :
            previous'[sent[i]] = IF i = Gone + 2 THEN HeadOf(box) ELSE previous[sent[i]]
      <4>1. \A i \in 1 .. Len(sent) : sent[i] = sent[Gone + 2] => i = Gone + 2
        BY <1>2, <3>1 DEF ListInv, History
      <4>2. \A i \in Gone + 1 .. Len(sent) : i \in 1 .. Len(sent)
        BY <1>3
      <4>3. \A x \in Node : previous'[x] = IF x = sent[Gone + 2] THEN HeadOf(box) ELSE previous[x]
        BY <1>2, <1>3, <3>1, <3>3 DEF TypeOK
      <4>. QED  BY <1>3, <4>1, <4>2, <4>3
    <3>. QED  BY <3>3, <3>4, <3>5
  <2>. QED  BY <2>1, <2>2
<1>7. Gone' = Gone
  BY <1>1, <1>4 DEF Gone
<1>8. /\ OneCall' /\ History' /\ LastNode' = LastNode
      /\ \A t \in Senders : Sent(t)'
      /\ \A i \in Gone .. Len(sent) : NodeAt(i)' = NodeAt(i)
  BY <1>1, <1>4, <1>7, OwnerMoves
<1>9. TypeOK'
  BY <1>1, <1>2, <1>4, <1>6 DEF TypeOK, Link
<1>10. Linked'
  <2>1. /\ \A i \in Gone + 1 .. Len(sent) : NodeAt(i - 1)' = NodeAt(i - 1)
        /\ \A i \in Gone .. Len(sent) - 1 : NodeAt(i)' = NodeAt(i)
    BY <1>3, <1>8
  <2>2. \A i \in Gone + 1 .. Len(sent) : previous[sent[i]] = NodeAt(i - 1)
    BY <1>1, <1>2 DEF ListInv, Linked
  <2>. QED  BY <1>1, <1>2, <1>4, <1>6, <1>7, <2>1, <2>2 DEF ListInv, Linked
<1>11. AtEnd'
  BY <1>1, <1>2, <1>4, <1>6, <1>7, <1>8 DEF ListInv, AtEnd
<1>12. Received'
  BY <1>1, <1>2, <1>3, <1>4, <1>7 DEF ListInv, Received
<1>. QED  BY <1>1, <1>6, <1>8, <1>9, <1>10, <1>11, <1>12 DEF IInv, ListInv

\* The mail read leaves the list: the head is linked to the one behind it.
LEMMA ReadSkipStep ==
  ASSUME IInv, ReadSkip
  PROVE  IInv'
<1>1. /\ read.at = "skip" /\ ~wild /\ read' = [read EXCEPT !.at = "load"]
      /\ UNCHANGED <<got, box, open, send, sent>>
  BY DEF ReadSkip, ReadAt, OthersOfRead
<1>2. /\ open /\ read.target = box /\ TypeOK /\ ListInv
      /\ \A t \in Senders : send[t].at = "idle"
  BY <1>1, OwnerAlone
<1>3. /\ Gone \in Nat /\ Len(sent) \in Nat /\ Gone + 1 \in 1 .. Len(sent) /\ Len(got) = Gone + 1
      /\ read.temp = sent[Gone + 1] /\ NodeAt(Gone + 1) = read.temp /\ NodeAt(Gone) = HeadOf(box)
      /\ HeadOf(box) \in Node
      /\ \A i \in 1 .. Len(sent) : sent[i] \in Node /\ sent[i] # HeadOf(box)
  <2>1. Len(got) = Gone + 1
    BY <1>1, <1>2, ListNodes DEF Gone
  <2>. QED  BY <1>1, <1>2, <2>1, InHandFacts, ListNodes
<1>4. /\ read' \in ReadState /\ read'.target = read.target /\ read'.temp = read.temp
      /\ read'.at = "load"
  BY <1>1, <1>2 DEF TypeOK, ReadState
<1>5. previous[read.temp] = HeadOf(box)
  <2>1. Gone + 1 \in Gone + 1 .. Len(sent) /\ Gone + 1 - 1 = Gone /\ Gone + 1 # Gone + 2
    BY <1>3
  <2>. QED  BY <1>2, <1>3, <2>1 DEF ListInv, Linked
<1>6. /\ next' = [next EXCEPT ![HeadOf(box)] = next[read.temp]]
      /\ UNCHANGED <<previous, message, tail, length, wild>>
  BY <1>3, <1>5 DEF ReadSkip, Follow
<1>7. /\ next' \in [Node -> Link]
      /\ \A x \in Node : next'[x] = IF x = HeadOf(box) THEN next[read.temp] ELSE next[x]
  <2>1. next[read.temp] \in Link
    BY <1>2, <1>3 DEF TypeOK, Link
  <2>. QED  BY <1>2, <1>3, <1>6, <2>1 DEF TypeOK, Link
<1>8. OneCall' /\ \A t \in Senders : Sent(t)'
  BY <1>1, <1>4, OwnerMoves
<1>9. TypeOK'
  BY <1>1, <1>2, <1>4, <1>6, <1>7 DEF TypeOK, Link
<1>g. PICK g \in Nat : g = Gone
  BY <1>3
<1>10. /\ Gone' = Gone + 1 /\ NodeAt(g + 1)' = HeadOf(box)
       /\ \A i \in Gone + 2 .. Len(sent) : NodeAt(i)' = sent[i]
       /\ LastNode' = IF Len(sent) = Gone + 1 THEN HeadOf(box) ELSE LastNode
  <2>1. Gone' = Gone + 1
    BY <1>1, <1>3, <1>4 DEF Gone
  <2>2. \A i \in Gone + 1 .. Len(sent) : NodeAt(i)' = IF i = Gone + 1 THEN HeadOf(box) ELSE sent[i]
    BY <1>1, <2>1 DEF NodeAt
  <2>3. LastNode' = IF Len(sent) = Gone + 1 THEN HeadOf(box) ELSE sent[Len(sent)]
    BY <1>1, <2>1 DEF LastNode, NodeAt
  <2>4. LastNode = sent[Len(sent)]
    BY <1>3 DEF LastNode, NodeAt
  <2>. QED  BY <1>3, <1>g, <2>1, <2>2, <2>3, <2>4
<1>11. History'
  BY <1>1, <1>2, <1>3, <1>10 DEF ListInv, History
<1>12. Linked'
  <2>1. \A i \in Gone + 1 .. Len(sent) - 1 : next'[NodeAt(i)'] = sent[i + 1]
    <3>. TAKE i \in Gone + 1 .. Len(sent) - 1
    <3>1. next[NodeAt(i)] = sent[i + 1] /\ NodeAt(i) = sent[i] /\ i \in 1 .. Len(sent)
      BY <1>2, <1>3 DEF ListInv, Linked, NodeAt
    <3>. QED  BY <1>3, <1>7, <1>10, <1>g, <3>1
  <2>2. \A i \in Gone + 2 .. Len(sent) :
           previous[sent[i]] = NodeAt(i - 1)' /\ message[sent[i]] = sent[i]
    <3>. TAKE i \in Gone + 2 .. Len(sent)
    <3>1. i \in Gone + 1 .. Len(sent) /\ i - 1 \in Gone + 1 .. Len(sent)
      BY <1>3
    <3>2. /\ previous[sent[i]] = IF i = Gone + 2 THEN HeadOf(box) ELSE NodeAt(i - 1)
          /\ message[sent[i]] = sent[i]
      BY <1>1, <1>2, <3>1 DEF ListInv, Linked
    <3>3. NodeAt(i - 1)' = IF i = Gone + 2 THEN HeadOf(box) ELSE NodeAt(i - 1)
      BY <1>3, <1>10, <1>g, <3>1 DEF NodeAt
    <3>. QED  BY <3>2, <3>3
  <2>. QED  BY <1>1, <1>3, <1>4, <1>6, <1>10, <1>g, <2>1, <2>2 DEF Linked
<1>13. AtEnd'
  <2>1. next'[LastNode'] = NULL
    <3>1. next[LastNode] = NULL
      BY <1>1, <1>2 DEF ListInv, AtEnd
    <3>2. LastNode = sent[Len(sent)] /\ Len(sent) \in 1 .. Len(sent)
      BY <1>3 DEF LastNode, NodeAt
    <3>3. LastNode \in Node /\ LastNode # HeadOf(box)
      BY <1>3, <3>2
    <3>4. Len(sent) = Gone + 1 => LastNode = read.temp
      BY <1>3, <3>2
    <3>. QED  BY <1>3, <1>7, <1>10, <3>1, <3>3, <3>4
  <2>2. tail'[box'] = LastNode'
    BY <1>1, <1>2, <1>6, <1>10 DEF ListInv, AtEnd
  <2>3. length'[box'] = Len(sent') - Gone' + 1
    BY <1>1, <1>2, <1>3, <1>6, <1>10 DEF ListInv, AtEnd
  <2>. QED  BY <1>4, <2>1, <2>2, <2>3 DEF AtEnd
<1>14. Received'
  BY <1>4 DEF Received
<1>. QED  BY <1>1, <1>6, <1>8, <1>9, <1>11, <1>12, <1>13, <1>14 DEF IInv, ListInv

\* The length that ReadMail loads is the one it will find when it stores.
LEMMA ReadLoadStep ==
  ASSUME IInv, ReadLoad
  PROVE  IInv'
<1>1. /\ read.at = "load" /\ ~wild
      /\ read' = [read EXCEPT !.at = "store", !.load = length[read.target]]
      /\ UNCHANGED <<next, previous, message, tail, length, wild, got, box, open, send, sent>>
  BY DEF ReadLoad, ReadAt, OthersOfRead, list
<1>2. /\ open /\ read.target = box /\ box \in Box /\ TypeOK /\ ListInv
      /\ \A t \in Senders : send[t].at = "idle"
  BY <1>1, OwnerAlone
<1>3. length[box] \in Int /\ Gone \in Nat /\ Len(sent) \in Nat
  BY <1>2, ListNodes, ConstantsAssumption DEF TypeOK
<1>4. /\ read' \in ReadState /\ read'.target = read.target
      /\ read'.at = "store" /\ read'.load = length[box]
  BY <1>1, <1>2, <1>3 DEF TypeOK, ReadState
<1>7. Gone' = Gone
  BY <1>1, <1>4 DEF Gone
<1>8. /\ OneCall' /\ History' /\ LastNode' = LastNode
      /\ \A t \in Senders : Sent(t)'
      /\ \A i \in Gone .. Len(sent) : NodeAt(i)' = NodeAt(i)
  BY <1>1, <1>4, <1>7, OwnerMoves
<1>9. TypeOK'
  BY <1>1, <1>2, <1>4 DEF TypeOK
<1>10. Linked'
  <2>1. /\ \A i \in Gone + 1 .. Len(sent) : NodeAt(i - 1)' = NodeAt(i - 1)
        /\ \A i \in Gone .. Len(sent) - 1 : NodeAt(i)' = NodeAt(i)
    BY <1>3, <1>8
  <2>. QED  BY <1>1, <1>2, <1>4, <1>7, <2>1 DEF ListInv, Linked
<1>11. AtEnd'
  BY <1>1, <1>2, <1>4, <1>7, <1>8 DEF ListInv, AtEnd
<1>12. Received'
  BY <1>1, <1>4 DEF Received
<1>. QED  BY <1>1, <1>8, <1>9, <1>10, <1>11, <1>12 DEF IInv, ListInv

\* The length is that of the list again.
LEMMA ReadStoreStep ==
  ASSUME IInv, ReadStore
  PROVE  IInv'
<1>1. /\ read.at = "store" /\ ~wild
      /\ length' = [length EXCEPT ![read.target] = read.load - 1]
      /\ read' = [read EXCEPT !.at = "idle"]
      /\ UNCHANGED <<next, previous, message, tail, wild, got, box, open, send, sent>>
  BY DEF ReadStore, ReadAt, OthersOfRead
<1>2. /\ open /\ read.target = box /\ box \in Box /\ TypeOK /\ ListInv
      /\ \A t \in Senders : send[t].at = "idle"
  BY <1>1, OwnerAlone
<1>3. Gone \in Nat /\ Len(sent) \in Nat /\ Gone <= Len(sent)
  BY <1>2, ListNodes
<1>4. read.load = length[box] /\ length[box] = Len(sent) - Gone + 1 /\ length[box] \in 0 .. MAILBOX_SIZE
  BY <1>1, <1>2 DEF ListInv, AtEnd, Received, TypeOK
<1>5. length' \in [Box -> 0 .. MAILBOX_SIZE] /\ length'[box] = Len(sent) - Gone
  <2>1. length[box] - 1 \in 0 .. MAILBOX_SIZE
    BY <1>3, <1>4, ConstantsAssumption
  <2>2. length' = [length EXCEPT ![box] = length[box] - 1]
    BY <1>1, <1>2, <1>4
  <2>. QED  BY <1>2, <1>3, <1>4, <2>1, <2>2 DEF TypeOK
<1>6. read' \in ReadState /\ read'.target = read.target /\ read'.at = "idle"
  BY <1>1, <1>2 DEF TypeOK, ReadState
<1>7. Gone' = Gone
  BY <1>1, <1>6 DEF Gone
<1>8. /\ OneCall' /\ History' /\ LastNode' = LastNode
      /\ \A t \in Senders : Sent(t)'
      /\ \A i \in Gone .. Len(sent) : NodeAt(i)' = NodeAt(i)
  BY <1>1, <1>6, <1>7, OwnerMoves
<1>9. TypeOK'
  BY <1>1, <1>2, <1>5, <1>6 DEF TypeOK
<1>10. Linked'
  <2>1. /\ \A i \in Gone + 1 .. Len(sent) : NodeAt(i - 1)' = NodeAt(i - 1)
        /\ \A i \in Gone .. Len(sent) - 1 : NodeAt(i)' = NodeAt(i)
    BY <1>3, <1>8
  <2>. QED  BY <1>1, <1>2, <1>6, <1>7, <2>1 DEF ListInv, Linked
<1>11. AtEnd'
  BY <1>1, <1>2, <1>5, <1>6, <1>7, <1>8 DEF ListInv, AtEnd
<1>12. Received'
  BY <1>1, <1>6 DEF Received
<1>. QED  BY <1>1, <1>8, <1>9, <1>10, <1>11, <1>12 DEF IInv, ListInv

-----------------------------------------------------------------------------
(* The theorem *)

\* A mailbox that is not registered yet.
LEMMA InitIInv == Init => IInv
<1>. SUFFICES ASSUME Init PROVE IInv
  OBVIOUS
<1>1. ~open /\ box = 0 /\ ~wild
  BY DEF Init
<1>2. TypeOK
  <2>1. /\ next \in [Node -> Link] /\ previous \in [Node -> Link]
        /\ message \in [Node -> Mails \cup {NoMail}]
    BY DEF Init, Link
  <2>2. tail \in [Box -> Node]
    BY NodeKinds DEF Init
  <2>3. length \in [Box -> 0 .. MAILBOX_SIZE]
    BY ConstantsAssumption DEF Init
  <2>4. send \in [Senders -> SendState]
    BY ConstantsAssumption DEF Init, SendState
  <2>5. read \in ReadState
    BY DEF Init, ReadState
  <2>6. sent \in Seq(Mails) /\ got \in Seq(Mails)
    BY EmptySeq DEF Init
  <2>7. open \in BOOLEAN /\ wild \in BOOLEAN
    BY DEF Init
  <2>. QED  BY <1>1, <2>1, <2>2, <2>3, <2>4, <2>5, <2>6, <2>7 DEF TypeOK, Link
<1>3. OneCall
  BY <1>1 DEF Init, OneCall
<1>. QED  BY <1>1, <1>2, <1>3 DEF IInv

\* Every step keeps the invariant.
LEMMA StepIInv ==
  ASSUME TakeTurns, IInv, [Next]_vars
  PROVE  IInv'
<1>1. CASE Register
  BY <1>1, RegisterStep
<1>2. CASE Destroy
  BY <1>2, DestroyStep
<1>3. CASE ReadStep
  <2>1. CASE ReadCheck
    BY <2>1, ReadCheckStep
  <2>2. CASE ReadFirst
    BY <2>2, ReadFirstStep
  <2>3. CASE ReadCompare
    BY <2>3, ReadCompareStep
  <2>4. CASE ReadReset
    BY <2>4, ReadResetStep
  <2>5. CASE ReadCopy
    BY <2>5, ReadCopyStep
  <2>6. CASE ReadBack
    BY <2>6, ReadBackStep
  <2>7. CASE ReadSkip
    BY <2>7, ReadSkipStep
  <2>8. CASE ReadLoad
    BY <2>8, ReadLoadStep
  <2>9. CASE ReadStore
    BY <2>9, ReadStoreStep
  <2>. QED  BY <1>3, <2>1, <2>2, <2>3, <2>4, <2>5, <2>6, <2>7, <2>8, <2>9 DEF ReadStep
<1>4. ASSUME NEW s \in Senders, SendStep(s)
      PROVE  IInv'
  <2>1. CASE SendCheck(s)
    BY <2>1, SendCheckStep
  <2>2. CASE SendLink(s)
    BY <2>2, SendLinkStep
  <2>3. CASE SendBack(s)
    BY <2>3, SendBackStep
  <2>4. CASE SendMove(s)
    BY <2>4, SendMoveStep
  <2>5. CASE SendEnd(s)
    BY <2>5, SendEndStep
  <2>6. CASE SendFill(s)
    BY <2>6, SendFillStep
  <2>7. CASE SendLoad(s)
    BY <2>7, SendLoadStep
  <2>8. CASE SendStore(s)
    BY <2>8, SendStoreStep
  <2>. QED  BY <1>4, <2>1, <2>2, <2>3, <2>4, <2>5, <2>6, <2>7, <2>8 DEF SendStep
<1>5. CASE UNCHANGED vars
  <2>1. /\ UNCHANGED <<next, previous, message, tail, length>>
        /\ UNCHANGED <<box, open, send, read, sent, got, wild>>
    BY <1>5 DEF vars, list
  <2>2. TypeOK'
    BY <2>1 DEF IInv, TypeOK
  <2>3. OneCall'
    BY <2>1 DEF IInv, OneCall
  <2>4. Gone' = Gone /\ LastNode' = LastNode /\ \A i : NodeAt(i)' = NodeAt(i)
    BY <2>1 DEF Gone, LastNode, NodeAt
  <2>5. ASSUME open PROVE History' /\ Linked'
    BY <2>1, <2>4, <2>5 DEF IInv, ListInv, History, Linked
  <2>6. ASSUME open PROVE AtEnd' /\ Received'
    BY <2>1, <2>4, <2>6 DEF IInv, ListInv, AtEnd, Received
  <2>7. ASSUME open PROVE \A s \in Senders : Sent(s)'
    BY <2>1, <2>4, <2>7 DEF IInv, ListInv, Sent, Current
  <2>. QED  BY <2>1, <2>2, <2>3, <2>5, <2>6, <2>7 DEF IInv, ListInv
<1>. QED  BY <1>1, <1>2, <1>3, <1>4, <1>5 DEF Next

\* The invariant of a mailbox whose calls do not overlap.
LEMMA IInvHolds == ASSUME TakeTurns PROVE Spec => []IInv
<1>1. ASSUME IInv, [Next]_vars PROVE IInv'
  BY <1>1, StepIInv
<1>. QED  BY <1>1, InitIInv, PTL DEF Spec

\* As long as no call overlaps another on the mailbox, SendMail and ReadMail
\* follow no null and no uninitialised pointer (mail.c:87-132), whatever the
\* number of senders, of mails and of owners that die in a read.
THEOREM NoWildAccessHolds == TakeTurns => (Spec => []NoWildAccess)
<1>. SUFFICES ASSUME TakeTurns PROVE Spec => []NoWildAccess
  OBVIOUS
<1>1. Spec => []IInv
  BY IInvHolds
<1>2. IInv => NoWildAccess
  BY DEF IInv, NoWildAccess
<1>. QED  BY <1>1, <1>2, PTL

-----------------------------------------------------------------------------
(* The list is the queue *)

\* What was sent and not read yet.
Pending == [i \in 1 .. Len(sent) - Len(got) |-> sent[Len(got) + i]]

\* There are finitely many mails, so the list of the open box has a place for
\* each of them in Nth.
LEMMA SentFits ==
  ASSUME IInv, open
  PROVE  Cardinality(Mails) \in Nat /\ Len(sent) <= Cardinality(Mails)
<1>1. IsFiniteSet(Senders \X (1 .. Sends))
  <2>1. IsFiniteSet(1 .. Sends)
    BY FS_Interval, ConstantsAssumption
  <2>. QED  BY <2>1, FS_Product, ConstantsAssumption
<1>2. IsFiniteSet(Mails)
  <2>. DEFINE P == Senders \X (1 .. Sends)
              f == [p \in P |-> [src |-> p[1], number |-> p[2]]]
  <2>1. f \in [P -> Mails]
    BY DEF Mails
  <2>2. \A m \in Mails : \E p \in P : f[p] = m
    <3>. TAKE m \in Mails
    <3>1. <<m.src, m.number>> \in P /\ m = [src |-> m.src, number |-> m.number]
      BY DEF Mails
    <3>. QED  BY <3>1
  <2>. HIDE DEF P, f
  <2>3. f \in Surjection(P, Mails)
    BY <2>1, <2>2 DEF Surjection
  <2>. QED  BY <1>1, <2>3, FS_Surjection DEF P
<1>3. Cardinality(Mails) \in Nat
  BY <1>2, FS_CardinalityType
<1>4. sent \in [1 .. Len(sent) -> Mails] /\ Len(sent) \in Nat
  BY LenProperties DEF IInv, TypeOK
<1>5. sent \in Injection(1 .. Len(sent), Mails)
  BY <1>4 DEF Injection, IsInjective, IInv, ListInv, History
<1>6. Cardinality(1 .. Len(sent)) <= Cardinality(Mails)
  BY <1>2, <1>5, FS_Injection
<1>7. Cardinality(1 .. Len(sent)) = Len(sent)
  <2>1. ASSUME NEW n \in Nat  PROVE Cardinality(1 .. n) = n
    <3>1. Cardinality(1 .. n) = IF 1 > n THEN 0 ELSE n - 1 + 1
      BY FS_Interval
    <3>. QED  BY <3>1
  <2>. QED  BY <1>4, <2>1
<1>. QED  BY <1>3, <1>6, <1>7

\* The ways from a, going n times along g.
Walks(S, a, g, n) == {f \in [0 .. n -> S] : f[0] = a /\ \A k \in 1 .. n : f[k] = g[f[k - 1]]}

\* From any value one can go n times along a function.
LEMMA Walk ==
  ASSUME NEW S, NEW a \in S, NEW g \in [S -> S], NEW m \in Nat
  PROVE  Walks(S, a, g, m) # {}
<1>. DEFINE W(n) == Walks(S, a, g, n)
            None == {n \in Nat : W(n) = {}}
<1>1. ASSUME None # {}  PROVE FALSE
  <2>1. PICK x \in None : \A y \in None : ~(<<y, x>> \in OpToRel(<, Nat))
    BY <1>1, NatLessThanWellFounded, WFMin
  <2>2. x \in Nat /\ \A y \in Nat : y < x => y \notin None
    BY <2>1 DEF OpToRel
  <2>3. CASE x = 0
    <3>. DEFINE f == [k \in 0 .. 0 |-> a]
    <3>1. f \in W(x)
      BY <2>3 DEF Walks
    <3>. QED  BY <2>1, <3>1
  <2>4. CASE x # 0
    <3>1. x - 1 \in Nat /\ x - 1 < x
      BY <2>2, <2>4
    <3>2. PICK f \in [0 .. x - 1 -> S] : f[0] = a /\ \A k \in 1 .. x - 1 : f[k] = g[f[k - 1]]
      <4>1. W(x - 1) # {}
        BY <2>2, <3>1
      <4>. QED  BY <4>1 DEF Walks
    <3>. DEFINE h == [k \in 0 .. x |-> IF k = x THEN g[f[x - 1]] ELSE f[k]]
    <3>3. h \in [0 .. x -> S]
      BY <2>2, <3>1, <3>2
    <3>4. \A k \in 0 .. x : h[k] = IF k = x THEN g[f[x - 1]] ELSE f[k]
      OBVIOUS
    <3>5. h[0] = a
      BY <2>2, <2>4, <3>2
    <3>. HIDE DEF h
    <3>6. \A k \in 1 .. x : h[k] = g[h[k - 1]]
      <4>. TAKE k \in 1 .. x
      <4>1. k \in 0 .. x /\ k - 1 \in 0 .. x /\ k - 1 # x
        BY <2>2
      <4>2. h[k - 1] = f[k - 1]
        BY <3>4, <4>1
      <4>3. CASE k = x
        BY <3>4, <4>1, <4>2, <4>3
      <4>4. CASE k # x
        <5>1. k \in 1 .. x - 1
          BY <2>2, <4>4
        <5>. QED  BY <3>2, <3>4, <4>1, <4>2, <4>4, <5>1
      <4>. QED  BY <4>3, <4>4
    <3>7. h \in W(x)
      BY <3>3, <3>5, <3>6 DEF Walks
    <3>. QED  BY <2>1, <3>7
  <2>. QED  BY <2>3, <2>4
<1>. QED  BY <1>1

\* Nth is what its equation says.
LEMMA NthEquation ==
  ASSUME TypeOK, NEW b \in Box, Cardinality(Mails) \in Nat
  PROVE  /\ Nth(b)[0] = HeadOf(b)
         /\ \A n \in 1 .. Cardinality(Mails) :
               Nth(b)[n] = IF Nth(b)[n - 1] \in Node THEN next[Nth(b)[n - 1]] ELSE NULL
<1>. DEFINE N == Cardinality(Mails)
            g == [x \in Link |-> IF x \in Node THEN next[x] ELSE NULL]
            E(f) == [n \in 0 .. N |-> IF n = 0 THEN HeadOf(b)
                                      ELSE IF f[n - 1] \in Node THEN next[f[n - 1]] ELSE NULL]
<1>1. g \in [Link -> Link] /\ \A x \in Link : g[x] = IF x \in Node THEN next[x] ELSE NULL
  BY DEF TypeOK, Link
<1>2. HeadOf(b) \in Link
  BY NodeKinds DEF Link
<1>. HIDE DEF g
<1>3. PICK f \in [0 .. N -> Link] : f[0] = HeadOf(b) /\ \A k \in 1 .. N : f[k] = g[f[k - 1]]
  <2>. DEFINE h == HeadOf(b)
              S == Link
  <2>1. h \in S
    BY <1>2
  <2>2. g \in [S -> S]
    BY <1>1
  <2>. HIDE DEF h, S
  <2>3. Walks(S, h, g, N) # {}
    BY <2>1, <2>2, Walk
  <2>4. \E f \in [0 .. N -> S] : f[0] = h /\ \A k \in 1 .. N : f[k] = g[f[k - 1]]
    BY <2>3 DEF Walks
  <2>. QED  BY <2>4 DEF h, S
<1>4. f = E(f)
  <2>1. \A n \in 0 .. N : f[n] = IF n = 0 THEN HeadOf(b)
                                 ELSE IF f[n - 1] \in Node THEN next[f[n - 1]] ELSE NULL
    <3>. TAKE n \in 0 .. N
    <3>1. CASE n = 0
      BY <1>3, <3>1
    <3>2. CASE n # 0
      <4>1. n \in 1 .. N /\ n - 1 \in 0 .. N
        BY <3>2
      <4>2. f[n - 1] \in Link
        BY <1>3, <4>1
      <4>. QED  BY <1>1, <1>3, <3>2, <4>1, <4>2
    <3>. QED  BY <3>1, <3>2
  <2>. QED  BY <1>3, <2>1
<1>5. Nth(b) = CHOOSE h : h = E(h)
  BY DEF Nth
<1>6. Nth(b) = E(Nth(b))
  BY <1>4, <1>5
<1>7. \A n \in 1 .. N : n \in 0 .. N /\ n # 0
  OBVIOUS
<1>8. 0 \in 0 .. N
  OBVIOUS
<1>. QED  BY <1>6, <1>7, <1>8

\* From the head one comes to the mails that are not gone, in their order, and
\* to nothing behind them as long as nobody is sending.
LEMMA NthNode ==
  ASSUME IInv, open
  PROVE  /\ \A k \in 0 .. Len(sent) - Gone : Nth(box)[k] = NodeAt(Gone + k)
         /\ \A k \in 1 .. Cardinality(Mails) :
               k = Len(sent) - Gone + 1 => Nth(box)[k] = next[LastNode]
<1>. DEFINE N == Cardinality(Mails)
            nth == Nth(box)
<1>1. /\ nth[0] = HeadOf(box) /\ N \in Nat /\ Len(sent) <= N
      /\ \A n \in 1 .. N : nth[n] = IF nth[n - 1] \in Node THEN next[nth[n - 1]] ELSE NULL
  BY SentFits, NthEquation, ListNodes DEF IInv
<1>2. /\ Gone \in Nat /\ Len(sent) \in Nat /\ Gone <= Len(sent)
      /\ \A i \in Gone .. Len(sent) : NodeAt(i) \in Node
      /\ \A i \in Gone .. Len(sent) - 1 : next[NodeAt(i)] = sent[i + 1]
  BY ListNodes DEF IInv, ListInv, Linked
<1>. HIDE DEF N, nth
<1>. DEFINE Wrong == {k \in 0 .. Len(sent) - Gone : nth[k] # NodeAt(Gone + k)}
<1>3. ASSUME Wrong # {}  PROVE FALSE
  <2>1. PICK x \in Wrong : \A y \in Wrong : ~(<<y, x>> \in OpToRel(<, Nat))
    <3>1. Wrong \subseteq Nat
      BY <1>2
    <3>. HIDE DEF Wrong
    <3>. QED  BY <1>3, <3>1, NatLessThanWellFounded, WFMin
  <2>2. x \in 0 .. Len(sent) - Gone /\ nth[x] # NodeAt(Gone + x)
        /\ \A y \in 0 .. Len(sent) - Gone : y < x => nth[y] = NodeAt(Gone + y)
    <3>1. x \in 0 .. Len(sent) - Gone /\ nth[x] # NodeAt(Gone + x)
      OBVIOUS
    <3>2. ASSUME NEW y \in 0 .. Len(sent) - Gone, y < x  PROVE y \notin Wrong
      <4>1. <<y, x>> \in OpToRel(<, Nat)
        BY <1>2, <3>1, <3>2 DEF OpToRel
      <4>. QED  BY <2>1, <4>1
    <3>. QED  BY <3>1, <3>2
  <2>3. x # 0
    BY <1>1, <1>2, <2>2 DEF NodeAt
  <2>4. /\ x \in 1 .. N /\ x - 1 \in 0 .. Len(sent) - Gone /\ x - 1 < x
        /\ Gone + x - 1 \in Gone .. Len(sent) - 1 /\ Gone + (x - 1) = Gone + x - 1
        /\ Gone + x - 1 + 1 = Gone + x /\ Gone + x # Gone
        /\ Gone + x - 1 \in Gone .. Len(sent)
    BY <1>1, <1>2, <2>2, <2>3
  <2>5. nth[x - 1] = NodeAt(Gone + x - 1)
    BY <2>2, <2>4
  <2>6. nth[x] = sent[Gone + x]
    BY <1>1, <1>2, <2>4, <2>5
  <2>. QED  BY <2>2, <2>4, <2>6 DEF NodeAt
<1>4. \A k \in 0 .. Len(sent) - Gone : nth[k] = NodeAt(Gone + k)
  BY <1>3
<1>5. ASSUME NEW k \in 1 .. N, k = Len(sent) - Gone + 1  PROVE nth[k] = next[LastNode]
  <2>1. k - 1 \in 0 .. Len(sent) - Gone /\ Gone + (k - 1) = Len(sent) /\ Len(sent) \in Gone .. Len(sent)
    BY <1>2, <1>5
  <2>2. nth[k - 1] = LastNode /\ LastNode \in Node
    BY <1>2, <1>4, <2>1 DEF LastNode
  <2>. QED  BY <1>1, <2>2
<1>. QED  BY <1>4, <1>5 DEF N, nth

\* The part of the list that Waiting takes: the mails that are not gone.
LEMMA WaitingIs ==
  ASSUME IInv, open
  PROVE  Waiting(box) = [i \in 1 .. Len(sent) - Gone |-> sent[Gone + i]]
<1>. DEFINE N == Cardinality(Mails)
            L == Len(sent) - Gone
            nth == Nth(box)
            D == {k \in 1 .. N : k <= length[box] /\ \A i \in 1 .. k : nth[i] \in Mails}
<1>1. /\ N \in Nat /\ Gone \in Nat /\ Len(sent) \in Nat /\ Gone <= Len(sent) /\ Len(sent) <= N
      /\ \A i \in 1 .. Len(sent) : sent[i] \in Mails
  BY SentFits, ListNodes
<1>2. \A k \in 1 .. L : nth[k] = sent[Gone + k] /\ nth[k] \in Mails /\ message[nth[k]] = sent[Gone + k]
  <2>. TAKE k \in 1 .. L
  <2>1. /\ k \in 0 .. L /\ Gone + k \in 1 .. Len(sent) /\ Gone + k # Gone
        /\ Gone + k \in Gone + 1 .. Len(sent)
    BY <1>1
  <2>2. nth[k] = sent[Gone + k]
    BY <2>1, NthNode DEF NodeAt
  <2>. QED  BY <1>1, <2>1, <2>2 DEF IInv, ListInv, Linked
<1>3. \A k \in 1 .. N : k = L + 1 => k > length[box] \/ nth[k] \notin Mails
  <2>. TAKE k \in 1 .. N
  <2>. HAVE k = L + 1
  <2>1. CASE read.at \in {"load", "store"}
    <3>1. next[LastNode] = NULL
      BY <2>1, OwnerAlone DEF ListInv, AtEnd
    <3>2. nth[k] = NULL
      BY <3>1, NthNode
    <3>. QED  BY <3>2, NodeKinds
  <2>2. CASE read.at \notin {"load", "store"}
    <3>1. length[box] = L
      BY <2>2 DEF IInv, ListInv, AtEnd
    <3>. QED  BY <1>1, <3>1
  <2>. QED  BY <2>1, <2>2
<1>4. length[box] \in {L, L + 1}
  BY <1>1 DEF IInv, ListInv, AtEnd
<1>5. Waiting(box) = [n \in D |-> message[nth[n]]]
  BY DEF Waiting
<1>. HIDE DEF nth, N
<1>6. D = 1 .. L
  <2>1. ASSUME NEW k \in D  PROVE k \in 1 .. L
    <3>1. k \in 1 .. N /\ k <= length[box] /\ \A i \in 1 .. k : nth[i] \in Mails
      OBVIOUS
    <3>2. k # L + 1
      BY <1>1, <1>3, <1>4, <3>1
    <3>. QED  BY <1>1, <1>4, <3>1, <3>2
  <2>2. ASSUME NEW k \in 1 .. L  PROVE k \in D
    <3>1. k \in 1 .. N /\ k <= length[box]
      BY <1>1, <1>4
    <3>2. \A i \in 1 .. k : i \in 1 .. L
      BY <1>1
    <3>. QED  BY <1>2, <3>1, <3>2
  <2>. QED  BY <2>1, <2>2
<1>. QED  BY <1>2, <1>5, <1>6

\* The queue that the list stands for is what was sent and not read yet.
LEMMA QueueIs == IInv => Queue = IF open THEN Pending ELSE <<>>
<1>. SUFFICES ASSUME IInv, open  PROVE Queue = Pending
  BY DEF Queue
<1>1. /\ Gone \in Nat /\ Len(sent) \in Nat /\ Gone <= Len(sent) /\ Len(got) \in Nat
      /\ \A i \in 1 .. Len(sent) : sent[i] \in Mails
  BY ListNodes
<1>2. Waiting(box) = [i \in 1 .. Len(sent) - Gone |-> sent[Gone + i]]
  BY WaitingIs
<1>3. CASE read.at \in {"back", "skip"}
  <2>1. read.target = box /\ Gone + 1 \in 1 .. Len(sent)
    BY <1>3, OwnerAlone, InHandFacts
  <2>2. Len(got) = Gone + 1
    BY <1>1, <1>3 DEF Gone
  <2>3. Queue = Tail(Waiting(box))
    BY <1>3, <2>1 DEF Queue, Copied
  <2>4. Waiting(box) \in Seq(Mails) /\ Len(Waiting(box)) = Len(sent) - Gone
    <3>1. \A i \in 1 .. Len(sent) - Gone : sent[Gone + i] \in Mails
      BY <1>1
    <3>2. Len(sent) - Gone \in Nat
      BY <1>1
    <3>. QED  BY <1>2, <3>1, <3>2, IsASeq
  <2>5. /\ Tail(Waiting(box)) \in Seq(Mails)
        /\ Len(Tail(Waiting(box))) = Len(sent) - Gone - 1
        /\ \A i \in 1 .. Len(sent) - Gone - 1 : Tail(Waiting(box))[i] = Waiting(box)[i + 1]
    <3>. DEFINE w == Waiting(box)
    <3>1. w \in Seq(Mails) /\ w # <<>> /\ Len(w) = Len(sent) - Gone
      BY <1>1, <2>1, <2>4, EmptySeq
    <3>. HIDE DEF w
    <3>2. /\ Tail(w) \in Seq(Mails) /\ Len(Tail(w)) = Len(w) - 1
          /\ \A i \in 1 .. Len(Tail(w)) : Tail(w)[i] = w[i + 1]
      BY <3>1, HeadTailProperties
    <3>. QED  BY <3>1, <3>2 DEF w
  <2>6. \A i \in 1 .. Len(sent) - Gone - 1 : Waiting(box)[i + 1] = sent[Len(got) + i]
    BY <1>1, <1>2, <2>2
  <2>7. Tail(Waiting(box)) = [i \in 1 .. Len(sent) - Gone - 1 |-> sent[Len(got) + i]]
    <3>. DEFINE t == Tail(Waiting(box))
    <3>1. /\ t \in Seq(Mails) /\ Len(t) = Len(sent) - Gone - 1
          /\ \A i \in 1 .. Len(sent) - Gone - 1 : t[i] = sent[Len(got) + i]
      BY <2>5, <2>6
    <3>. HIDE DEF t
    <3>2. t = [i \in 1 .. Len(t) |-> t[i]]
      BY <3>1
    <3>. QED  BY <3>1, <3>2 DEF t
  <2>. QED  BY <1>1, <2>2, <2>3, <2>7 DEF Pending
<1>4. CASE read.at \notin {"back", "skip"}
  <2>1. Gone = Len(got)
    BY <1>4 DEF Gone
  <2>2. Queue = Waiting(box)
    BY <1>4 DEF Queue, Copied
  <2>. QED  BY <1>2, <2>1, <2>2 DEF Pending
<1>. QED  BY <1>3, <1>4

\* What waits is a sequence of mails.
LEMMA PendingFacts ==
  ASSUME IInv, open
  PROVE  /\ Pending \in Seq(Mails) /\ Len(Pending) = Len(sent) - Len(got)
         /\ \A i \in 1 .. Len(sent) - Len(got) : Pending[i] = sent[Len(got) + i]
         /\ Len(sent) \in Nat /\ Len(got) \in Nat /\ Len(got) <= Len(sent)
<1>1. /\ Len(sent) \in Nat /\ Len(got) \in Nat /\ Len(got) <= Len(sent)
      /\ \A i \in 1 .. Len(sent) : sent[i] \in Mails
  BY ListNodes DEF IInv, ListInv, History
<1>2. Len(sent) - Len(got) \in Nat
  BY <1>1
<1>3. \A i \in 1 .. Len(sent) - Len(got) : sent[Len(got) + i] \in Mails
  BY <1>1
<1>4. Pending \in Seq(Mails)
  BY <1>2, <1>3, IsASeq DEF Pending
<1>. QED  BY <1>1, <1>2, <1>4 DEF Pending

\* A completed SendMail is a Send of the queue.
LEMMA SendRefines ==
  ASSUME IInv, NEW s \in Senders, SendStore(s),
         Queue = Pending, open' => Queue' = Pending'
  PROVE  Abstract!Send(Current(s))
<1>1. /\ send[s].at = "store" /\ UNCHANGED <<open, got>>
      /\ sent' = IF open /\ send[s].target = box THEN Append(sent, Current(s)) ELSE sent
  BY DEF SendStore, At, OthersOfSend
<1>2. /\ open /\ send[s].target = box /\ Current(s) \in Mails /\ Gone = Len(got)
      /\ read.at = "idle"
  BY <1>1, CurrentNew
<1>3. /\ Pending \in Seq(Mails) /\ Len(Pending) = Len(sent) - Len(got)
      /\ \A i \in 1 .. Len(sent) - Len(got) : Pending[i] = sent[Len(got) + i]
      /\ Len(sent) \in Nat /\ Len(got) \in Nat /\ Len(got) <= Len(sent)
  BY <1>2, PendingFacts
<1>4. Len(Pending) < MAILBOX_SIZE
  <2>1. length[box] < MAILBOX_SIZE /\ length[box] = Len(sent) - Gone
    BY <1>1, <1>2 DEF IInv, ListInv, Sent, AtEnd
  <2>. QED  BY <1>2, <1>3, <2>1
<1>. DEFINE n == Len(sent) - Len(got)
<1>5. /\ sent' = Append(sent, Current(s)) /\ Len(sent') = Len(sent) + 1
      /\ \A i \in 1 .. Len(sent) + 1 : sent'[i] = IF i = Len(sent) + 1 THEN Current(s) ELSE sent[i]
  <2>1. sent' = Append(sent, Current(s)) /\ sent \in Seq(Mails)
    BY <1>1, <1>2 DEF IInv, TypeOK
  <2>. QED  BY <1>2, <2>1, AppendProperties
<1>6. Pending' = Append(Pending, Current(s))
  <2>. DEFINE a == Append(Pending, Current(s))
              p == Pending
  <2>1. /\ a \in Seq(Mails) /\ Len(a) = n + 1
        /\ \A i \in 1 .. n + 1 : a[i] = IF i = n + 1 THEN Current(s) ELSE Pending[i]
    <3>1. p \in Seq(Mails) /\ Len(p) = n /\ n \in Nat
      BY <1>3
    <3>. HIDE DEF p, n
    <3>2. /\ Append(p, Current(s)) \in Seq(Mails) /\ Len(Append(p, Current(s))) = Len(p) + 1
          /\ \A i \in 1 .. Len(p) : Append(p, Current(s))[i] = p[i]
          /\ Append(p, Current(s))[Len(p) + 1] = Current(s)
      BY <1>2, <3>1, AppendProperties
    <3>3. \A i \in 1 .. n + 1 : i = n + 1 \/ i \in 1 .. n
      BY <3>1
    <3>. QED  BY <3>1, <3>2, <3>3 DEF p
  <2>. HIDE DEF a
  <2>2. \A i \in 1 .. n + 1 : sent'[Len(got) + i] = a[i]
    <3>. TAKE i \in 1 .. n + 1
    <3>1. Len(got) + i \in 1 .. Len(sent) + 1 /\ (Len(got) + i = Len(sent) + 1 <=> i = n + 1)
      BY <1>3
    <3>2. i # n + 1 => i \in 1 .. n
      <4>1. n \in Nat
        BY <1>3
      <4>. HIDE DEF n
      <4>. QED  BY <4>1
    <3>. QED  BY <1>3, <1>5, <2>1, <3>1, <3>2
  <2>3. Len(sent') - Len(got') = n + 1
    BY <1>1, <1>3, <1>5
  <2>4. a = [i \in 1 .. n + 1 |-> a[i]]
    BY <2>1
  <2>5. Pending' = [i \in 1 .. Len(sent') - Len(got') |-> sent'[Len(got') + i]]
    BY DEF Pending
  <2>. QED  BY <1>1, <2>2, <2>3, <2>4, <2>5 DEF a
<1>. QED  BY <1>1, <1>2, <1>4, <1>5, <1>6 DEF Abstract!Send

\* The owner's copy of a mail is a Read of the queue.
LEMMA ReadRefines ==
  ASSUME IInv, ReadCopy, Queue = Pending, open' => Queue' = Pending'
  PROVE  Abstract!Read
<1>1. /\ read.at = "copy" /\ UNCHANGED <<open, sent>>
      /\ got' = Append(got, sent[Len(got) + 1]) /\ Len(got) < Len(sent)
  BY ReadCopyStep DEF ReadCopy, ReadAt, OthersOfRead
<1>2. open
  BY <1>1, OwnerAlone
<1>3. /\ Pending \in Seq(Mails) /\ Len(Pending) = Len(sent) - Len(got)
      /\ \A i \in 1 .. Len(sent) - Len(got) : Pending[i] = sent[Len(got) + i]
      /\ Len(sent) \in Nat /\ Len(got) \in Nat
  BY <1>2, PendingFacts
<1>. DEFINE p == Pending
            n == Len(sent) - Len(got)
<1>4. p \in Seq(Mails) /\ p # <<>> /\ Len(p) = n /\ n \in Nat /\ n > 0
  BY <1>1, <1>3, EmptySeq
<1>5. Head(Pending) = sent[Len(got) + 1]
  <2>1. 1 \in 1 .. n
    BY <1>4
  <2>2. Head(p) = p[1]
    BY <1>4
  <2>. QED  BY <1>3, <2>1, <2>2
<1>6. Len(got') = Len(got) + 1
  <2>1. got \in Seq(Mails) /\ sent[Len(got) + 1] \in Mails
    BY <1>1, <1>2, <1>3, ListNodes DEF IInv, TypeOK
  <2>. QED  BY <1>1, <2>1, AppendProperties
<1>7. Pending' = Tail(Pending)
  <2>. DEFINE t == Tail(p)
  <2>1. t \in Seq(Mails) /\ Len(t) = n - 1 /\ \A i \in 1 .. n - 1 : t[i] = Pending[i + 1]
    <3>. HIDE DEF p, n
    <3>1. /\ Tail(p) \in Seq(Mails) /\ Len(Tail(p)) = Len(p) - 1
          /\ \A i \in 1 .. Len(Tail(p)) : Tail(p)[i] = p[i + 1]
      BY <1>4, HeadTailProperties
    <3>. QED  BY <1>4, <3>1 DEF p
  <2>. HIDE DEF t
  <2>2. \A i \in 1 .. n - 1 : sent[Len(got) + 1 + i] = t[i]
    <3>. TAKE i \in 1 .. n - 1
    <3>1. i + 1 \in 1 .. n /\ Len(got) + (i + 1) = Len(got) + 1 + i
      BY <1>3
    <3>. QED  BY <1>3, <2>1, <3>1
  <2>3. Len(sent') - Len(got') = n - 1
    BY <1>1, <1>3, <1>6
  <2>4. t = [i \in 1 .. n - 1 |-> t[i]]
    BY <2>1
  <2>5. Pending' = [i \in 1 .. Len(sent') - Len(got') |-> sent'[Len(got') + i]]
    BY DEF Pending
  <2>. QED  BY <1>1, <1>6, <2>2, <2>3, <2>4, <2>5 DEF t
<1>. QED  BY <1>1, <1>2, <1>4, <1>5, <1>7 DEF Abstract!Read

\* Every step is a step of the queue or leaves it alone.
LEMMA StepRefines ==
  ASSUME IInv, [Next]_vars,
         Queue = IF open THEN Pending ELSE <<>>,
         Queue' = IF open' THEN Pending' ELSE <<>>
  PROVE  [Abstract!Next]_(Abstract!vars)
<1>1. ASSUME UNCHANGED <<open, sent, got>>
      PROVE  UNCHANGED Abstract!vars
  <2>1. Pending' = Pending
    BY <1>1 DEF Pending
  <2>. QED  BY <1>1, <2>1 DEF Abstract!vars
<1>2. CASE Register
  <2>1. ~open /\ open' = TRUE /\ sent' = <<>> /\ got' = <<>>
    BY <1>2 DEF Register
  <2>2. Pending' = <<>>
    <3>1. Len(sent') = 0 /\ Len(got') = 0
      BY <2>1
    <3>2. Pending' = [i \in 1 .. 0 |-> sent'[Len(got') + i]]
      BY <3>1 DEF Pending
    <3>. QED  BY <3>2
  <2>3. Abstract!Register
    BY <2>1, <2>2 DEF Abstract!Register
  <2>. QED  BY <2>3 DEF Abstract!Next
<1>3. CASE Destroy
  <2>1. open /\ open' = FALSE /\ sent' = <<>> /\ got' = <<>>
    BY <1>3 DEF Destroy
  <2>2. Abstract!Destroy
    BY <2>1 DEF Abstract!Destroy
  <2>. QED  BY <2>2 DEF Abstract!Next
<1>4. CASE ReadCopy
  <2>1. open
    BY <1>4, OwnerAlone DEF ReadCopy, ReadAt
  <2>2. Abstract!Read
    BY <1>4, <2>1, ReadRefines
  <2>. QED  BY <2>2 DEF Abstract!Next
<1>5. CASE ReadStep /\ ~ReadCopy
  <2>1. UNCHANGED <<open, sent, got>>
    BY <1>5 DEF ReadStep, ReadCheck, ReadFirst, ReadCompare, ReadReset, ReadBack, ReadSkip,
                ReadLoad, ReadStore, OthersOfRead
  <2>. QED  BY <1>1, <2>1
<1>6. ASSUME NEW s \in Senders, SendStore(s)
      PROVE  Abstract!Next
  <2>1. open /\ Current(s) \in Mails
    BY <1>6, CurrentNew DEF SendStore, At
  <2>2. Abstract!Send(Current(s))
    BY <1>6, <2>1, SendRefines
  <2>. QED  BY <2>1, <2>2 DEF Abstract!Next
<1>7. ASSUME NEW s \in Senders, SendStep(s), ~SendStore(s)
      PROVE  UNCHANGED Abstract!vars
  <2>1. UNCHANGED <<open, sent, got>>
    BY <1>7 DEF SendStep, SendCheck, SendLink, SendBack, SendMove, SendEnd, SendFill, SendLoad,
                OthersOfSend
  <2>. QED  BY <1>1, <2>1
<1>8. CASE UNCHANGED vars
  BY <1>1, <1>8 DEF vars
<1>. QED  BY <1>2, <1>3, <1>4, <1>5, <1>6, <1>7, <1>8 DEF Next, ReadStep

\* The linked list with its tail pointer and its length implements the bounded
\* FIFO queue of MailQueue, and loses, invents and reorders nothing (mail.c:80-145),
\* as long as no call overlaps another on the mailbox.
THEOREM ListIsQueue == TakeTurns => (Spec => IsMailQueue)
<1>. SUFFICES ASSUME TakeTurns PROVE Spec => IsMailQueue
  OBVIOUS
<1>. DEFINE Waits == Queue = IF open THEN Pending ELSE <<>>
<1>1. Spec => []IInv
  BY IInvHolds
<1>2. IInv => Waits
  BY QueueIs
<1>3. Init => Abstract!Init
  <2>1. Init => open = FALSE /\ sent = <<>> /\ got = <<>> /\ Queue = <<>>
    BY DEF Init, Queue
  <2>. QED  BY <2>1 DEF Abstract!Init
<1>4. IInv /\ Waits /\ Waits' /\ [Next]_vars => [Abstract!Next]_(Abstract!vars)
  BY StepRefines
<1>. HIDE DEF Waits
<1>. QED  BY <1>1, <1>2, <1>3, <1>4, PTL DEF Spec, IsMailQueue, Abstract!Spec

-----------------------------------------------------------------------------
(* The queue *)

\* Moving the head of a queue to the end of what was read keeps the order.
LEMMA MoveHead ==
  ASSUME NEW S, NEW g \in Seq(S), NEW q \in Seq(S), q # <<>>
  PROVE  Append(g, Head(q)) \o Tail(q) = g \o q
<1>. DEFINE h == <<Head(q)>>
<1>1. /\ Head(q) \in S /\ Tail(q) \in Seq(S) /\ h \in Seq(S)
  BY HeadTailProperties
<1>2. h \o Tail(q) = q
  <2>1. /\ Len(q) \in Nat /\ Len(q) >= 1 /\ Len(h) = 1 /\ h[1] = q[1]
        /\ Len(Tail(q)) = Len(q) - 1
        /\ \A i \in 1 .. Len(q) - 1 : Tail(q)[i] = q[i + 1]
    BY HeadTailProperties, EmptySeq, LenProperties
  <2>. HIDE DEF h
  <2>2. /\ h \o Tail(q) \in Seq(S) /\ Len(h \o Tail(q)) = Len(q)
        /\ \A i \in 1 .. Len(q) : (h \o Tail(q))[i] = IF i <= 1 THEN h[i] ELSE Tail(q)[i - 1]
    <3>1. /\ h \o Tail(q) \in Seq(S) /\ Len(h \o Tail(q)) = Len(h) + Len(Tail(q))
          /\ \A i \in 1 .. Len(h) + Len(Tail(q)) : (h \o Tail(q))[i] =
                  IF i <= Len(h) THEN h[i] ELSE Tail(q)[i - Len(h)]
      BY <1>1, ConcatProperties
    <3>2. Len(h) + Len(Tail(q)) = Len(q)
      BY <2>1
    <3>. QED  BY <3>1, <3>2, <2>1
  <2>3. ASSUME NEW i \in 1 .. Len(q)  PROVE (h \o Tail(q))[i] = q[i]
    <3>1. CASE i = 1
      BY <3>1, <2>1, <2>2
    <3>2. CASE i # 1
      <4>1. i - 1 \in 1 .. Len(q) - 1 /\ (i - 1) + 1 = i /\ ~(i <= 1)
        BY <3>2, <2>1
      <4>2. Tail(q)[i - 1] = q[(i - 1) + 1]
        BY <4>1, <2>1
      <4>. QED  BY <4>1, <4>2, <2>2
    <3>. QED  BY <3>1, <3>2
  <2>. QED  BY <2>2, <2>3, SeqEqual
<1>3. Append(g, Head(q)) = g \o h
  BY <1>1, AppendIsConcat
<1>4. (g \o h) \o Tail(q) = g \o (h \o Tail(q))
  BY <1>1, ConcatAssociative
<1>. QED  BY <1>2, <1>3, <1>4

\* Sending at the end of the queue keeps the order too.
LEMMA AppendRight ==
  ASSUME NEW g \in Seq(Mails), NEW q \in Seq(Mails), NEW m \in Mails
  PROVE  Append(g \o q, m) = g \o Append(q, m)
<1>1. g \o q \in Seq(Mails)
  BY ConcatProperties
<1>2. <<m>> \in Seq(Mails)
  OBVIOUS
<1>3. Append(g \o q, m) = (g \o q) \o <<m>> /\ Append(q, m) = q \o <<m>>
  BY <1>1, AppendIsConcat
<1>. QED  BY <1>2, <1>3, ConcatAssociative

\* An empty mailbox, of which nothing was read, had nothing sent to it.
LEMMA EmptyFacts == <<>> \in Seq(Mails) /\ Len(<<>>) = 0 /\ <<>> \o <<>> = <<>>
<1>1. <<>> \in Seq(Mails) /\ Len(<<>>) = 0
  BY EmptySeq
<1>. QED  BY <1>1, ConcatEmptySeq

\* Types and order are kept by every operation.
LEMMA QueueStep ==
  ASSUME MAILBOX_SIZE \in Nat, Abstract!TypeOK, Abstract!Fifo, [Abstract!Next]_(Abstract!vars)
  PROVE  Abstract!TypeOK' /\ Abstract!Fifo'
<1>1. <<>> \in Seq(Mails) /\ Len(<<>>) = 0 /\ <<>> \o <<>> = <<>>
  BY EmptyFacts
<1>2. CASE Abstract!Register \/ Abstract!Destroy
  <2>1. /\ Queue' = <<>> /\ sent' = <<>> /\ got' = <<>> /\ open' \in BOOLEAN
    BY <1>2 DEF Abstract!Register, Abstract!Destroy
  <2>. QED  BY <1>1, <2>1 DEF Abstract!TypeOK, Abstract!Fifo
<1>3. ASSUME NEW m \in Mails, Abstract!Send(m)  PROVE Abstract!TypeOK' /\ Abstract!Fifo'
  <2>1. /\ Queue' = Append(Queue, m) /\ sent' = Append(sent, m) /\ got' = got /\ open' = open
        /\ Len(Queue) < MAILBOX_SIZE
    BY <1>3 DEF Abstract!Send
  <2>2. /\ Queue' \in Seq(Mails) /\ sent' \in Seq(Mails) /\ Len(Queue') = Len(Queue) + 1
        /\ Len(Queue) \in Nat
    BY <2>1, AppendProperties, LenProperties DEF Abstract!TypeOK
  <2>3. sent' = got' \o Queue'
    <3>1. Append(got \o Queue, m) = got \o Append(Queue, m)
      <4>1. got \in Seq(Mails) /\ Queue \in Seq(Mails) /\ m \in Mails
        BY DEF Abstract!TypeOK
      <4>. QED  BY <4>1, AppendRight
    <3>. QED  BY <2>1, <3>1 DEF Abstract!Fifo
  <2>. QED  BY <2>1, <2>2, <2>3 DEF Abstract!TypeOK, Abstract!Fifo
<1>4. CASE Abstract!Read
  <2>1. /\ got' = Append(got, Head(Queue)) /\ Queue' = Tail(Queue) /\ sent' = sent
        /\ open' = open /\ Queue # <<>>
    BY <1>4 DEF Abstract!Read
  <2>2. /\ Head(Queue) \in Mails /\ Queue' \in Seq(Mails) /\ Len(Queue') = Len(Queue) - 1
        /\ Len(Queue) \in Nat
    BY <2>1, HeadTailProperties, EmptySeq, LenProperties DEF Abstract!TypeOK
  <2>3. got' \in Seq(Mails)
    BY <2>1, <2>2, AppendProperties DEF Abstract!TypeOK
  <2>4. sent' = got' \o Queue'
    BY <2>1, MoveHead DEF Abstract!TypeOK, Abstract!Fifo
  <2>. QED  BY <2>1, <2>2, <2>3, <2>4 DEF Abstract!TypeOK, Abstract!Fifo
<1>5. CASE UNCHANGED Abstract!vars
  BY <1>5 DEF Abstract!vars, Abstract!TypeOK, Abstract!Fifo
<1>. QED  BY <1>2, <1>3, <1>4, <1>5 DEF Abstract!Next

\* What is sent to a mailbox is read in the order it was sent, none is lost, none
\* invented, and never more than MAILBOX_SIZE mails wait.
THEOREM MailQueueIsFifo ==
  ASSUME MAILBOX_SIZE \in Nat
  PROVE  Abstract!Spec => [](Abstract!TypeOK /\ Abstract!Fifo)
<1>1. Abstract!Init => Abstract!TypeOK /\ Abstract!Fifo
  <2>1. <<>> \in Seq(Mails) /\ Len(<<>>) = 0 /\ <<>> \o <<>> = <<>>
    BY EmptyFacts
  <2>. SUFFICES ASSUME Abstract!Init  PROVE Abstract!TypeOK /\ Abstract!Fifo
    OBVIOUS
  <2>2. Queue = <<>> /\ sent = <<>> /\ got = <<>> /\ open \in BOOLEAN
    BY DEF Abstract!Init
  <2>. QED  BY <2>1, <2>2 DEF Abstract!TypeOK, Abstract!Fifo
<1>2. Abstract!TypeOK /\ Abstract!Fifo /\ [Abstract!Next]_(Abstract!vars) => Abstract!TypeOK' /\ Abstract!Fifo'
  BY QueueStep
<1>. QED  BY <1>1, <1>2, PTL DEF Abstract!Spec

\* What is sent to a mailbox is read in the order it was sent, none is lost, none
\* invented, and never more than MAILBOX_SIZE mails wait, as long as no call overlaps
\* another: the linked list of mail.c inherits it from the queue that it implements.
THEOREM MailboxIsFifo == TakeTurns => (Spec => []Abstract!Fifo)
<1>1. MAILBOX_SIZE \in Nat
  BY ConstantsAssumption
<1>2. Abstract!Spec => [](Abstract!TypeOK /\ Abstract!Fifo)
  BY <1>1, MailQueueIsFifo
<1>3. TakeTurns => (Spec => Abstract!Spec)
  BY ListIsQueue DEF IsMailQueue
<1>. QED  BY <1>2, <1>3, PTL
=============================================================================
