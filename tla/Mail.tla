-------------------------------- MODULE Mail --------------------------------
(***************************************************************************)
(* The mailbox of one pid (kernel/pc/mail.c) statement by statement: the    *)
(* doubly linked list with its head node, the tail pointer and the length,  *)
(* as SendMail, ReadMail and Destroy_mailbox change them.                   *)
(*                                                                         *)
(* SendMail and ReadMail run with interrupts on, so another process may run *)
(* between any two statements; length++ and length-- are a load and a       *)
(* store.  Register_mailbox shows the mailbox to the others only with its   *)
(* last statement, and Destroy_mailbox runs inside the timer interrupt: one *)
(* step each.  kfree is commented out, so no node is ever used again.       *)
(***************************************************************************)
EXTENDS Integers, FiniteSets, SequencesExt

CONSTANTS
    Senders,        \* processes that send to this pid
    Sends,          \* bound of the model: mails per sender
    MAILBOX_SIZE,
    Registrations,  \* bound of the model: processes that have the pid in turn
    TakeTurns       \* no call overlaps another on the same mailbox

ASSUME ConstantsAssumption ==
    /\ IsFiniteSet(Senders) /\ {"head", "nobody"} \cap Senders = {}
    /\ Sends \in Nat /\ MAILBOX_SIZE \in Nat /\ Registrations \in Nat
    /\ TakeTurns \in BOOLEAN

Box  == 1 .. Registrations
Mails == [src : Senders, number : 1 .. Sends]

\* The nodes: the head of a box, and the one that kmalloc returns for a mail.
HeadOf(b) == [src |-> "head", number |-> b]
Node == {HeadOf(b) : b \in Box} \cup Mails
NULL == [src |-> "nobody", number |-> 0]
Junk == [src |-> "nobody", number |-> 1]   \* what kmalloc leaves in a pointer
NoMail == NULL

VARIABLES
    next, previous,  \* the links of each node
    message,         \* src, dst and message of each node
    tail, length,    \* of each box
    box,             \* the box registered last, 0 before
    open,            \* box is in mailbox_tree
    send,            \* sender -> where it is in SendMail
    read,            \* where the owner is in ReadMail
    sent, got,       \* history: mails accepted by and read from the open box
    wild             \* a bad pointer was followed

list == <<next, previous, message, tail, length>>
vars == <<list, box, open, send, read, sent, got, wild>>

SendState == [at : {"idle", "link", "back", "move", "end", "fill", "load", "store"},
              target : Box \cup {0}, load : Int, number : 1 .. Sends + 1]
ReadState == [at : {"idle", "first", "compare", "reset", "copy", "back", "skip", "load", "store"},
              target : Box \cup {0}, load : Int, temp : Node \cup {NULL, Junk}]

\* No sender is inside a call on box b; nor is the owner.
Unsent(b) == \A s \in Senders : send[s].at = "idle" \/ send[s].target # b
Quiet(b) == Unsent(b) /\ (read.at = "idle" \/ read.target # b)

-----------------------------------------------------------------------------
(* Register_mailbox, Destroy_mailbox *)

Register ==
    /\ ~open
    /\ box < Registrations
    /\ box' = box + 1
    /\ open' = TRUE
    /\ next' = [next EXCEPT ![HeadOf(box')] = NULL]
    /\ previous' = [previous EXCEPT ![HeadOf(box')] = NULL]
    /\ tail' = [tail EXCEPT ![box'] = HeadOf(box')]
    /\ length' = [length EXCEPT ![box'] = 0]
    /\ sent' = <<>> /\ got' = <<>>
    /\ UNCHANGED <<message, send, read, wild>>

\* The owner dies, wherever it is; its mails are unlinked one by one from the
\* head, and the box leaves the tree with its tail and its length as they are.
Destroy ==
    /\ open
    /\ TakeTurns => Unsent(box)
    /\ open' = FALSE
    /\ next' = [next EXCEPT ![HeadOf(box)] = NULL]
    /\ read' = [read EXCEPT !.at = "idle"]
    /\ sent' = <<>> /\ got' = <<>>
    /\ UNCHANGED <<previous, message, tail, length, box, send, wild>>

-----------------------------------------------------------------------------
(* SendMail *)

\* The mail the sender is sending, which also names its node.
Current(s) == [src |-> s, number |-> send[s].number]

\* After an access through a bad pointer nothing can be said any more.
At(s, here) == ~wild /\ send[s].at = here
Goto(s, there) == send' = [send EXCEPT ![s].at = there]
End(s) == tail[send[s].target]

\* A store through p: through a bad pointer it is recorded instead.
Follow(p, step) == IF p \in Node THEN step /\ UNCHANGED wild
                   ELSE wild' = TRUE /\ UNCHANGED list

OthersOfSend == <<box, open, read, got>>

\* The checks; a sender that is refused tries again (usr/ps.c).
SendCheck(s) ==
    /\ At(s, "idle")
    /\ send[s].number <= Sends
    /\ open
    /\ length[box] < MAILBOX_SIZE
    /\ TakeTurns => Quiet(box)
    /\ send' = [send EXCEPT ![s].at = "link", ![s].target = box]
    /\ UNCHANGED <<list, wild, sent, OthersOfSend>>

\* tail->next = kmalloc(4096)
SendLink(s) ==
    /\ At(s, "link")
    /\ Follow(End(s), next' = [next EXCEPT ![End(s)] = Current(s)]
                       /\ UNCHANGED <<previous, message, tail, length>>)
    /\ Goto(s, "back")
    /\ UNCHANGED <<sent, OthersOfSend>>

\* tail->next->previous = tail
SendBack(s) ==
    /\ At(s, "back")
    /\ Follow(next[End(s)], previous' = [previous EXCEPT ![next[End(s)]] = End(s)]
                             /\ UNCHANGED <<next, message, tail, length>>)
    /\ Goto(s, "move")
    /\ UNCHANGED <<sent, OthersOfSend>>

\* Variant of SendMove that does not advance the tail.
Bad_SendMove(s) ==
    /\ At(s, "move")
    /\ Goto(s, "end")
    /\ UNCHANGED <<list, wild, sent, OthersOfSend>>

\* tail = tail->next
SendMove(s) ==
    /\ At(s, "move")
    /\ Follow(next[End(s)], tail' = [tail EXCEPT ![send[s].target] = next[End(s)]]
                             /\ UNCHANGED <<next, previous, message, length>>)
    /\ Goto(s, "end")
    /\ UNCHANGED <<sent, OthersOfSend>>

\* Variant of SendEnd that leaves what kmalloc left in the pointer.
Bad_SendEnd(s) ==
    /\ At(s, "end")
    /\ Goto(s, "fill")
    /\ UNCHANGED <<list, wild, sent, OthersOfSend>>

\* tail->next = NULL
SendEnd(s) ==
    /\ At(s, "end")
    /\ next' = [next EXCEPT ![End(s)] = NULL]
    /\ Goto(s, "fill")
    /\ UNCHANGED <<previous, message, tail, length, wild, sent, OthersOfSend>>

\* tail->src, tail->dst, tail->message
SendFill(s) ==
    /\ At(s, "fill")
    /\ message' = [message EXCEPT ![End(s)] = Current(s)]
    /\ Goto(s, "load")
    /\ UNCHANGED <<next, previous, tail, length, wild, sent, OthersOfSend>>

SendLoad(s) ==
    /\ At(s, "load")
    /\ send' = [send EXCEPT ![s].at = "store", ![s].load = length[send[s].target]]
    /\ UNCHANGED <<list, wild, sent, OthersOfSend>>

\* length++ is complete and SendMail returns 0.
SendStore(s) ==
    /\ At(s, "store")
    /\ length' = [length EXCEPT ![send[s].target] = send[s].load + 1]
    /\ sent' = IF open /\ send[s].target = box THEN Append(sent, Current(s)) ELSE sent
    /\ send' = [send EXCEPT ![s].at = "idle", ![s].number = @ + 1]
    /\ UNCHANGED <<next, previous, message, tail, wild, OthersOfSend>>

SendStep(s) == SendCheck(s) \/ SendLink(s) \/ SendBack(s) \/ SendMove(s) \/ SendEnd(s)
                   \/ SendFill(s) \/ SendLoad(s) \/ SendStore(s)

-----------------------------------------------------------------------------
(* ReadMail *)

OthersOfRead == <<box, open, send, sent>>
ReadAt(here) == ~wild /\ read.at = here

ReadCheck ==
    /\ open
    /\ ReadAt("idle")
    /\ length[box] > 0
    /\ TakeTurns => Quiet(box)
    /\ read' = [read EXCEPT !.at = "first", !.target = box]
    /\ UNCHANGED <<list, wild, got, OthersOfRead>>

\* temp = head->next; an empty list is answered with -1.
ReadFirst ==
    /\ ReadAt("first")
    /\ read' = [read EXCEPT !.at = IF next[HeadOf(read.target)] = NULL THEN "idle" ELSE "compare",
                            !.temp = next[HeadOf(read.target)]]
    /\ UNCHANGED <<list, wild, got, OthersOfRead>>

\* Variant of ReadCompare that never resets the tail.
Bad_ReadCompare ==
    /\ ReadAt("compare")
    /\ read' = [read EXCEPT !.at = "copy"]
    /\ UNCHANGED <<list, wild, got, OthersOfRead>>

\* if (temp == tail)
ReadCompare ==
    /\ ReadAt("compare")
    /\ read' = [read EXCEPT !.at = IF read.temp = tail[read.target] THEN "reset" ELSE "copy"]
    /\ UNCHANGED <<list, wild, got, OthersOfRead>>

\* tail = head
ReadReset ==
    /\ ReadAt("reset")
    /\ tail' = [tail EXCEPT ![read.target] = HeadOf(read.target)]
    /\ read' = [read EXCEPT !.at = "copy"]
    /\ UNCHANGED <<next, previous, message, length, wild, got, OthersOfRead>>

\* The message and its sender go to the reader.
ReadCopy ==
    /\ ReadAt("copy")
    /\ IF read.temp \in Node
       THEN got' = Append(got, message[read.temp]) /\ UNCHANGED wild
       ELSE wild' = TRUE /\ UNCHANGED got
    /\ read' = [read EXCEPT !.at = "back"]
    /\ UNCHANGED <<list, OthersOfRead>>

\* if (temp->next != NULL) temp->next->previous = temp->previous
ReadBack ==
    /\ ReadAt("back")
    /\ IF next[read.temp] = NULL THEN UNCHANGED <<list, wild>>
       ELSE Follow(next[read.temp],
                   previous' = [previous EXCEPT ![next[read.temp]] = previous[read.temp]]
                   /\ UNCHANGED <<next, message, tail, length>>)
    /\ read' = [read EXCEPT !.at = "skip"]
    /\ UNCHANGED <<got, OthersOfRead>>

\* temp->previous->next = temp->next
ReadSkip ==
    /\ ReadAt("skip")
    /\ Follow(previous[read.temp],
              next' = [next EXCEPT ![previous[read.temp]] = next[read.temp]]
              /\ UNCHANGED <<previous, message, tail, length>>)
    /\ read' = [read EXCEPT !.at = "load"]
    /\ UNCHANGED <<got, OthersOfRead>>

ReadLoad ==
    /\ ReadAt("load")
    /\ read' = [read EXCEPT !.at = "store", !.load = length[read.target]]
    /\ UNCHANGED <<list, wild, got, OthersOfRead>>

\* length-- is complete and ReadMail returns 0.
ReadStore ==
    /\ ReadAt("store")
    /\ length' = [length EXCEPT ![read.target] = read.load - 1]
    /\ read' = [read EXCEPT !.at = "idle"]
    /\ UNCHANGED <<next, previous, message, tail, wild, got, OthersOfRead>>

ReadStep == ReadCheck \/ ReadFirst \/ ReadCompare \/ ReadReset \/ ReadCopy \/ ReadBack
                \/ ReadSkip \/ ReadLoad \/ ReadStore

-----------------------------------------------------------------------------
Init ==
    /\ next = [n \in Node |-> Junk]
    /\ previous = [n \in Node |-> Junk]
    /\ message = [n \in Node |-> NoMail]
    /\ tail = [b \in Box |-> HeadOf(b)]
    /\ length = [b \in Box |-> 0]
    /\ box = 0
    /\ open = FALSE
    /\ send = [s \in Senders |-> [at |-> "idle", target |-> 0, load |-> 0, number |-> 1]]
    /\ read = [at |-> "idle", target |-> 0, load |-> 0, temp |-> NULL]
    /\ sent = <<>> /\ got = <<>>
    /\ wild = FALSE

Next ==
    \/ Register \/ Destroy \/ ReadStep
    \/ \E s \in Senders : SendStep(s)

Spec == Init /\ [][Next]_vars

\* The scheduler lets every process run again (Sched!NoStarvation).
Fairness == WF_vars(ReadStep) /\ \A s \in Senders : WF_vars(SendStep(s))
FairSpec == Spec /\ Fairness

-----------------------------------------------------------------------------
(* The queue that the list stands for *)

\* The n-th node from the head of box b, NULL behind the end.
Nth(b) ==
    LET nth[n \in 0 .. Cardinality(Mails)] ==
            IF n = 0 THEN HeadOf(b)
            ELSE IF nth[n - 1] \in Node THEN next[nth[n - 1]] ELSE NULL
    IN  nth

\* The mails that ReadMail will find: those in the list, as far as length says
\* that they are complete.
Waiting(b) ==
    LET nth == Nth(b)
    IN  [n \in {k \in 1 .. Cardinality(Mails) :
                   k <= length[b] /\ \A i \in 1 .. k : nth[i] \in Mails} |-> message[nth[n]]]

\* The mail that ReadMail has copied but not yet unlinked is out of the queue.
Copied == open /\ read.target = box /\ read.at \in {"back", "skip"}
Queue == IF ~open THEN <<>>
         ELSE IF Copied THEN Tail(Waiting(box)) ELSE Waiting(box)

Abstract == INSTANCE MailQueue WITH Mails <- Mails, queue <- Queue

-----------------------------------------------------------------------------
(* Properties *)

\* Every variable has its type (mail.h).
TypeOK ==
    /\ next \in [Node -> Node \cup {NULL, Junk}]
    /\ previous \in [Node -> Node \cup {NULL, Junk}]
    /\ message \in [Node -> Mails \cup {NoMail}]
    /\ tail \in [Box -> Node]
    /\ length \in [Box -> 0 .. MAILBOX_SIZE]
    /\ box \in Box \cup {0}
    /\ open \in BOOLEAN
    /\ send \in [Senders -> SendState]
    /\ read \in ReadState
    /\ sent \in Seq(Mails) /\ got \in Seq(Mails)
    /\ wild \in BOOLEAN

\* Neither call follows a null or an uninitialised pointer of the mail list, and all
\* that it reads has its type.
NoWildAccess == TypeOK /\ ~wild

\* The linked list is the bounded FIFO queue of MailQueue.
IsMailQueue == Abstract!Spec

\* Every mail that SendMail accepted is read in the end, unless the owner dies.
SentIsRead ==
    \A m \in Mails : (m \in Range(sent)) ~> (m \in Range(got) \/ ~open)

\* pc_send_mail "sends a message to the process with the given pid, returns 0 on
\* success" (pc.c): what was sent with success is in the list, in the hands of
\* ReadMail, or read.
Listed(b) == {message[n] : n \in {Nth(b)[k] : k \in 1 .. Cardinality(Mails)} \cap Node}
InHand == IF read.at \in {"compare", "reset", "copy"} /\ read.temp \in Node
          THEN {message[read.temp]} ELSE {}
SentIsKept == open /\ ~wild => Range(sent) \subseteq Range(got) \cup Listed(box) \cup InHand
=============================================================================
