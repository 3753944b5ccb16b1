----------------------------- MODULE MailQueue -----------------------------
(***************************************************************************)
(* What a mailbox of kernel/pc/mail.c promises to the processes that use    *)
(* it: a bounded first-in first-out queue that comes into being with        *)
(* Register_mailbox and is lost with Destroy_mailbox.                       *)
(***************************************************************************)
EXTENDS Integers, SequencesExt

CONSTANTS
    Mails,         \* what can be sent
    MAILBOX_SIZE   \* the most that a mailbox holds

VARIABLES
    open,   \* the process has a mailbox
    queue,  \* what waits in it, oldest first
    sent,   \* what was sent to it successfully, in that order
    got     \* what its owner has read, in that order

vars == <<open, queue, sent, got>>

Init ==
    /\ open = FALSE
    /\ queue = <<>>
    /\ sent = <<>>
    /\ got = <<>>

\* A new mailbox is empty, even if an earlier process of this pid had one.
Register ==
    /\ ~open
    /\ open' = TRUE
    /\ queue' = <<>> /\ sent' = <<>> /\ got' = <<>>

\* A full mailbox refuses the mail, which is no step at all.
Send(m) ==
    /\ open
    /\ Len(queue) < MAILBOX_SIZE
    /\ queue' = Append(queue, m)
    /\ sent' = Append(sent, m)
    /\ UNCHANGED <<open, got>>

Read ==
    /\ open
    /\ queue # <<>>
    /\ got' = Append(got, Head(queue))
    /\ queue' = Tail(queue)
    /\ UNCHANGED <<open, sent>>

Destroy ==
    /\ open
    /\ open' = FALSE
    /\ queue' = <<>> /\ sent' = <<>> /\ got' = <<>>

Next == Register \/ (\E m \in Mails : Send(m)) \/ Read \/ Destroy

Spec == Init /\ [][Next]_vars

-----------------------------------------------------------------------------
\* The mailbox loses, invents and reorders nothing, and never holds more than
\* MAILBOX_SIZE mails (SendMail's -1 and the order of the mail list).
Fifo ==
    /\ sent = got \o queue
    /\ Len(queue) <= MAILBOX_SIZE

TypeOK ==
    /\ open \in BOOLEAN
    /\ queue \in Seq(Mails) /\ sent \in Seq(Mails) /\ got \in Seq(Mails)
=============================================================================
