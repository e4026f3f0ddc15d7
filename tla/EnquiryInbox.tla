---------------------------- MODULE EnquiryInbox ----------------------------
(***************************************************************************)
(* One enquiry from a public form: stored, announced by email and by       *)
(* WhatsApp (enquiry.service.js), and worked on by staff who add notes and *)
(* move its status (staffEnquiry.service.js).                              *)
(***************************************************************************)
EXTENDS Integers, Sequences, FiniteSets, SequencesExt

CONSTANTS Staff,      \* updates by staff, one request each
          Statuses,   \* ENUM of enquiry statuses
          New         \* the status an enquiry starts with

VARIABLES
    enquiry,    \* [stored, status, emailed, notes]
    sender,     \* the request that creates it
    emailLeft,  \* whether the mail server took the email (external)
    update,     \* update[s]: one staff request, [pc, status, note, seen]
    trail,      \* the audit rows, [by, from, to, note]
    silent,     \* a staff request ended between its save and its row (history)
    metAtWork   \* two staff requests were at work at once (history)

inboxVars == <<enquiry, sender, emailLeft, update, trail, silent, metAtWork>>

\* A request that leaves the status out, and what an unchanged status records.
NoStatus == "none"

NoUpdate == [pc |-> "idle", status |-> NoStatus, note |-> FALSE, seen |-> NoStatus]

InboxInit ==
    /\ enquiry = [stored |-> FALSE, status |-> New, emailed |-> FALSE, notes |-> <<>>]
    /\ sender = "create"
    /\ emailLeft = FALSE
    /\ update = [s \in Staff |-> NoUpdate]
    /\ trail = <<>>
    /\ silent = FALSE
    /\ metAtWork = FALSE

-----------------------------------------------------------------------------
CreateEnquiry ==
    /\ sender = "create"
    /\ enquiry' = [enquiry EXCEPT !.stored = TRUE]
    /\ sender' = "send"
    /\ UNCHANGED <<emailLeft, update, trail, silent, metAtWork>>

\* Mutated: a send that failed is stamped too.
SendAndStamp ==
    /\ sender = "send"
    /\ emailLeft' \in BOOLEAN
    /\ sender' = "stamp"
    /\ UNCHANGED <<enquiry, update, trail, silent, metAtWork>>

\* A send that throws is logged and goes on to the WhatsApp notice; the server may
\* have taken the email all the same.
SendEmail ==
    /\ sender = "send"
    /\ \/ emailLeft' = TRUE /\ sender' \in {"stamp", "notifyUnstamped"}
       \/ emailLeft' = FALSE /\ sender' = "notify"
    /\ UNCHANGED <<enquiry, update, trail, silent, metAtWork>>

\* emailedAt, the one path that changed; a save that throws is logged too.
StampEmailed ==
    /\ sender = "stamp"
    /\ \/ enquiry' = [enquiry EXCEPT !.emailed = TRUE] /\ sender' = "notify"
       \/ UNCHANGED enquiry /\ sender' = "notifyUnstamped"
    /\ UNCHANGED <<emailLeft, update, trail, silent, metAtWork>>

\* notifyEnquiryReceived swallows its own failure.
Notify ==
    /\ sender \in {"notify", "notifyUnstamped"}
    /\ sender' = IF sender = "notify" THEN "answered" ELSE "answeredUnstamped"
    /\ UNCHANGED <<enquiry, emailLeft, update, trail, silent, metAtWork>>

SenderDies ==
    /\ sender \in {"send", "stamp", "notify", "notifyUnstamped"}
    /\ sender' = "dead"
    /\ UNCHANGED <<enquiry, emailLeft, update, trail, silent, metAtWork>>

-----------------------------------------------------------------------------
AtWork(s) == update[s].pc \in {"read", "saved"}

\* findOrThrow; the previous status is kept for the row.
UpdateReads(s) ==
    /\ update[s].pc = "idle" /\ enquiry.stored
    /\ \E status \in Statuses \cup {NoStatus}, note \in BOOLEAN :
        /\ status # NoStatus \/ note
        /\ update' = [update EXCEPT ![s] =
                [pc |-> "read", status |-> status, note |-> note, seen |-> enquiry.status]]
    /\ metAtWork' = (metAtWork \/ \E p \in Staff : AtWork(p))
    /\ UNCHANGED <<enquiry, sender, emailLeft, trail, silent>>

\* Mutated: an update that does not move the status is taken for a no-op.
SaveMovesOnly(s) ==
    LET u == update[s] IN
    /\ u.pc = "read"
    /\ enquiry' = IF u.status = u.seen THEN enquiry
                  ELSE [enquiry EXCEPT !.notes = IF u.note THEN Append(@, s) ELSE @,
                                       !.status = IF u.status # NoStatus THEN u.status ELSE @]
    /\ update' = [update EXCEPT ![s].pc = "saved"]
    /\ UNCHANGED <<sender, emailLeft, trail, silent, metAtWork>>

\* One save: the note is pushed, the status is set if it differs from the
\* one that was read.
UpdateSaves(s) ==
    LET u == update[s] IN
    /\ u.pc = "read"
    /\ enquiry' = [enquiry EXCEPT
            !.notes = IF u.note THEN Append(@, s) ELSE @,
            !.status = IF u.status \notin {NoStatus, u.seen} THEN u.status ELSE @]
    /\ update' = [update EXCEPT ![s].pc = "saved"]
    /\ UNCHANGED <<sender, emailLeft, trail, silent, metAtWork>>

\* A row for every update, with the status only if it differs from what was read.
UpdateRecords(s) ==
    LET u     == update[s]
        moved == u.status \notin {NoStatus, u.seen}
    IN  /\ u.pc = "saved"
        /\ trail' = Append(trail, [by |-> s, note |-> u.note,
                                   from |-> IF moved THEN u.seen ELSE NoStatus,
                                   to |-> IF moved THEN u.status ELSE NoStatus])
        /\ update' = [update EXCEPT ![s].pc = "done"]
        /\ UNCHANGED <<enquiry, sender, emailLeft, silent, metAtWork>>

\* The save throws, the row cannot be written, or the process ends.
UpdateEnds(s) ==
    /\ AtWork(s)
    /\ silent' = (silent \/ update[s].pc = "saved")
    /\ update' = [update EXCEPT ![s].pc = IF @ = "saved" THEN "done" ELSE "failed"]
    /\ UNCHANGED <<enquiry, sender, emailLeft, trail, metAtWork>>

InboxNext ==
    \/ CreateEnquiry \/ SendEmail \/ StampEmailed \/ Notify \/ SenderDies
    \/ \E s \in Staff :
        UpdateReads(s) \/ UpdateSaves(s) \/ UpdateRecords(s) \/ UpdateEnds(s)

InboxSpec == InboxInit /\ [][InboxNext]_inboxVars

-----------------------------------------------------------------------------
(* emailedAt tells whether the shop was told: it is never set on an email  *)
(* that did not leave, and once the customer was answered an enquiry       *)
(* without it is one nobody was emailed about -- but for the send or the   *)
(* save that failed after the email had left (Enquiry.js:75-76).           *)
FlagTellsWhoWasTold ==
    /\ enquiry.emailed => emailLeft
    /\ sender = "answered" => (enquiry.emailed <=> emailLeft)

(* What staff did on a lead is remembered whatever crosses with it: every  *)
(* update that was saved has its note on the enquiry exactly once, also    *)
(* while the email is still being stamped (staffEnquiry.service.js:109).   *)
(* Where updates took turns, the last row about the status is the status.  *)
WorkIsRemembered ==
    /\ \A s \in Staff :
        Cardinality({ i \in DOMAIN enquiry.notes : enquiry.notes[i] = s }) =
            IF update[s].note /\ update[s].pc \in {"saved", "done"} THEN 1 ELSE 0
    /\ LET moves == { i \in DOMAIN trail : trail[i].to # NoStatus }
       IN  ~metAtWork /\ ~silent /\ (\A s \in Staff : ~AtWork(s)) =>
            enquiry.status = IF moves = {} THEN New ELSE trail[Max(moves)].to
=============================================================================
