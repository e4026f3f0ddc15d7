--------------------------- MODULE OtpVerification ---------------------------
(***************************************************************************)
(* The one-time codes that verify a customer's email address               *)
(* (customerAuth.service.js, OtpChallenge.js, otpDelivery.service.js), for *)
(* one address.  Time is counted in ticks of a minute or so, which no      *)
(* request takes from reading the clock to inserting its challenge; the    *)
(* mail may take longer.  The database removes a challenge some time after *)
(* it has expired (the TTL index on expiresAt).                            *)
(***************************************************************************)
EXTENDS Integers, Sequences, FiniteSets

CONSTANTS OtpRequests,
          Cap,            \* OTP.MAX_PER_RECIPIENT_PER_HOUR
          Hour,           \* ticks in an hour
          Cooldown,       \* OTP.RESEND_COOLDOWN_SECONDS, in ticks
          TTL,            \* OTP.TTL_MINUTES, in ticks
          MaxAttempts,    \* OTP.MAX_ATTEMPTS
          LastTick,       \* bound on the clock
          MaxChallenges   \* bound on the codes ever generated

VARIABLES
    clock,
    challenge,   \* the challenge documents, in order of creation; stored says
                 \* whether the document is still there
    otpRequest   \* otpRequest[q]: one POST /auth/otp/request or /verify

\* A code outlives the wait for the next one, and the cap looks back on the
\* whole life of a code.
ASSUME CodesAssumption ==
    /\ Cap \in Nat /\ Hour \in Nat /\ Cooldown \in Nat /\ TTL \in Nat /\ MaxAttempts \in Nat
    /\ Cooldown <= TTL /\ TTL <= Hour

otpVars == <<clock, challenge, otpRequest>>

\* delivered, the send said so; unsaid, the mail left although the send threw;
\* guesses, tokens and the two marks after them: all history.
Challenge(raced) ==
    [stored |-> TRUE, createdAt |-> clock, attempts |-> 0, consumed |-> FALSE,
     delivered |-> FALSE, unsaid |-> FALSE, guesses |-> 0, tokens |-> 0, raced |-> raced,
     abandoned |-> FALSE]

\* The document is gone; when it came and whether it was read remain history.
Gone(c) == [c EXCEPT !.stored = FALSE, !.attempts = 0, !.consumed = FALSE, !.guesses = 0,
                     !.tokens = 0, !.unsaid = FALSE, !.abandoned = FALSE]

ExpiresAt(c) == c.createdAt + TTL

OtpIdle == [pc |-> "idle", of |-> 0, attempts |-> 0, overlapped |-> FALSE]

OtpInit ==
    /\ clock = 0
    /\ challenge = <<>>
    /\ otpRequest = [q \in OtpRequests |-> OtpIdle]

OtpAnswer(q) == otpRequest' = [otpRequest EXCEPT ![q] = OtpIdle]

Stored == { i \in DOMAIN challenge : challenge[i].stored }

Newest(is) == CHOOSE i \in is : \A j \in is : j <= i

-----------------------------------------------------------------------------
(* requestOtp *)

Recent == { i \in Stored : challenge[i].createdAt >= clock - Hour }

CoolingDown == Recent # {} /\ clock - challenge[Newest(Recent)].createdAt < Cooldown

Requesting == { q \in OtpRequests : otpRequest[q].pc \in {"allowed", "deliver", "undo"} }

\* Mutated: one code more than the cap.
OneMore(q) ==
    /\ otpRequest[q].pc = "idle"
    /\ ~CoolingDown
    /\ Cardinality(Recent) <= Cap
    /\ otpRequest' = [p \in OtpRequests |->
            IF p = q THEN [OtpIdle EXCEPT !.pc = "allowed", !.overlapped = Requesting # {}]
            ELSE [otpRequest[p] EXCEPT !.overlapped = @ \/ p \in Requesting]]
    /\ UNCHANGED <<clock, challenge>>

\* The read of the recent challenges, the cooldown and the cap.  What is
\* refused here changes nothing.
RequestReads(q) ==
    /\ otpRequest[q].pc = "idle"
    /\ ~CoolingDown
    /\ Cardinality(Recent) < Cap
    /\ otpRequest' = [p \in OtpRequests |->
            IF p = q THEN [OtpIdle EXCEPT !.pc = "allowed", !.overlapped = Requesting # {}]
            ELSE [otpRequest[p] EXCEPT !.overlapped = @ \/ p \in Requesting]]
    /\ UNCHANGED <<clock, challenge>>

CreateChallenge(q) ==
    /\ otpRequest[q].pc = "allowed"
    /\ Len(challenge) < MaxChallenges
    /\ challenge' = Append(challenge, Challenge(otpRequest[q].overlapped))
    /\ otpRequest' = [otpRequest EXCEPT ![q].pc = "deliver", ![q].of = Len(challenge) + 1]
    /\ UNCHANGED clock

Deliver(q) ==
    /\ otpRequest[q].pc = "deliver"
    /\ challenge' = [challenge EXCEPT ![otpRequest[q].of].delivered = TRUE]
    /\ OtpAnswer(q)
    /\ UNCHANGED clock

\* Mutated: the challenge stays.
LeaveChallenge(q) ==
    /\ otpRequest[q].pc = "deliver"
    /\ OtpAnswer(q)
    /\ UNCHANGED <<clock, challenge>>

\* The send throws, whether or not the server has taken the mail.
DeliverFails(q) ==
    /\ otpRequest[q].pc = "deliver"
    /\ \E left \in BOOLEAN :
        challenge' = [challenge EXCEPT ![otpRequest[q].of].unsaid = left]
    /\ otpRequest' = [otpRequest EXCEPT ![q].pc = "undo"]
    /\ UNCHANGED clock

\* deleteOne, and the customer is told it did not work.
DeleteChallenge(q) ==
    /\ otpRequest[q].pc = "undo"
    /\ challenge' = [challenge EXCEPT ![otpRequest[q].of] = Gone(@)]
    /\ OtpAnswer(q)
    /\ UNCHANGED clock

-----------------------------------------------------------------------------
(* verifyOtp *)

WasReceived(c) == c.delivered \/ c.unsaid

\* History, kept only of codes that no two requests worked on.
OnceMore(c, n) == IF c.raced THEN 0 ELSE n + 1

IsUsable(c) == ~c.consumed /\ ExpiresAt(c) > clock /\ c.attempts < MaxAttempts

\* The newest challenge of the address, whichever code the customer typed.
VerifyReads(q) ==
    LET newest == Newest(Stored) IN
    /\ otpRequest[q].pc = "idle"
    /\ Stored # {}
    /\ IsUsable(challenge[newest])
    /\ otpRequest' = [otpRequest EXCEPT ![q] =
            [OtpIdle EXCEPT !.pc = "matching", !.of = newest,
                         !.attempts = challenge[newest].attempts]]
    /\ challenge' = [challenge EXCEPT ![newest].raced = @ \/
            \E p \in OtpRequests : otpRequest[p].pc = "matching" /\ otpRequest[p].of = newest]
    /\ UNCHANGED clock

\* save() of a document that is gone fails, and the customer gets no token.
\* Only the path that changed is written.
CodeIsWrong(q) ==
    LET i == otpRequest[q].of IN
    /\ otpRequest[q].pc = "matching"
    /\ challenge' = IF challenge[i].stored
                    THEN [challenge EXCEPT ![i].attempts = otpRequest[q].attempts + 1,
                                           ![i].guesses = OnceMore(challenge[i], @)]
                    ELSE challenge
    /\ OtpAnswer(q)
    /\ UNCHANGED clock

\* Mutated: the code is not consumed.
CodeStaysGood(q) ==
    LET i == otpRequest[q].of IN
    /\ otpRequest[q].pc = "matching"
    /\ WasReceived(challenge[i])
    /\ challenge' = IF challenge[i].stored
                    THEN [challenge EXCEPT ![i].tokens = OnceMore(challenge[i], @)]
                    ELSE challenge
    /\ OtpAnswer(q)
    /\ UNCHANGED clock

CodeIsRight(q) ==
    LET i == otpRequest[q].of IN
    /\ otpRequest[q].pc = "matching"
    /\ WasReceived(challenge[i])
    /\ challenge' = IF challenge[i].stored
                    THEN [challenge EXCEPT ![i].consumed = TRUE,
                                           ![i].tokens = OnceMore(challenge[i], @)]
                    ELSE challenge
    /\ OtpAnswer(q)
    /\ UNCHANGED clock

-----------------------------------------------------------------------------
\* The process ends, or a query fails: the code may have left, and is stored
\* with nobody to delete it.
OtpDie(q) ==
    /\ otpRequest[q].pc \in {"allowed", "deliver", "undo"}
    /\ \E left \in {FALSE, otpRequest[q].pc = "deliver"} :
        challenge' = [i \in DOMAIN challenge |->
            IF i = otpRequest[q].of /\ challenge[i].stored
            THEN [challenge[i] EXCEPT !.abandoned = TRUE, !.unsaid = @ \/ left]
            ELSE challenge[i]]
    /\ OtpAnswer(q)
    /\ UNCHANGED clock

\* The TTL monitor, some time after expiresAt.
PurgeChallenge(i) ==
    /\ i \in Stored
    /\ ExpiresAt(challenge[i]) <= clock
    /\ challenge' = [challenge EXCEPT ![i] = Gone(@)]
    /\ UNCHANGED <<clock, otpRequest>>

ClockTicks ==
    /\ clock < LastTick
    /\ \A q \in OtpRequests : otpRequest[q].pc # "allowed"
    /\ clock' = clock + 1
    /\ UNCHANGED <<challenge, otpRequest>>

OtpStep(q) ==
    \/ RequestReads(q) \/ CreateChallenge(q)
    \/ Deliver(q) \/ DeliverFails(q) \/ DeleteChallenge(q)
    \/ VerifyReads(q) \/ CodeIsWrong(q) \/ CodeIsRight(q)
    \/ OtpDie(q)

OtpNext ==
    \/ \E q \in OtpRequests : OtpStep(q)
    \/ \E i \in DOMAIN challenge : PurgeChallenge(i)
    \/ ClockTicks

OtpSpec == OtpInit /\ [][OtpNext]_otpVars

-----------------------------------------------------------------------------
\* Codes of between two ticks whose sending was reported.
DeliveredIn(from, to) ==
    { i \in DOMAIN challenge : challenge[i].delivered /\ challenge[i].createdAt \in from..to }

(* No address is sent more than Cap codes within an hour                   *)
(* (constants.js:169, README.md:284).                                      *)
HourlyCapHolds ==
    \A from \in 0..LastTick : Cardinality(DeliveredIn(from, from + Hour - 1)) <= Cap

(* What does hold of the limits: requests that did not overlap send at     *)
(* most Cap codes in the life of a code, with the cooldown between them    *)
(* (customerAuth.service.js:93-126).  A mail that left although its send   *)
(* threw is not counted, here or by the code, which has deleted its        *)
(* challenge.                                                              *)
InboxIsSpared ==
    LET calm == { i \in DOMAIN challenge : ~challenge[i].raced } IN
    /\ \A from \in 0..LastTick :
        Cardinality(calm \cap DeliveredIn(from, from + TTL - 1)) <= Cap
    /\ \A i, j \in calm : i < j /\ challenge[i].delivered /\ challenge[j].delivered =>
        challenge[j].createdAt - challenge[i].createdAt >= Cooldown

(* A code whose sending was not reported costs the customer none of the    *)
(* Cap, whether it left or not: when its request is over the challenge is  *)
(* gone, unless the process died on it (customerAuth.service.js:137-148).  *)
UndeliveredCostsNothing ==
    \A i \in Stored : ~challenge[i].delivered /\ ~challenge[i].abandoned =>
        \E q \in OtpRequests : otpRequest[q].pc \in {"deliver", "undo"} /\ otpRequest[q].of = i

(* A code that verified once never verifies again, and MaxAttempts wrong   *)
(* guesses burn it: verifications of it one after the other are counted    *)
(* exactly and yield one token (customerAuth.service.js:193-214).          *)
OneTokenPerCode ==
    \A i \in DOMAIN challenge : ~challenge[i].raced =>
        /\ challenge[i].tokens <= 1
        /\ challenge[i].attempts = challenge[i].guesses
        /\ challenge[i].guesses <= MaxAttempts
=============================================================================
