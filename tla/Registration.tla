---------------------------- MODULE Registration ----------------------------
(* Passenger registration of one e-mail address: the pending registration and
   the one-time code in Redis, the account in PostgreSQL (auth/app/otp.go,
   register.go, auth/adapter/redis, auth/adapter/postgres/user_repository.go).
   Requests for the same address interleave between their calls. *)
EXTENDS Naturals, FiniteSets

CONSTANTS Registrant,   \* registration requests; each brings its own details
          Resender,     \* requests for another code
          Verifier,     \* verification requests
          NoOne,        \* no value
          MaxAttempts   \* domain.MaxOTPVerificationAttempts

RegistrationConstants ==
  /\ MaxAttempts \in Nat \ {0}
  /\ NoOne \notin Registrant \cup Resender \cup Verifier
                 \cup [by : Registrant \cup {NoOne}, verified : BOOLEAN]
  /\ Registrant \cap Resender = {} /\ Registrant \cap Verifier = {} /\ Resender \cap Verifier = {}

VARIABLES
  account,    \* users row and passenger profile: NoOne or [by, verified]
  pending,    \* the pending registration: whose details
  code,       \* the code stored for the address: who issued it
  attempts,   \* its counter of wrong guesses
  mailed,     \* whether the stored code has reached the mailbox
  form,       \* what each request knows: [pc, guess, value, answer]
  misses,     \* history: per code, wrong guesses made against it
  spent,      \* history: per code, how often it was accepted
  struck,     \* history: codes removed for too many guesses
  mixed       \* history: requests overlapped, or a failed one left its pending record

addressVars == <<account, pending, code, attempts, mailed, form, misses, spent, struck, mixed>>

Issuer == Registrant \cup Resender
Requests == Issuer \cup Verifier
Codes == Issuer \cup {NoOne}

AddressTypeOK ==
  /\ account \in {NoOne} \cup [by : Registrant \cup {NoOne}, verified : BOOLEAN]
  /\ pending \in Registrant \cup {NoOne} /\ code \in Codes /\ attempts \in 0 .. MaxAttempts - 1
  /\ mailed \in BOOLEAN /\ mixed \in BOOLEAN
  /\ form \in [Requests -> [pc : {"idle", "prepare", "put", "look", "code", "send", "undo", "find",
                                "get", "commit", "create", "clean", "done"},
                          guess : Codes, value : Registrant \cup {NoOne}, answer : {"none", "ok"}]]
  /\ misses \in [Issuer -> Nat] /\ spent \in [Issuer -> Nat] /\ struck \subseteq Issuer

\* The address is free, or has an account from before that was never verified.
AddressInit ==
  /\ account \in {NoOne, [by |-> NoOne, verified |-> FALSE]}
  /\ pending = NoOne /\ code = NoOne /\ attempts = 0 /\ mailed = FALSE
  /\ form = [q \in Requests |-> [pc |-> "idle", guess |-> NoOne, value |-> NoOne, answer |-> "none"]]
  /\ misses = [c \in Issuer |-> 0] /\ spent = [c \in Issuer |-> 0] /\ struck = {} /\ mixed = FALSE

codes == <<code, attempts, misses, spent, struck>>

Proceed(q, pc) == form' = [form EXCEPT ![q].pc = pc]

\* A verification is told that it succeeded; what the others are told makes no difference.
Confirm(q) == form' = [form EXCEPT ![q].pc = "done", ![q].answer = "ok"]

\* Another request is between its first and its last call.
Overlap(q) == \E r \in Requests \ {q} : form[r].pc \notin {"idle", "done"}

(***************************************************************************)
(* RegisterPassenger and RequestVerification                               *)
(***************************************************************************)

\* FindByEmail. An unverified account only gets a new code; a verified one is taken.
Register(q) ==
  /\ form[q].pc = "idle"
  /\ IF account = NoOne THEN Proceed(q, "prepare")
     ELSE IF account.verified THEN Proceed(q, "done") ELSE Proceed(q, "code")
  /\ mixed' = (mixed \/ Overlap(q))
  /\ UNCHANGED <<account, pending, codes, mailed>>

\* FindByEmail; any account of the address gets a new code, a verified one too.
RequestVerification(q) ==
  /\ form[q].pc = "idle"
  /\ Proceed(q, IF account # NoOne THEN "code" ELSE "look")
  /\ mixed' = (mixed \/ Overlap(q))
  /\ UNCHANGED <<account, pending, codes, mailed>>

\* pending.Get; an unknown address gets the same answer and no code.
LookPending(q) ==
  /\ form[q].pc = "look"
  /\ IF pending # NoOne THEN Proceed(q, "code") ELSE Proceed(q, "done")
  /\ UNCHANGED <<account, pending, codes, mailed, mixed>>

\* PreparePassenger looks at the account again.
Prepare(q) ==
  /\ form[q].pc = "prepare"
  /\ IF account = NoOne THEN Proceed(q, "put") ELSE Proceed(q, "done")
  /\ UNCHANGED <<account, pending, codes, mailed, mixed>>

\* PendingRegistrationStore.Put.
PutPending(q) ==
  /\ form[q].pc = "put"
  /\ pending' = q /\ form' = [form EXCEPT ![q].pc = "code", ![q].value = q]
  /\ UNCHANGED <<account, codes, mailed, mixed>>

\* (mutant: the counter of the last code stays)
PutKeepsAttempts(q) == code' = q /\ UNCHANGED attempts

\* The put script of the OTP store.
PutScript(q) == code' = q /\ attempts' = 0

PutCode(q) ==
  /\ form[q].pc = "code"
  /\ PutScript(q) /\ mailed' = FALSE /\ Proceed(q, "send")
  /\ UNCHANGED <<account, pending, misses, spent, struck, mixed>>

\* When storing or sending the code fails, a registration takes its pending record back; a
\* verification has lost its code.
GiveUp(q) ==
  IF form[q].pc \in {"code", "send"} /\ form[q].value = q THEN Proceed(q, "undo") ELSE Proceed(q, "done")

\* gateway.Send; the mail may be delivered although the call fails.
Send(q) ==
  /\ form[q].pc = "send"
  /\ mailed' = (mailed \/ code = q)
  /\ Proceed(q, "done") \/ GiveUp(q)
  /\ UNCHANGED <<account, pending, codes, mixed>>

\* A call fails before it has done anything. (One of Redis that is executed and fails is like one
\* that succeeds before the next call, or taking back its record, fails.)
CallFails(q) ==
  /\ form[q].pc \notin {"idle", "undo", "clean", "done"}
  /\ GiveUp(q)
  /\ UNCHANGED <<account, pending, codes, mailed, mixed>>

\* (mutant: the pending record is left)
UndoForgotten(q) ==
  /\ form[q].pc = "undo"
  /\ Proceed(q, "done") /\ UNCHANGED <<account, pending, codes, mailed, mixed>>

\* pending.Delete: by address, whoever's record it is. It may fail too.
Undo(q) ==
  /\ form[q].pc = "undo"
  /\ \E deleted \in BOOLEAN :
       /\ pending' = IF deleted THEN NoOne ELSE pending
       /\ mixed' = (mixed \/ ~deleted)
  /\ Proceed(q, "done")
  /\ UNCHANGED <<account, codes, mailed>>

(***************************************************************************)
(* VerifyPassenger                                                         *)
(***************************************************************************)

\* A wrong guess now is the last one allowed.
Exhausted == code # NoOne /\ attempts + 1 >= MaxAttempts

\* The script deletes the code it accepts, and its counter.
Spend == code' = NoOne /\ attempts' = 0 /\ mailed' = FALSE

\* The consume script, with the code from the mailbox,
RightGuess(q) ==
  /\ code # NoOne /\ mailed
  /\ form' = [form EXCEPT ![q].pc = "find", ![q].guess = code]
  /\ Spend /\ spent' = [spent EXCEPT ![code] = @ + 1]
  /\ UNCHANGED <<misses, struck>>

\* or with another one.
WrongGuess(q) ==
  /\ Proceed(q, "done")
  /\ misses' = [c \in Issuer |-> IF c = code THEN misses[c] + 1 ELSE misses[c]]
  /\ IF Exhausted THEN Spend /\ struck' = struck \cup {code}
     ELSE /\ attempts' = IF code = NoOne THEN 0 ELSE attempts + 1
          /\ UNCHANGED <<code, mailed, struck>>
  /\ UNCHANGED spent

Consume(q) ==
  /\ form[q].pc = "idle"
  /\ RightGuess(q) \/ WrongGuess(q)
  /\ mixed' = (mixed \/ Overlap(q))
  /\ UNCHANGED <<account, pending>>

\* FindByEmail: an account is marked verified (MarkVerified may have been executed and fail),
\* otherwise the pending registration is needed.
FindAccount(q) ==
  /\ form[q].pc = "find"
  /\ IF account # NoOne
     THEN account' = [account EXCEPT !.verified = TRUE] /\ (Confirm(q) \/ GiveUp(q))
     ELSE UNCHANGED account /\ Proceed(q, "get")
  /\ UNCHANGED <<pending, codes, mailed, mixed>>

GetPending(q) ==
  /\ form[q].pc = "get"
  /\ IF pending = NoOne THEN Proceed(q, "done")
     ELSE form' = [form EXCEPT ![q].pc = "commit", ![q].value = pending]
  /\ UNCHANGED <<account, pending, codes, mailed, mixed>>

\* CommitPendingPassenger looks once more,
Commit(q) ==
  /\ form[q].pc = "commit"
  /\ IF account # NoOne THEN Proceed(q, "done") ELSE Proceed(q, "create")
  /\ UNCHANGED <<account, pending, codes, mailed, mixed>>

\* then UserRepository.Create inserts user and profile in one transaction, which the unique
\* index on the address refuses to the second; the answer to its COMMIT may be lost.
Create(q) ==
  /\ form[q].pc = "create"
  /\ IF account # NoOne THEN UNCHANGED account /\ Proceed(q, "done")
     ELSE account' = [by |-> form[q].value, verified |-> TRUE] /\ (Proceed(q, "clean") \/ GiveUp(q))
  /\ UNCHANGED <<pending, codes, mailed, mixed>>

\* pending.Delete; a failure is only logged.
Clean(q) ==
  /\ form[q].pc = "clean"
  /\ pending' \in {NoOne, pending}
  /\ Confirm(q)
  /\ UNCHANGED <<account, codes, mailed, mixed>>

\* Redis expires the records, ten minutes after they were stored.
ExpirePending ==
  pending # NoOne /\ pending' = NoOne /\ UNCHANGED <<account, codes, mailed, form, mixed>>

ExpireCode ==
  /\ code # NoOne /\ Spend
  /\ UNCHANGED <<account, pending, form, misses, spent, struck, mixed>>

AddressNext ==
  \/ \E q \in Registrant : Register(q) \/ Prepare(q) \/ PutPending(q) \/ Undo(q)
  \/ \E q \in Resender : RequestVerification(q) \/ LookPending(q)
  \/ \E q \in Issuer : PutCode(q) \/ Send(q)
  \/ \E q \in Requests : CallFails(q)
  \/ \E q \in Verifier : Consume(q) \/ FindAccount(q) \/ GetPending(q) \/ Commit(q) \/ Create(q) \/ Clean(q)
  \/ ExpirePending \/ ExpireCode

AddressSpec == AddressInit /\ [][AddressNext]_addressVars

(***************************************************************************)
(* Properties                                                              *)
(***************************************************************************)

\* A code is accepted once, however many verifications present it at the same time.
CodeUsedOnce == \A c \in Issuer : spent[c] <= 1

\* A code is struck after exactly MaxAttempts wrong guesses at it: the guesses at an earlier code
\* do not count against it, and no guess beyond the limit is evaluated.
StruckAtLimit ==
  \A c \in Issuer : misses[c] <= MaxAttempts /\ (c \in struck => misses[c] = MaxAttempts)

\* The account has the details of the registration whose code was verified, unless requests for
\* the address overlapped or a registration that failed left its pending record behind.
AccountIsOfItsCode ==
  \A q \in Verifier :
    ~mixed /\ form[q].value # NoOne /\ form[q].guess \in Registrant /\ form[q].answer = "ok"
      => account.by = form[q].guess

\* However verifications, resends and registrations overlap, a code is accepted once and struck
\* after exactly its limit of wrong guesses.
CodesHold == AddressTypeOK /\ CodeUsedOnce /\ StruckAtLimit
=============================================================================
