---------------------------- MODULE AuthSessions ----------------------------
(* Refresh sessions of one account: login, refresh, logout, password reset and
   e-mail change (auth/app/authenticate.go, otp.go, token.go) over the tables
   users and refresh_sessions (auth/adapter/postgres). PostgreSQL runs at READ
   COMMITTED: a statement sees the rows committed when it starts, waits for the
   locks on them, and checks its condition again. *)
EXTENDS Naturals, FiniteSets

CONSTANTS Visitor,          \* requests
          Seed,             \* a session of an earlier login
          Legacy,           \* the stored hash is of the legacy kind
          Ops,              \* what requests may be: subset of {"login", "refresh", "logout", "reset", "email"}
          CallsFail         \* whether revocations and the upgrade of a hash may fail

SessionConstants == Seed \notin Visitor

RevokeAttempts == 3     \* _emailChangeRevokeAttempts

VARIABLES
  hash,      \* users.password_hash: [pw, by], the version of the password and who stored it
  email,     \* users.email, as a version
  sessions,  \* refresh_sessions: id -> [state, pw, root]; an id is the request that created it
  lock,      \* per session: the transaction holding its row, or Seed
  visit,     \* requests
  ended,     \* history: roots of the sessions a successful change should have ended
  slipped    \* history: sessions a rotation committed behind a revocation's back

sessionVars == <<hash, email, sessions, lock, visit, ended, slipped>>

Ids == Visitor \cup {Seed}

\* "grace": rotated, still accepted for 30 seconds; "over": rotated, the grace has passed.
State == {"none", "live", "grace", "over", "dead"}

NoSession == [state |-> "none", pw |-> 0, root |-> Seed]
Idle == [op |-> "none", pc |-> "idle", token |-> Seed, hash |-> [pw |-> 0, by |-> Seed], email |-> 0,
         snap |-> {}, round |-> 0, answer |-> "none"]

Usable(s) == sessions[s].state \in {"live", "grace"}

Hash == [pw : Nat, by : Ids \cup {"legacy"}]

SessionTypeOK ==
  /\ hash \in Hash /\ email \in Nat
  /\ sessions \in [Ids -> [state : State, pw : Nat, root : Ids]]
  /\ lock \in [Ids -> Ids] /\ ended \subseteq Ids /\ slipped \subseteq Ids
  /\ visit \in [Visitor -> [op : Ops \cup {"none"},
                            pc : {"idle", "upgrade", "issue", "recheck", "lock", "commit", "update",
                                  "revoke", "revoking", "done"},
                            token : Ids, hash : Hash, email : Nat, snap : SUBSET Ids,
                            round : 0 .. RevokeAttempts, answer : {"none", "ok", "refused", "failed"}]]

SessionInit ==
  /\ hash = [pw |-> 0, by |-> IF Legacy THEN "legacy" ELSE Seed] /\ email = 0
  /\ sessions = [s \in Ids |-> IF s = Seed THEN [NoSession EXCEPT !.state = "live"] ELSE NoSession]
  /\ lock = [s \in Ids |-> Seed]
  /\ visit = [q \in Visitor |-> Idle] /\ ended = {} /\ slipped = {}

Set(q, r) == visit' = [visit EXCEPT ![q] = r]
Turn(q, pc) == Set(q, [visit[q] EXCEPT !.pc = pc])
End(q, answer) == Set(q, [visit[q] EXCEPT !.pc = "done", !.answer = answer])

(***************************************************************************)
(* Login: execute                                                          *)
(***************************************************************************)

\* FindByEmail and VerifyPassword with the password of this moment; a wrong password, role or
\* account status ends the request here.
Login(q) ==
  /\ visit[q].pc = "idle"
  /\ \/ Set(q, [Idle EXCEPT !.op = "login", !.hash = hash,
                            !.pc = IF hash.by = "legacy" THEN "upgrade" ELSE "issue"])
     \/ Set(q, [Idle EXCEPT !.op = "login", !.pc = "done", !.answer = "refused"])
  /\ UNCHANGED <<hash, email, sessions, lock, ended, slipped>>

\* UpgradePasswordHash, only over the hash that was verified. A failure, with or without the write,
\* is logged and the login goes on with the hash it verified.
Upgrade(q) ==
  LET upgraded == [pw |-> hash.pw, by |-> q]
  IN /\ visit[q].pc = "upgrade"
     /\ \/ hash = visit[q].hash /\ hash' = upgraded
           /\ Set(q, [visit[q] EXCEPT !.pc = "issue", !.hash = upgraded])
        \/ hash = visit[q].hash /\ hash' = upgraded /\ CallsFail /\ Turn(q, "issue")
        \/ (hash # visit[q].hash \/ CallsFail) /\ UNCHANGED hash /\ Turn(q, "issue")
     /\ UNCHANGED <<email, sessions, lock, ended, slipped>>

\* IssueSessionTokens: a new session.
Issue(q) ==
  /\ visit[q].pc = "issue"
  /\ sessions' = [sessions EXCEPT ![q] = [state |-> "live", pw |-> visit[q].hash.pw, root |-> q]]
  /\ Turn(q, "recheck")
  /\ UNCHANGED <<hash, email, lock, ended, slipped>>

\* (mutant: the credentials are not read again)
EnsureSkipped(q) ==
  /\ visit[q].pc = "recheck" /\ End(q, "ok")
  /\ UNCHANGED <<hash, email, sessions, lock, ended, slipped>>

\* ensureCredentialsUnchanged; a failure to read the account counts as a change.
EnsureUnchanged(q) ==
  /\ visit[q].pc = "recheck"
  /\ IF hash = visit[q].hash THEN End(q, "ok") \/ (CallsFail /\ Turn(q, "revoke")) ELSE Turn(q, "revoke")
  /\ UNCHANGED <<hash, email, sessions, lock, ended, slipped>>

(***************************************************************************)
(* Refresh and Logout                                                      *)
(***************************************************************************)

\* A client only holds the tokens of answered requests.
Received(s) == s \in {Seed} \cup {q \in Visitor : visit[q].answer = "ok"}

\* FindActive; the account's status may refuse. The request's clock is read once, so what it
\* finds in its grace counts as active when it comes to rotate.
FindActive(q, s) ==
  /\ visit[q].pc = "idle" /\ Received(s) /\ sessions[s].state # "none"
  /\ \/ Usable(s) /\ Set(q, [Idle EXCEPT !.op = "refresh", !.token = s, !.pc = "lock"])
     \/ Set(q, [Idle EXCEPT !.op = "refresh", !.token = s, !.pc = "done", !.answer = "refused"])
  /\ UNCHANGED <<hash, email, sessions, lock, ended, slipped>>

\* (mutant: the row found before is trusted)
StillActiveTrusted(q) == TRUE

\* GetActiveRefreshSessionForUpdate at the clock of the request.
StillActive(q) ==
  \/ Usable(visit[q].token)
  \/ sessions[visit[q].token].state = "over"

\* Rotate locks the row.
RotateLock(q) ==
  /\ visit[q].pc = "lock" /\ lock[visit[q].token] = Seed
  /\ IF StillActive(q)
     THEN lock' = [lock EXCEPT ![visit[q].token] = q] /\ Turn(q, "commit")
     ELSE UNCHANGED lock /\ End(q, "refused")
  /\ UNCHANGED <<hash, email, sessions, ended, slipped>>

\* Revocations that started and do not see the session s.
Behind(s) == \E r \in Visitor : visit[r].pc = "revoking" /\ s \notin visit[r].snap

\* The old row is revoked with a grace, the replacement inserted, the transaction committed;
\* or it rolls back.
RotateCommit(q) ==
  LET s == visit[q].token
  IN /\ visit[q].pc = "commit"
     /\ lock' = [lock EXCEPT ![s] = Seed]
     /\ \/ /\ sessions' = [sessions EXCEPT ![s].state = IF @ = "live" THEN "grace" ELSE @,
                                           ![q] = [state |-> "live", pw |-> sessions[s].pw, root |-> sessions[s].root]]
           /\ slipped' = IF Behind(q) \/ s \in slipped \/ sessions[s].state = "over"
                         THEN slipped \cup {q} ELSE slipped
           /\ End(q, "ok")
        \/ /\ End(q, "failed") /\ UNCHANGED <<sessions, slipped>>
     /\ UNCHANGED <<hash, email, ended>>

\* Logout: RevokeRefreshSession waits for the row, then revokes it and its grace.
Logout(q, s) ==
  /\ visit[q].pc = "idle" /\ Received(s) /\ lock[s] = Seed
  /\ sessions' = [sessions EXCEPT ![s].state = IF Usable(s) THEN "dead" ELSE @]
  /\ Set(q, [Idle EXCEPT !.op = "logout", !.token = s, !.pc = "done", !.answer = "ok"])
  /\ UNCHANGED <<hash, email, lock, ended, slipped>>

GraceEnds(s) ==
  /\ sessions[s].state = "grace" /\ sessions' = [sessions EXCEPT ![s].state = "over"]
  /\ UNCHANGED <<hash, email, lock, visit, ended, slipped>>

(***************************************************************************)
(* Password reset and e-mail change                                        *)
(***************************************************************************)

\* ResetPasswordForRole with its code consumed: RevokeAll, UpdatePassword, RevokeAll.
Reset(q) ==
  /\ visit[q].pc = "idle"
  /\ Set(q, [Idle EXCEPT !.op = "reset", !.pc = "revoke", !.round = 1])
  /\ UNCHANGED <<hash, email, sessions, lock, ended, slipped>>

\* ConfirmEmailChange with its code consumed.
ConfirmEmailChange(q) ==
  /\ visit[q].pc = "idle"
  /\ Set(q, [Idle EXCEPT !.op = "email", !.pc = "update", !.email = email])
  /\ UNCHANGED <<hash, email, sessions, lock, ended, slipped>>

\* UpdatePassword, or UpdateEmail over the address that was read; then the revocation.
Update(q) ==
  /\ visit[q].pc = "update"
  /\ \/ /\ visit[q].op = "reset"
        /\ hash' = [pw |-> hash.pw + 1, by |-> q] /\ UNCHANGED email
        /\ Set(q, [visit[q] EXCEPT !.pc = "revoke", !.round = 2])
        /\ ended' = ended \cup {sessions[s].root : s \in {x \in Ids : Usable(x)}}
     \/ /\ visit[q].op = "email" /\ visit[q].email = email
        /\ email' = email + 1 /\ UNCHANGED hash
        /\ Set(q, [visit[q] EXCEPT !.pc = "revoke", !.round = 1])
        /\ ended' = ended \cup {sessions[s].root : s \in {x \in Ids : Usable(x)}}
     \/ /\ visit[q].op = "email" /\ visit[q].email # email
        /\ End(q, "refused") /\ UNCHANGED <<hash, email, ended>>
  /\ UNCHANGED <<sessions, lock, slipped>>

\* RevokeUserRefreshSessions starts: the rows it will see.
RevokeAll(q) ==
  /\ visit[q].pc = "revoke"
  /\ Set(q, [visit[q] EXCEPT !.pc = "revoking", !.snap = {s \in Ids : Usable(s)}])
  /\ UNCHANGED <<hash, email, sessions, lock, ended, slipped>>

\* What follows a successful revocation.
AfterRevoke(q) ==
  IF visit[q].op = "login" THEN End(q, "refused")
  ELSE IF visit[q].op = "reset" /\ visit[q].round = 1
       THEN Set(q, [visit[q] EXCEPT !.pc = "update", !.snap = {}])
       ELSE End(q, "ok")

\* The rows seen that still match.
Revokes(q) ==
  sessions' = [s \in Ids |-> IF s \in visit[q].snap /\ Usable(s) THEN [sessions[s] EXCEPT !.state = "dead"] ELSE sessions[s]]

\* The statement has waited for the rotations of its rows.
Revoked(q) ==
  /\ visit[q].pc = "revoking" /\ \A s \in visit[q].snap : lock[s] = Seed
  /\ Revokes(q)
  /\ AfterRevoke(q)
  /\ UNCHANGED <<hash, email, lock, ended, slipped>>

\* The statement fails: a login is refused all the same, a reset fails, an e-mail change tries
\* three times.
RevokeFails(q) ==
  /\ CallsFail /\ visit[q].pc = "revoking"
  /\ IF visit[q].op = "email" /\ visit[q].round < RevokeAttempts
     THEN Set(q, [visit[q] EXCEPT !.pc = "revoke", !.round = @ + 1, !.snap = {}])
     ELSE End(q, IF visit[q].op = "login" THEN "refused" ELSE "failed")
  /\ UNCHANGED <<hash, email, sessions, lock, ended, slipped>>

Begin(q) ==
  \/ "login" \in Ops /\ Login(q)
  \/ "refresh" \in Ops /\ \E s \in Ids : FindActive(q, s)
  \/ "logout" \in Ops /\ \E s \in Ids : Logout(q, s)
  \/ "reset" \in Ops /\ Reset(q)
  \/ "email" \in Ops /\ ConfirmEmailChange(q)

Visit(q) ==
  \/ Begin(q) \/ Upgrade(q) \/ Issue(q) \/ EnsureUnchanged(q) \/ RotateLock(q) \/ RotateCommit(q)
  \/ Update(q) \/ RevokeAll(q) \/ Revoked(q) \/ RevokeFails(q)

SessionNext == (\E q \in Visitor : Visit(q)) \/ (\E s \in Ids : GraceEnds(s))

SessionSpec == SessionInit /\ [][SessionNext]_sessionVars

(***************************************************************************)
(* Properties                                                              *)
(***************************************************************************)

\* No change of the account is under way, and none failed half way.
Settled == \A q \in Visitor : visit[q].op \in {"reset", "email"} => visit[q].pc = "done" /\ visit[q].answer # "failed"

\* "Sessions created by logins that verified the old password ... are removed here; later logins
\* are rejected by the credential recheck": once resets have succeeded, a session whose token a
\* client received belongs to the current password, unless a rotation slipped past.
ResetEndsOldLogins ==
  Settled => \A s \in Ids : Usable(s) /\ Received(s) /\ s \notin slipped => sessions[s].pw = hash.pw

\* A password reset or an e-mail change that succeeded ends every session there was, and
\* whatever a refresh made of it, unless a rotation slipped past.
ChangeEndsSessions ==
  Settled => \A s \in Ids : Usable(s) /\ sessions[s].root \in ended => s \in slipped

\* A revoked token gets no successor: a rotation that found it active looks again.
NoSuccessorOfDead ==
  [][\A q \in Visitor :
       visit[q].op = "refresh" /\ sessions[q].state = "none" /\ sessions'[q].state = "live"
         => sessions[visit[q].token].state # "dead"]_sessionVars

\* However logins, refreshes, resets and e-mail changes interleave, a change of the account ends
\* the sessions there were and no login with the password it replaced keeps one.
OldSessionsEnd == SessionTypeOK /\ ResetEndsOldLogins /\ ChangeEndsSessions

\* The recheck "closes the window where a password reset finishes between the credential check
\* and session issuance": a login that was verified is refused only after a reset.
RefusalNeedsReset ==
  \A q \in Visitor : visit[q].op = "login" /\ visit[q].pc = "revoke" => hash.pw # visit[q].hash.pw
=============================================================================
