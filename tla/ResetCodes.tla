----------------------------- MODULE ResetCodes -----------------------------
(***************************************************************************)
(* The password reset of one phone number: ForgotPasswordView texts a code *)
(* and VerifyResetCodeView exchanges it for an invite.  The code and two   *)
(* counters live in the Redis cache under keys of that number, each with a *)
(* time to live; a view reads a counter, decides, and writes it in calls   *)
(* of their own, so requests overlap between any two.                      *)
(***************************************************************************)
EXTENDS Accounts

CONSTANTS Number,                 \* the phone number
          MaxAttempts, MaxSends,  \* RESET_CODE_MAX_VERIFY_ATTEMPTS, ..._MAX_SENDS_PER_PHONE_PER_HOUR
          CodeTTL, SendTTL        \* in ticks: ten minutes, an hour

ASSUME ResetConstantsOK ==
  /\ Number \in Phone
  /\ MaxAttempts \in Nat \ {0} /\ MaxSends \in Nat \ {0}
  /\ CodeTTL \in Nat \ {0} /\ SendTTL \in Nat \ {0}

VARIABLES code, attempts, sends,  \* the three cache entries
          call,                   \* the request of either view that each thread serves
          guesses                 \* history: wrong guesses compared with a code in the cache
                                  \* since the counter was cleared, up to one past the cap

resetVars == <<code, attempts, sends, call, guesses>>

Call == [stage : {"idle", "code", "clear", "count", "sms", "compare", "wrong", "burn",
                  "forget", "lookup", "invite"},
         n : Nat, c : Code \cup {None}, u : User \cup {None}]

Quiet == [stage |-> "idle", n |-> 0, c |-> None, u |-> None]

\* A cache entry, and what get() returns for one that is not there or has run out.
Put(v, ttl) == [val |-> v, ttl |-> ttl]
NoCode == Put(None, 0)
Zero == Put(0, 0)

ResetInit ==
  /\ code = NoCode /\ attempts = Zero /\ sends = Zero
  /\ call = [h \in Handler |-> Quiet]
  /\ guesses = 0

Enter(h, k, r) == k \in mix.calls /\ call[h] = Quiet /\ call' = [call EXCEPT ![h] = r]
Then(h, s, r) == call[h].stage = s /\ call' = [call EXCEPT ![h] = r]

-----------------------------------------------------------------------------
\* ForgotPasswordView.post.

\* The lookup of the parent and the read of the counter; what changes in the table
\* between the two might as well change after.
ForgotCount(h) ==
  /\ FirstParent(Number) # None
  /\ sends.val < MaxSends
  /\ Enter(h, "forgot", [Quiet EXCEPT !.stage = "code", !.n = sends.val])
  /\ UNCHANGED <<vars, code, attempts, sends, guesses>>

\* At the limit the answer is the same, and nothing is done.
ForgotRefusedRenews == sends' = Put(sends.val, SendTTL) /\ UNCHANGED <<vars, code, attempts, call, guesses>>
ForgotRefused ==
  /\ "forgot" \in mix.calls
  /\ sends.val >= MaxSends
  /\ UNCHANGED <<vars, resetVars>>

SetCode(h, c) ==
  /\ Then(h, "code", [call[h] EXCEPT !.stage = "clear", !.c = c])
  /\ code' = Put(c, CodeTTL)
  /\ UNCHANGED <<vars, attempts, sends, guesses>>

\* "A fresh code means a fresh attempt budget against it."
ClearAttempts(h) ==
  /\ Then(h, "clear", [call[h] EXCEPT !.stage = "count"])
  /\ attempts' = Zero /\ guesses' = 0
  /\ UNCHANGED <<vars, code, sends>>

CountSend(h) ==
  /\ Then(h, "count", [call[h] EXCEPT !.stage = "sms"])
  /\ sends' = Put(call[h].n + 1, SendTTL)
  /\ UNCHANGED <<vars, code, attempts, guesses>>

TextTheCode(h) ==
  /\ Then(h, "sms", Quiet)
  /\ TextCode(Number, call[h].c)
  /\ UNCHANGED <<code, attempts, sends, guesses>>

-----------------------------------------------------------------------------
\* VerifyResetCodeView.post.

VerifyCount(h) ==
  /\ attempts.val < MaxAttempts
  /\ Enter(h, "verify", [Quiet EXCEPT !.stage = "compare", !.n = attempts.val])
  /\ UNCHANGED <<vars, code, attempts, sends, guesses>>

\* "Too many attempts": refused before anything is written.
VerifyRefusedRenews == attempts' = Put(attempts.val, CodeTTL) /\ UNCHANGED <<vars, code, sends, call, guesses>>
VerifyRefused ==
  /\ "verify" \in mix.calls
  /\ attempts.val >= MaxAttempts
  /\ UNCHANGED <<vars, resetVars>>

\* The stored code, if there is one, against the submitted one; None is never texted.
Right(submitted) == code.val # None /\ submitted = code.val
Compare(h, submitted) ==
  /\ Then(h, "compare", [call[h] EXCEPT !.stage = IF Right(submitted) THEN "burn" ELSE "wrong"])
  /\ guesses' = IF code.val # None /\ ~Right(submitted) /\ guesses <= MaxAttempts
                  THEN guesses + 1 ELSE guesses
  /\ UNCHANGED <<vars, code, attempts, sends>>

CountGuessForAnHour(h) ==
  /\ Then(h, "wrong", Quiet)
  /\ attempts' = Put(call[h].n + 1, SendTTL)
  /\ UNCHANGED <<vars, code, sends, guesses>>
CountGuess(h) ==
  /\ Then(h, "wrong", Quiet)
  /\ attempts' = Put(call[h].n + 1, CodeTTL)
  /\ UNCHANGED <<vars, code, sends, guesses>>

BurnCode(h) ==
  /\ Then(h, "burn", [call[h] EXCEPT !.stage = "forget"])
  /\ code' = NoCode /\ guesses' = 0
  /\ UNCHANGED <<vars, attempts, sends>>

ForgetAttempts(h) ==
  /\ Then(h, "forget", [call[h] EXCEPT !.stage = "lookup"])
  /\ attempts' = Zero
  /\ UNCHANGED <<vars, code, sends, guesses>>

VerifyLookup(h) ==
  /\ Then(h, "lookup", IF FirstParent(Number) = None THEN Quiet
                       ELSE [Quiet EXCEPT !.stage = "invite", !.u = FirstParent(Number)])
  /\ UNCHANGED <<vars, code, attempts, sends, guesses>>

\* The invite whose token is the answer.
VerifyInvite(h, i) ==
  /\ Then(h, "invite", Quiet)
  /\ IssueInvite(call[h].u, i)
  /\ UNCHANGED <<code, attempts, sends, guesses>>

-----------------------------------------------------------------------------
\* An exception or a restart; the cache keeps what it has.  Bound: in the behaviours that
\* have failures.
ResetFails(h) ==
  /\ "fail" \in mix.calls
  /\ call[h] # Quiet
  /\ call' = [call EXCEPT ![h] = Quiet]
  /\ UNCHANGED <<vars, code, attempts, sends, guesses>>

\* Time passes for every entry that has a time to live.
Aged(e, absent) == IF e.ttl <= 1 THEN absent ELSE Put(e.val, e.ttl - 1)
Tick ==
  /\ \E e \in {code, attempts, sends} : e.ttl > 0
  /\ code' = Aged(code, NoCode)
  /\ attempts' = Aged(attempts, Zero)
  /\ sends' = Aged(sends, Zero)
  /\ guesses' = IF code.ttl <= 1 THEN 0 ELSE guesses
  /\ UNCHANGED <<vars, call>>

ResetServe(h) ==
  \/ ClearAttempts(h) \/ CountSend(h) \/ TextTheCode(h)
  \/ CountGuess(h) \/ BurnCode(h) \/ ForgetAttempts(h) \/ VerifyLookup(h)
  \/ \E c \in Code : SetCode(h, c)
  \/ \E c \in Code \cup {None} : Compare(h, c)
  \/ \E i \in Invite : VerifyInvite(h, i)

ResetStep ==
  \/ \E h \in Handler : ForgotCount(h) \/ VerifyCount(h) \/ ResetServe(h) \/ ResetFails(h)
  \/ ForgotRefused \/ VerifyRefused
  \/ Tick

-----------------------------------------------------------------------------
ResetTypeOK ==
  /\ code \in [val : Code \cup {None}, ttl : 0..CodeTTL]
  /\ attempts \in [val : Nat, ttl : 0..CodeTTL]
  /\ sends \in [val : Nat, ttl : 0..SendTTL]
  /\ call \in [Handler -> Call]
  /\ guesses \in Nat

\* views.py:392: "a hard cap on wrong guesses (RESET_CODE_MAX_VERIFY_ATTEMPTS)", as
\* single-use codes are short enough to be tried out.
HardCap == guesses <= MaxAttempts

\* A number that ran out of guesses can be tried again once the counter's time is up,
\* however often it is tried before: a refused request does not renew it.
LockoutEnds == attempts.val >= MaxAttempts ~> attempts.val < MaxAttempts

\* Likewise for the codes of an hour, whose counter each code sent renews.
SendingResumes == sends.val >= MaxSends ~> sends.val < MaxSends
=============================================================================
