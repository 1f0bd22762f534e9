---------------------------- MODULE AccessProofs ----------------------------
(***************************************************************************)
(* Theorems about Access.  Its steps are steps of Accounts or leave the    *)
(* accounts alone, so all that AccountsProofs and SharingProofs show holds *)
(* here too, with codes, tickets and workers running beside.               *)
(***************************************************************************)
EXTENDS Access, SharingProofs

-----------------------------------------------------------------------------
\* Reset codes.

\* A request that is about to text a code has one, and one that is about to create an
\* invite has a user.
ResetInv ==
  /\ ResetTypeOK
  /\ \A h \in Handler : /\ call[h].stage \in {"clear", "count", "sms"} => call[h].c \in Code
                        /\ call[h].stage = "invite" => call[h].u \in User

Fits(r) == /\ r \in Call
           /\ r.stage \in {"clear", "count", "sms"} => r.c \in Code
           /\ r.stage = "invite" => r.u \in User

LEMMA QuietFits == Fits(Quiet)
BY DEF Fits, Quiet, Call

LEMMA ZeroTypes ==
  /\ NoCode \in [val : Code \cup {None}, ttl : 0..CodeTTL]
  /\ Zero \in [val : Nat, ttl : 0..CodeTTL] /\ Zero \in [val : Nat, ttl : 0..SendTTL]
BY ResetConstantsOK DEF NoCode, Zero, Put

LEMMA InitReset == ResetInit => ResetInv
BY QuietFits, ZeroTypes DEF ResetInit, ResetInv, ResetTypeOK, Fits

LEMMA CallStep ==
  ASSUME ResetInv, NEW h \in Handler, NEW r, Fits(r), call' = [call EXCEPT ![h] = r]
  PROVE  /\ call' \in [Handler -> Call]
         /\ \A g \in Handler : Fits(call'[g])
<1>1. \A g \in Handler : Fits(call[g]) /\ call'[g] = IF g = h THEN r ELSE call[g]
  BY DEF ResetInv, ResetTypeOK, Fits
<1>2. \A g \in Handler : Fits(call'[g])
  BY <1>1
<1>3. r \in Call
  BY DEF Fits
<1> QED
  BY <1>2, <1>3 DEF ResetInv, ResetTypeOK

LEMMA AgedTypes ==
  ASSUME NEW V, NEW T \in Nat, NEW e \in [val : V, ttl : 0..T], NEW absent \in [val : V, ttl : 0..T]
  PROVE  Aged(e, absent) \in [val : V, ttl : 0..T]
BY DEF Aged, Put

LEMMA ServeReset ==
  ASSUME ResetInv, NEW h \in Handler, ResetServe(h)
  PROVE  ResetInv'
<1>0. /\ Fits(call[h]) /\ call[h].n + 1 \in Nat
      /\ code \in [val : Code \cup {None}, ttl : 0..CodeTTL]
      /\ attempts \in [val : Nat, ttl : 0..CodeTTL]
      /\ sends \in [val : Nat, ttl : 0..SendTTL]
      /\ guesses \in Nat
  BY DEF ResetInv, ResetTypeOK, Fits, Call
<1>1. ASSUME NEW r, Fits(r), call' = [call EXCEPT ![h] = r],
             code' \in [val : Code \cup {None}, ttl : 0..CodeTTL],
             attempts' \in [val : Nat, ttl : 0..CodeTTL],
             sends' \in [val : Nat, ttl : 0..SendTTL],
             guesses' \in Nat
      PROVE  ResetInv'
  BY <1>1, CallStep DEF ResetInv, ResetTypeOK, Fits
<1>2. \A n \in Nat : /\ Put(n, CodeTTL) \in [val : Nat, ttl : 0..CodeTTL]
                     /\ Put(n, SendTTL) \in [val : Nat, ttl : 0..SendTTL]
  BY ResetConstantsOK DEF Put
<1>3. CASE ClearAttempts(h)
  <2>1. Fits([call[h] EXCEPT !.stage = "count"])
    BY <1>0, <1>3 DEF ClearAttempts, Then, Fits, Call
  <2> QED
    BY <1>0, <1>1, <1>3, <2>1, ZeroTypes DEF ClearAttempts, Then
<1>4. CASE CountSend(h)
  <2>1. Fits([call[h] EXCEPT !.stage = "sms"])
    BY <1>0, <1>4 DEF CountSend, Then, Fits, Call
  <2> QED
    BY <1>0, <1>1, <1>2, <1>4, <2>1 DEF CountSend, Then
<1>5. CASE TextTheCode(h)
  BY <1>0, <1>1, <1>5, QuietFits DEF TextTheCode, Then
<1>6. CASE CountGuess(h)
  <2>1. Put(call[h].n + 1, CodeTTL) \in [val : Nat, ttl : 0..CodeTTL]
    BY <1>0, <1>2, Zenon
  <2> QED
    BY <1>0, <1>1, <1>6, <2>1, QuietFits DEF CountGuess, Then
<1>7. CASE BurnCode(h)
  <2>1. Fits([call[h] EXCEPT !.stage = "forget"])
    BY <1>0 DEF Fits, Call
  <2> QED
    BY <1>0, <1>1, <1>7, <2>1, ZeroTypes DEF BurnCode, Then
<1>8. CASE ForgetAttempts(h)
  <2>1. Fits([call[h] EXCEPT !.stage = "lookup"])
    BY <1>0 DEF Fits, Call
  <2> QED
    BY <1>0, <1>1, <1>8, <2>1, ZeroTypes DEF ForgetAttempts, Then
<1>9. CASE VerifyLookup(h)
  <2> DEFINE r == [Quiet EXCEPT !.stage = "invite", !.u = FirstParent(Number)]
  <2>1. FirstParent(Number) # None => Fits(r)
    BY FirstParentType DEF Fits, Call, Quiet
  <2>2. call' = [call EXCEPT ![h] = Quiet]
        \/ (FirstParent(Number) # None /\ call' = [call EXCEPT ![h] = r])
    BY <1>9 DEF VerifyLookup, Then
  <2> HIDE DEF r
  <2> QED
    BY <1>0, <1>1, <1>9, <2>1, <2>2, QuietFits DEF VerifyLookup
<1>10. ASSUME NEW c \in Code, SetCode(h, c) PROVE ResetInv'
  <2>1. Fits([call[h] EXCEPT !.stage = "clear", !.c = c])
    BY <1>0 DEF Fits, Call
  <2>2. Put(c, CodeTTL) \in [val : Code \cup {None}, ttl : 0..CodeTTL]
    BY ResetConstantsOK DEF Put
  <2> QED
    BY <1>0, <1>1, <1>10, <2>1, <2>2 DEF SetCode, Then
<1>11. ASSUME NEW c \in Code \cup {None}, Compare(h, c) PROVE ResetInv'
  <2> DEFINE s == IF Right(c) THEN "burn" ELSE "wrong"
  <2>1. Fits([call[h] EXCEPT !.stage = s])
    BY <1>0 DEF Fits, Call
  <2>2. guesses' \in Nat
    BY <1>0, <1>11 DEF Compare
  <2> QED
    BY <1>0, <1>1, <1>11, <2>1, <2>2 DEF Compare, Then
<1>12. ASSUME NEW i \in Invite, VerifyInvite(h, i) PROVE ResetInv'
  BY <1>0, <1>1, <1>12, QuietFits DEF VerifyInvite, Then
<1> QED
  BY <1>3, <1>4, <1>5, <1>6, <1>7, <1>8, <1>9, <1>10, <1>11, <1>12 DEF ResetServe

LEMMA StepReset == ResetInv /\ ResetStep => ResetInv'
<1> SUFFICES ASSUME ResetInv, ResetStep PROVE ResetInv'
  OBVIOUS
<1>0. /\ code \in [val : Code \cup {None}, ttl : 0..CodeTTL]
      /\ attempts \in [val : Nat, ttl : 0..CodeTTL]
      /\ sends \in [val : Nat, ttl : 0..SendTTL]
      /\ guesses \in Nat
  BY DEF ResetInv, ResetTypeOK
<1>1. ASSUME NEW h \in Handler, NEW r, Fits(r), call' = [call EXCEPT ![h] = r],
             UNCHANGED <<code, attempts, sends, guesses>>
      PROVE  ResetInv'
  BY <1>0, <1>1, CallStep DEF ResetInv, ResetTypeOK, Fits
<1>2. ASSUME NEW h \in Handler, ForgotCount(h) PROVE ResetInv'
  <2>1. Fits([Quiet EXCEPT !.stage = "code", !.n = sends.val])
    BY <1>0 DEF Fits, Call, Quiet
  <2> QED
    BY <1>1, <1>2, <2>1 DEF ForgotCount, Enter
<1>3. ASSUME NEW h \in Handler, VerifyCount(h) PROVE ResetInv'
  <2>1. Fits([Quiet EXCEPT !.stage = "compare", !.n = attempts.val])
    BY <1>0 DEF Fits, Call, Quiet
  <2> QED
    BY <1>1, <1>3, <2>1 DEF VerifyCount, Enter
<1>4. ASSUME NEW h \in Handler, ResetFails(h) PROVE ResetInv'
  BY <1>1, <1>4, QuietFits DEF ResetFails
<1>5. ASSUME ForgotRefused \/ VerifyRefused PROVE ResetInv'
  BY <1>5 DEF ForgotRefused, VerifyRefused, resetVars, ResetInv, ResetTypeOK
<1>6. ASSUME Tick PROVE ResetInv'
  <2>1. /\ Aged(code, NoCode) \in [val : Code \cup {None}, ttl : 0..CodeTTL]
        /\ Aged(attempts, Zero) \in [val : Nat, ttl : 0..CodeTTL]
        /\ Aged(sends, Zero) \in [val : Nat, ttl : 0..SendTTL]
    BY <1>0, AgedTypes, ZeroTypes, ResetConstantsOK
  <2>2. call' = call /\ guesses' \in Nat
    BY <1>0, <1>6 DEF Tick
  <2> QED
    BY <1>6, <2>1, <2>2 DEF Tick, ResetInv, ResetTypeOK
<1> QED
  BY <1>2, <1>3, <1>4, <1>5, <1>6, ServeReset DEF ResetStep

-----------------------------------------------------------------------------
\* Tickets.

Redeeming(t) == {h \in Handler : redeem[h] = t}

\* Until a ticket is deleted, nobody has got in with it; later only those who had read it.
TicketInv ==
  /\ TicketTypeOK
  /\ TicketsAdmitFew
  /\ \A t \in Ticket : ticket[t] # Gone => admitted[t] = 0

LEMMA InitTickets == TicketInit => TicketInv
<1> SUFFICES ASSUME TicketInit PROVE TicketInv
  OBVIOUS
<1>1. \A t \in Ticket : Redeeming(t) = {}
  BY TicketConstantsOK DEF TicketInit, Redeeming
<1>2. \A t \in Ticket : Cardinality(Redeeming(t)) = 0 /\ admitted[t] = 0
  BY <1>1, FS_EmptySet DEF TicketInit
<1>3. Cardinality(Handler) \in Nat
  BY Threads DEF N
<1>4. TicketsAdmitFew
  BY <1>2, <1>3 DEF TicketsAdmitFew, Redeeming
<1> QED
  BY <1>2, <1>4 DEF TicketInit, TicketInv, TicketTypeOK

\* Tickets that are read or presented by more threads must not have admitted anybody.
LEMMA RedeemStep ==
  ASSUME TicketTypeOK, TicketsAdmitFew, admitted' = admitted,
         \A t \in Ticket : Redeeming(t)' \subseteq Redeeming(t) \/ admitted[t] = 0
  PROVE  TicketsAdmitFew'
<1> SUFFICES ASSUME NEW t \in Ticket
             PROVE  admitted[t] + Cardinality(Redeeming(t)') <= N
  BY DEF TicketsAdmitFew, Redeeming, N
<1>1. Redeeming(t) \subseteq Handler /\ Redeeming(t)' \subseteq Handler
  BY DEF Redeeming
<1>2. /\ IsFiniteSet(Redeeming(t)) /\ Cardinality(Redeeming(t)) \in Nat
      /\ Cardinality(Redeeming(t)') \in Nat /\ N \in Nat /\ Cardinality(Redeeming(t)') <= N
      /\ admitted[t] \in Nat
  BY <1>1, Threads DEF TicketTypeOK
<1>3. admitted[t] + Cardinality(Redeeming(t)) <= N
  BY DEF TicketsAdmitFew, Redeeming, N
<1>4. Redeeming(t)' \subseteq Redeeming(t) => Cardinality(Redeeming(t)') <= Cardinality(Redeeming(t))
  BY <1>2, FS_Subset
<1>5. admitted'[t] = admitted[t]
  OBVIOUS
<1> QED
  BY <1>2, <1>3, <1>4, <1>5

LEMMA StepTickets == TicketInv /\ TicketStep => TicketInv'
<1> SUFFICES ASSUME TicketInv, TicketStep PROVE TicketInv'
  OBVIOUS
<1>0. /\ TicketTypeOK /\ TicketsAdmitFew
      /\ Gone \notin User \cup {None} /\ None \notin User \cup Ticket
  BY AccountsConstantsOK, TicketConstantsOK DEF TicketInv
<1>1. ASSUME NEW t \in Ticket, NEW u \in User, IssueTicket(t, u) PROVE TicketInv'
  <2>1. admitted' = admitted /\ redeem' = redeem /\ ticket' = [ticket EXCEPT ![t] = u] /\ ticket[t] = None
    BY <1>1 DEF IssueTicket
  <2>2. TicketsAdmitFew'
    BY <2>1 DEF TicketInv, TicketsAdmitFew
  <2> QED
    BY <1>0, <2>1, <2>2 DEF TicketInv, TicketTypeOK
<1>2. ASSUME NEW h \in Handler, NEW t \in Ticket, LookUpTicket(h, t) PROVE TicketInv'
  <2>1. /\ redeem' = [redeem EXCEPT ![h] = t] /\ admitted' = admitted /\ ticket' = ticket
        /\ admitted[t] = 0
    BY <1>0, <1>2 DEF LookUpTicket, TicketInv
  <2>2. \A g \in Handler : redeem'[g] = IF g = h THEN t ELSE redeem[g]
    BY <1>0, <2>1 DEF TicketTypeOK
  <2>3. \A s \in Ticket : Redeeming(s)' \subseteq Redeeming(s) \/ admitted[s] = 0
    BY <2>1, <2>2 DEF Redeeming
  <2>4. TicketsAdmitFew'
    BY <1>0, <2>1, <2>3, RedeemStep
  <2> QED
    BY <1>0, <2>1, <2>4 DEF TicketInv, TicketTypeOK
<1>3. ASSUME NEW h \in Handler, Admit(h) PROVE TicketInv'
  <2>1. PICK t \in Ticket : t = redeem[h]
    BY <1>0, <1>3 DEF Admit, TicketTypeOK
  <2>2. /\ redeem' = [redeem EXCEPT ![h] = None] /\ ticket' = [ticket EXCEPT ![t] = Gone]
        /\ admitted' = [admitted EXCEPT ![t] = @ + 1]
    BY <1>3, <2>1 DEF Admit
  <2>3. \A g \in Handler : redeem'[g] = IF g = h THEN None ELSE redeem[g]
    BY <1>0, <2>2 DEF TicketTypeOK
  <2>4. Redeeming(t)' = Redeeming(t) \ {h} /\ h \in Redeeming(t)
    BY <1>0, <2>1, <2>3 DEF Redeeming
  <2>5. \A s \in Ticket : s # t => Redeeming(s)' = Redeeming(s) /\ admitted'[s] = admitted[s]
    BY <1>0, <2>1, <2>2, <2>3 DEF Redeeming, TicketTypeOK
  <2>6. admitted[t] \in Nat /\ admitted'[t] = admitted[t] + 1
    BY <1>0, <2>2 DEF TicketTypeOK
  <2>7. IsFiniteSet(Redeeming(t)) /\ Cardinality(Redeeming(t)) \in Nat /\ N \in Nat
    BY Threads DEF Redeeming
  <2>8. Cardinality(Redeeming(t)') = Cardinality(Redeeming(t)) - 1
    BY <2>4, <2>7, FS_RemoveElement
  <2>9. \A s \in Ticket : admitted[s] + Cardinality(Redeeming(s)) <= N
    BY <1>0 DEF TicketsAdmitFew, Redeeming, N
  <2>10. admitted'[t] + Cardinality(Redeeming(t)') <= N
    BY <2>6, <2>7, <2>8, <2>9
  <2>11. \A s \in Ticket : admitted'[s] + Cardinality(Redeeming(s)') <= N
    BY <2>5, <2>9, <2>10
  <2>12. TicketsAdmitFew'
    BY <2>11 DEF TicketsAdmitFew, Redeeming, N
  <2>13. TicketTypeOK'
    BY <1>0, <2>2 DEF TicketTypeOK
  <2>14. \A s \in Ticket : ticket'[s] # Gone => admitted'[s] = 0
    BY <1>0, <2>2 DEF TicketInv, TicketTypeOK
  <2> QED
    BY <2>12, <2>13, <2>14 DEF TicketInv
<1>4. ASSUME NEW h \in Handler, HandshakeFails(h) PROVE TicketInv'
  <2>1. redeem' = [redeem EXCEPT ![h] = None] /\ admitted' = admitted /\ ticket' = ticket
    BY <1>4 DEF HandshakeFails
  <2>2. \A g \in Handler : redeem'[g] = IF g = h THEN None ELSE redeem[g]
    BY <1>0, <2>1 DEF TicketTypeOK
  <2>3. \A s \in Ticket : Redeeming(s)' \subseteq Redeeming(s)
    BY <1>0, <2>2 DEF Redeeming
  <2>4. TicketsAdmitFew'
    BY <1>0, <2>1, <2>3, RedeemStep
  <2> QED
    BY <1>0, <2>1, <2>4 DEF TicketInv, TicketTypeOK
<1>5. ASSUME NEW t \in Ticket, TicketExpires(t) PROVE TicketInv'
  <2>1. admitted' = admitted /\ redeem' = redeem /\ ticket' = [ticket EXCEPT ![t] = Gone]
    BY <1>5 DEF TicketExpires
  <2>2. TicketsAdmitFew'
    BY <2>1 DEF TicketInv, TicketsAdmitFew
  <2> QED
    BY <1>0, <2>1, <2>2 DEF TicketInv, TicketTypeOK
<1> QED
  BY <1>1, <1>2, <1>3, <1>4, <1>5 DEF TicketStep

-----------------------------------------------------------------------------
\* Deliveries.

\* A message still queued has a try left, and no try delivers it more than once.
DeliveryInv ==
  /\ DeliveryTypeOK
  /\ \A m \in Message : /\ task[m].state = "queued" => task[m].tries <= MaxRetries
                        /\ task[m].taken <= task[m].tries

LEMMA InitDeliveries == DeliveryInit => DeliveryInv
BY DeliveriesConstantsOK DEF DeliveryInit, DeliveryInv, DeliveryTypeOK, Task

LEMMA OneMore ==
  ASSUME NEW M \in Nat, NEW n \in 0..M + 1, NEW j \in 0..M + 1, n <= M, j <= n, NEW k \in {0, 1}
  PROVE  n + 1 \in 0..M + 1 /\ j + k \in 0..M + 1 /\ j + k <= n + 1
OBVIOUS

LEMMA StepDeliveries == DeliveryInv /\ texts \subseteq Message /\ DeliveryStep => DeliveryInv'
<1> SUFFICES ASSUME DeliveryInv, NEW m \in Message, Work(m) \/ WorkerDies(m), m \in texts
             PROVE  DeliveryInv'
  BY DEF DeliveryStep
<1>1. task[m] \in Task /\ task[m].tries \in 0..MaxRetries + 1 /\ task[m].taken \in 0..MaxRetries + 1
  BY DEF DeliveryInv, DeliveryTypeOK, Task
<1>2. /\ task[m].state = "queued"
      /\ task[m].tries <= MaxRetries /\ task[m].taken <= task[m].tries /\ MaxRetries \in Nat
  BY DeliveriesConstantsOK DEF Work, Sent, Raises, WorkerDies, Waiting, DeliveryInv
<1>3. ASSUME NEW r \in Task, task' = [task EXCEPT ![m] = r],
             r.state = "queued" => r.tries <= MaxRetries, r.taken <= r.tries
      PROVE  DeliveryInv'
  BY <1>3 DEF DeliveryInv, DeliveryTypeOK
\* One try more, which delivers or not.
<1>7. ASSUME NEW s \in {"queued", "done", "given up"}, NEW k \in {0, 1}
      PROVE  /\ [task[m] EXCEPT !.state = s, !.tries = @ + 1, !.taken = @ + k] \in Task
             /\ task[m].taken + k <= task[m].tries + 1
  <2>1. /\ task[m].tries + 1 \in 0..MaxRetries + 1 /\ task[m].taken + k \in 0..MaxRetries + 1
        /\ task[m].taken + k <= task[m].tries + 1
    BY <1>1, <1>2, OneMore, Zenon
  <2> QED
    BY <1>1, <2>1 DEF Task
<1>4. CASE Sent(m)
  <2> DEFINE r == [task[m] EXCEPT !.state = "done", !.tries = @ + 1, !.taken = @ + 1]
  <2>1. task' = [task EXCEPT ![m] = r]
    BY <1>4 DEF Sent, DeliveryInv, DeliveryTypeOK
  <2>2. r \in Task /\ r.state = "done" /\ r.taken <= r.tries
    BY <1>1, <1>7 DEF Task
  <2> HIDE DEF r
  <2> QED
    BY <1>3, <2>1, <2>2
<1>5. ASSUME NEW taken \in {0, 1}, Raises(m, taken) PROVE DeliveryInv'
  <2> DEFINE s == IF LastTry(task[m].tries + 1) THEN "given up" ELSE task[m].state
             r == [task[m] EXCEPT !.state = s, !.tries = @ + 1, !.taken = @ + taken]
  <2>1. task' = [task EXCEPT ![m] = r]
    BY <1>5 DEF Raises, DeliveryInv, DeliveryTypeOK
  <2>2. s \in {"given up", "queued"} /\ (s = "queued" => task[m].tries + 1 <= MaxRetries)
    BY <1>1, <1>2 DEF LastTry
  <2> HIDE DEF s
  <2>3. r \in Task /\ r.state = s /\ r.taken <= r.tries /\ r.tries = task[m].tries + 1
    BY <1>1, <1>7, <2>2 DEF Task
  <2> HIDE DEF r
  <2> QED
    BY <1>3, <2>1, <2>2, <2>3
<1>6. CASE WorkerDies(m)
  <2> DEFINE r == [task[m] EXCEPT !.state = "worker died"]
  <2>1. task' = [task EXCEPT ![m] = r]
    BY <1>6 DEF WorkerDies, DeliveryInv, DeliveryTypeOK
  <2>2. r \in Task /\ r.state = "worker died" /\ r.taken <= r.tries
    BY <1>1, <1>2 DEF Task
  <2> HIDE DEF r
  <2> QED
    BY <1>3, <2>1, <2>2
<1> QED
  BY <1>4, <1>5, <1>6 DEF Work

-----------------------------------------------------------------------------
\* The composition.

AccessInv == TypeInv /\ ResetInv /\ TicketInv /\ DeliveryInv

\* A step on codes is one of Accounts that texts a code or creates an invite, or none.
LEMMA ResetStepsAccounts ==
  ASSUME ResetInv, ResetStep
  PROVE  [Next]_vars
<1>1. ASSUME NEW h \in Handler, TextTheCode(h) PROVE Next
  BY <1>1, ResetConstantsOK DEF TextTheCode, Then, ResetInv, Next
<1>2. ASSUME NEW h \in Handler, NEW i \in Invite, VerifyInvite(h, i) PROVE Next
  BY <1>2 DEF VerifyInvite, Then, ResetInv, Next
<1>3. ASSUME NEW h \in Handler, ResetServe(h) PROVE [Next]_vars
  BY <1>1, <1>2, <1>3 DEF ResetServe, ClearAttempts, CountSend, CountGuess, BurnCode,
        ForgetAttempts, VerifyLookup, SetCode, Compare
<1>4. ASSUME NEW h \in Handler, ForgotCount(h) \/ VerifyCount(h) \/ ResetFails(h) PROVE UNCHANGED vars
  BY <1>4 DEF ForgotCount, VerifyCount, ResetFails
<1>5. ForgotRefused \/ VerifyRefused \/ Tick => UNCHANGED vars
  BY DEF ForgotRefused, VerifyRefused, Tick
<1> QED
  BY <1>3, <1>4, <1>5 DEF ResetStep

LEMMA TicketStepsAccounts == TicketStep => UNCHANGED vars
BY DEF TicketStep, IssueTicket, LookUpTicket, Admit, HandshakeFails, TicketExpires

LEMMA DeliveryStepsAccounts == DeliveryStep => UNCHANGED vars
BY DEF DeliveryStep, Work, Sent, Raises, WorkerDies

LEMMA StepsAccounts == ResetInv /\ [AccessNext]_accessVars => [Next]_vars
BY ResetStepsAccounts, TicketStepsAccounts, DeliveryStepsAccounts DEF AccessNext, Next, accessVars

LEMMA InitAccess == AccessInit => AccessInv
BY InitType, InitReset, InitTickets, InitDeliveries DEF AccessInit, AccessInv

LEMMA StepAccess == AccessInv /\ [AccessNext]_accessVars => AccessInv'
<1> SUFFICES ASSUME AccessInv, [AccessNext]_accessVars PROVE AccessInv'
  OBVIOUS
<1>1. TypeInv /\ ResetInv /\ TicketInv /\ DeliveryInv /\ texts \subseteq Message
  BY DEF AccessInv, TypeInv, TypeOK
<1>2. TypeInv'
  BY <1>1, StepsAccounts, StepTypes
<1>3. UNCHANGED resetVars => ResetInv'
  BY <1>1 DEF resetVars, ResetInv, ResetTypeOK
<1>4. UNCHANGED ticketVars => TicketInv'
  BY <1>1 DEF ticketVars, TicketInv, TicketTypeOK, TicketsAdmitFew
<1>5. UNCHANGED task => DeliveryInv'
  BY <1>1 DEF DeliveryInv, DeliveryTypeOK
<1> QED
  BY <1>1, <1>2, <1>3, <1>4, <1>5, StepReset, StepTickets, StepDeliveries
  DEF AccessNext, accessVars, AccessInv

\* Codes, tickets and workers do to the accounts nothing that Accounts does not allow, so
\* every theorem about Spec is one about AccessSpec.
THEOREM AccessImplementsAccounts == AccessSpec => Spec
<1>1. AccessInit => Init
  BY DEF AccessInit
<1>2. AccessInv => ResetInv
  BY DEF AccessInv
<1> QED
  BY <1>1, <1>2, InitAccess, StepAccess, StepsAccounts, PTL DEF AccessSpec, Spec

\* Every variable of the composition keeps its type: no request texts a code it does not
\* have or invites a user it did not find, and no task is tried more often than allowed.
THEOREM AccessTypes == AccessSpec => []AccessTypeOK
<1>1. AccessInv => AccessTypeOK
  BY DEF AccessInv, AccessTypeOK, TypeInv, ResetInv, TicketInv, DeliveryInv
<1> QED
  BY <1>1, InitAccess, StepAccess, PTL DEF AccessSpec

\* One ticket lets in no more sockets than handshakes are served at a time, however many
\* threads there are and however reads, deletions and failures interleave.
THEOREM FewGetIn == AccessSpec => []TicketsAdmitFew
<1>1. AccessInv => TicketsAdmitFew
  BY DEF AccessInv, TicketInv
<1> QED
  BY <1>1, InitAccess, StepAccess, PTL DEF AccessSpec
=============================================================================
