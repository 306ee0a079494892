---------------------------- MODULE Access_proofs ----------------------------
(***************************************************************************)
(* Theorems about AdminAccess, for any number of browsers, accounts and    *)
(* passwords, and about ShareLink, for any number of tabs, viewers and     *)
(* admins; and for any lengths of the windows of both.                     *)
(***************************************************************************)
EXTENDS AdminAccess, ShareLink, FiniteSetTheorems, TLAPS

-----------------------------------------------------------------------------
(* Users and sessions.                                                      *)

(* The parts of the invariant.                                              *)

\* A request: one under way is somebody's.
Visits ==
    {v \in [pc : {"idle", "row", "verify", "state", "fill", "act", "write", "forget"},
           user : User \cup {Nobody}, password : Passwords,
           start : Instant, yes : BOOLEAN, write : Write] :
       v.pc # "idle" => v.user \in User}

\* The types of what the theorems are about: all but the limiter's buckets.
AccessTyped ==
    /\ tick \in Instant
    /\ account \in [User -> Row]
    /\ cookie \in [Browser -> User \cup {Nobody}]
    /\ state \in [User -> [expires : -1..(LastTick + UserStateTTL), enabled : BOOLEAN]]
    /\ visit \in [Browser -> Visits]
    /\ enabledAt \in [User -> Instant]

\* A write the owner is subject to neither disables nor deletes him.
OwnerSafe ==
    /\ OwnerStays
    /\ \A b \in Browser : (visit[b].pc = "write" /\ visit[b].user = Owner) =>
                            visit[b].write \notin {"disable", "delete"}

\* enabledAt is what its comment says.
EnabledAtOK ==
    \A u \in User : enabledAt[u] <= tick /\ (Enabled(u) => enabledAt[u] = tick)

\* No query is older than a query may be.
QueriesEnd ==
    \A b \in Browser : visit[b].pc \in {"state", "fill"} =>
                         visit[b].start <= tick /\ tick - visit[b].start <= SlowQuery

\* What a query or the cache says of a user held when the query began, or later.
AnswersHeld ==
    /\ \A b \in Browser : (visit[b].pc = "fill" /\ visit[b].yes) =>
                            visit[b].start <= enabledAt[visit[b].user]
    /\ \A u \in User : state[u].enabled => state[u].expires - UserStateTTL <= enabledAt[u]

Grace == AccessTyped /\ EnabledAtOK /\ QueriesEnd /\ AnswersHeld /\ RevocationIsPrompt

AccessSteps(b) ==
    \/ Attempt(b) \/ ReadRow(b) \/ Verify(b) \/ Logout(b)
    \/ Ask(b) \/ ReadState(b) \/ FillState(b) \/ Serve(b)
    \/ CreateUser(b) \/ ResetPassword(b) \/ ReadCurrent(b) \/ WriteUser(b) \/ Forget(b)

-----------------------------------------------------------------------------
(* Types.                                                                   *)

(* The constants the records are made of.                                   *)
LEMMA AccessConstants ==
    /\ LastTick \in Nat /\ UserStateTTL \in Nat /\ SlowQuery \in Nat
    /\ UserStateTTL > 0 /\ 0 \in Passwords /\ Owner \in User /\ Nobody \notin User
    /\ Owner \notin Staff /\ Staff \subseteq User
BY AccessAssumption DEF User

(* An idle request has a request's type, and so has any made from it.       *)
LEMMA RelaxedType ==
    /\ Relaxed \in Visits /\ Relaxed.pc = "idle"
    /\ \A u \in User, p \in Passwords :
         [Relaxed EXCEPT !.pc = "row", !.user = u, !.password = p] \in Visits
    /\ \A u \in User, t \in Instant :
         [Relaxed EXCEPT !.pc = "state", !.user = u, !.start = t] \in Visits
    /\ \A u \in User, e \in BOOLEAN : Admitted(u, e) \in Visits
    /\ \A u \in User, w \in Write :
         [Relaxed EXCEPT !.pc = "write", !.user = u, !.write = w] \in Visits
<1>1. 0 \in Instant /\ 0 \in Passwords /\ "rename" \in Write /\ User \subseteq User \cup {Nobody}
  BY AccessConstants DEF Instant, Write
<1>2. Relaxed \in Visits /\ Relaxed.pc = "idle"
  BY <1>1 DEF Relaxed, Visits
<1>3. \A u \in User, p \in Passwords :
         [Relaxed EXCEPT !.pc = "row", !.user = u, !.password = p] \in Visits
  BY <1>1 DEF Relaxed, Visits
<1>4. \A u \in User, t \in Instant :
         [Relaxed EXCEPT !.pc = "state", !.user = u, !.start = t] \in Visits
  BY <1>1 DEF Relaxed, Visits
<1>5. \A u \in User, e \in BOOLEAN : Admitted(u, e) \in Visits
  BY <1>1 DEF Relaxed, Visits, Admitted
<1>6. \A u \in User, w \in Write :
         [Relaxed EXCEPT !.pc = "write", !.user = u, !.write = w] \in Visits
  BY <1>1 DEF Relaxed, Visits
<1>7. QED
  BY <1>2, <1>3, <1>4, <1>5, <1>6

(* What a write leaves of a row.                                            *)
LEMMA WrittenRow ==
    ASSUME NEW row \in Row, NEW w
    PROVE  /\ Written(row, w) \in Row
           /\ Written(row, w).here <=> w # "delete"
           /\ w # "disable" /\ row.enabled => Written(row, w).enabled
<1>1. CASE w = "disable"
  BY <1>1 DEF Written, Row
<1>2. CASE w = "enable"
  BY <1>2 DEF Written, Row
<1>3. CASE w \notin {"disable", "enable"}
  BY <1>3 DEF Written, Row
<1>4. QED
  BY <1>1, <1>2, <1>3

(* A request replaced by a well-formed one leaves the requests well formed. *)
LEMMA VisitTyped ==
    ASSUME visit \in [Browser -> Visits], NEW b \in Browser, NEW v \in Visits, Visit(b, v)
    PROVE  visit' \in [Browser -> Visits]
BY DEF Visit

(* The first state is typed.                                                *)
LEMMA AccessTypedInit == AccessInit => AccessTyped
<1> SUFFICES ASSUME AccessInit PROVE AccessTyped
  OBVIOUS
<1>1. tick \in Instant /\ enabledAt \in [User -> Instant]
  BY AccessConstants DEF AccessInit, Instant
<1>2. account \in [User -> Row] /\ cookie \in [Browser -> User \cup {Nobody}]
  BY AccessConstants DEF AccessInit, Row
<1>3. state \in [User -> [expires : -1..(LastTick + UserStateTTL), enabled : BOOLEAN]]
  BY AccessConstants DEF AccessInit, NoState
<1>4. visit \in [Browser -> Visits]
  BY RelaxedType DEF AccessInit
<1>5. QED
  BY <1>1, <1>2, <1>3, <1>4 DEF AccessTyped

(* A step of a login keeps the types.                                       *)
LEMMA AccessTypedLogin ==
    ASSUME AccessTyped, NEW b \in Browser, Attempt(b) \/ ReadRow(b) \/ Verify(b) \/ Logout(b)
    PROVE  AccessTyped'
<1>1. CASE Attempt(b)
  <2>1. PICK v \in Visits : Visit(b, v)
    BY <1>1, RelaxedType DEF Attempt
  <2>2. visit' \in [Browser -> Visits]
    BY <2>1, VisitTyped DEF AccessTyped
  <2>3. QED
    BY <1>1, <2>2 DEF AccessTyped, Attempt, LoginSame
<1>2. CASE ReadRow(b)
  <2>1. PICK e \in BOOLEAN : Visit(b, [visit[b] EXCEPT !.pc = "verify", !.yes = e])
    BY <1>2 DEF ReadRow, Enabled, AccessTyped, Row, Visits
  <2>2. [visit[b] EXCEPT !.pc = "verify", !.yes = e] \in Visits
    BY <1>2 DEF AccessTyped, Visits, ReadRow
  <2>3. visit' \in [Browser -> Visits]
    BY <2>1, <2>2, VisitTyped DEF AccessTyped
  <2>4. QED
    BY <1>2, <2>3 DEF AccessTyped, ReadRow, LoginSame
<1>3. CASE Verify(b)
  <2>1. visit' \in [Browser -> Visits]
    BY <1>3, RelaxedType, VisitTyped DEF AccessTyped, Verify
  <2>2. visit[b].user \in User
    BY <1>3 DEF Verify, AccessTyped, Visits
  <2>3. QED
    BY <1>3, <2>1, <2>2 DEF AccessTyped, Verify, LoginSame
<1>4. CASE Logout(b)
  BY <1>4 DEF AccessTyped, Logout, LoginSame
<1>5. QED
  BY <1>1, <1>2, <1>3, <1>4

(* A step of the live check keeps the types.                                *)
LEMMA AccessTypedCheck ==
    ASSUME AccessTyped, NEW b \in Browser, Ask(b) \/ ReadState(b) \/ FillState(b)
    PROVE  AccessTyped'
<1>1. CASE Ask(b)
  <2>1. cookie[b] \in User
    BY <1>1 DEF Ask, AccessTyped
  <2>2. PICK v \in Visits : Visit(b, v)
    BY <1>1, <2>1, RelaxedType DEF Ask, AccessTyped
  <2>3. visit' \in [Browser -> Visits]
    BY <2>2, VisitTyped DEF AccessTyped
  <2>4. QED
    BY <1>1, <2>3 DEF AccessTyped, Ask, CheckSame
<1>2. CASE ReadState(b)
  <2>1. visit[b].user \in User
    BY <1>2 DEF ReadState, AccessTyped, Visits
  <2>2. PICK e \in BOOLEAN : Visit(b, [visit[b] EXCEPT !.pc = "fill", !.yes = e])
    BY <1>2, <2>1 DEF ReadState, Enabled, AccessTyped, Row
  <2>3. [visit[b] EXCEPT !.pc = "fill", !.yes = e] \in Visits
    BY <2>1 DEF AccessTyped, Visits
  <2>4. visit' \in [Browser -> Visits]
    BY <2>2, <2>3, VisitTyped DEF AccessTyped
  <2>5. QED
    BY <1>2, <2>4 DEF AccessTyped, ReadState, CheckSame
<1>3. CASE FillState(b)
  <2>1. /\ visit[b].user \in User /\ visit[b].yes \in BOOLEAN
        /\ visit[b].start \in Instant
    BY <1>3 DEF FillState, AccessTyped, Visits
  <2>2. visit[b].start + UserStateTTL \in -1..(LastTick + UserStateTTL)
    BY <2>1, AccessConstants DEF Instant
  <2>3. visit' \in [Browser -> Visits]
    BY <1>3, <2>1, RelaxedType, VisitTyped DEF AccessTyped, FillState
  <2>4. QED
    BY <1>3, <2>1, <2>2, <2>3 DEF AccessTyped, FillState, CheckSame
<1>4. QED
  BY <1>1, <1>2, <1>3

(* A step of user management, or a page served, keeps the types.            *)
LEMMA AccessTypedManage ==
    ASSUME AccessTyped, NEW b \in Browser,
           \/ Serve(b) \/ CreateUser(b) \/ ResetPassword(b)
           \/ ReadCurrent(b) \/ WriteUser(b) \/ Forget(b)
    PROVE  AccessTyped'
<1>1. CASE Serve(b)
  BY <1>1, RelaxedType, VisitTyped DEF AccessTyped, Serve, ActSame
<1>2. CASE CreateUser(b)
  <2>1. visit' \in [Browser -> Visits]
    BY <1>2, RelaxedType, VisitTyped DEF AccessTyped, CreateUser
  <2>2. account' \in [User -> Row] /\ enabledAt' \in [User -> Instant]
    BY <1>2, AccessConstants DEF AccessTyped, CreateUser, Put, Row
  <2>3. QED
    BY <1>2, <2>1, <2>2 DEF AccessTyped, CreateUser, ActSame
<1>3. CASE ResetPassword(b)
  <2>1. visit' \in [Browser -> Visits]
    BY <1>3, RelaxedType, VisitTyped DEF AccessTyped, ResetPassword
  <2>2. account' \in [User -> Row] /\ enabledAt' \in [User -> Instant]
    BY <1>3 DEF AccessTyped, ResetPassword, Put, Row
  <2>3. QED
    BY <1>3, <2>1, <2>2 DEF AccessTyped, ResetPassword, ActSame
<1>4. CASE ReadCurrent(b)
  <2>1. visit' \in [Browser -> Visits]
    BY <1>4, RelaxedType, VisitTyped DEF AccessTyped, ReadCurrent
  <2>2. QED
    BY <1>4, <2>1 DEF AccessTyped, ReadCurrent, ActSame
<1>5. CASE WriteUser(b)
  <2>1. [visit[b] EXCEPT !.pc = "forget"] \in Visits /\ visit[b].user \in User
    BY <1>5 DEF WriteUser, AccessTyped, Visits
  <2>2. visit' \in [Browser -> Visits]
    BY <1>5, <2>1, RelaxedType, VisitTyped DEF AccessTyped, WriteUser
  <2>3. account' \in [User -> Row] /\ enabledAt' \in [User -> Instant]
    BY <1>5, <2>1, WrittenRow DEF AccessTyped, WriteUser, Put
  <2>4. QED
    BY <1>5, <2>2, <2>3 DEF AccessTyped, WriteUser, ActSame
<1>6. CASE Forget(b)
  <2>1. visit' \in [Browser -> Visits]
    BY <1>6, RelaxedType, VisitTyped DEF AccessTyped, Forget
  <2>2. NoState \in [expires : -1..(LastTick + UserStateTTL), enabled : BOOLEAN]
    BY AccessConstants DEF NoState
  <2>3. QED
    BY <1>6, <2>1, <2>2 DEF AccessTyped, Forget, ActSame
<1>7. QED
  BY <1>1, <1>2, <1>3, <1>4, <1>5, <1>6

(* The clock keeps the types.                                               *)
LEMMA AccessTypedPass == ASSUME AccessTyped, Pass PROVE AccessTyped'
BY AccessConstants DEF AccessTyped, Pass, Instant

(* Every step keeps the types.                                              *)
LEMMA AccessTypedStep == AccessTyped /\ [AccessNext]_accessVars => AccessTyped'
<1> SUFFICES ASSUME AccessTyped, [AccessNext]_accessVars PROVE AccessTyped'
  OBVIOUS
<1>1. ASSUME NEW b \in Browser, AccessSteps(b) PROVE AccessTyped'
  BY <1>1, AccessTypedLogin, AccessTypedCheck, AccessTypedManage DEF AccessSteps
<1>2. CASE Pass
  BY <1>2, AccessTypedPass
<1>3. CASE UNCHANGED accessVars
  BY <1>3 DEF AccessTyped, accessVars
<1>4. QED
  BY <1>1, <1>2, <1>3 DEF AccessNext, AccessSteps

-----------------------------------------------------------------------------
(* The owner.                                                               *)

(* A step of one request leaves the owner in, whoever else writes his row.  *)
LEMMA OwnerStep == AccessTyped /\ OwnerSafe /\ [AccessNext]_accessVars => OwnerSafe'
<1> SUFFICES ASSUME AccessTyped, OwnerSafe, [AccessNext]_accessVars PROVE OwnerSafe'
  OBVIOUS
<1> DEFINE Harmless(v) ==
      (v.pc = "write" /\ v.user = Owner) => v.write \notin {"disable", "delete"}
<1>1. ASSUME NEW b \in Browser, NEW v, Visit(b, v), Harmless(v)
      PROVE  \A c \in Browser : Harmless(visit'[c])
  BY <1>1 DEF Visit, AccessTyped, OwnerSafe
<1>2. \A v : v.pc # "write" => Harmless(v)
  OBVIOUS
<1>3. ASSUME NEW b \in Browser, ReadCurrent(b) PROVE OwnerSafe'
  <2>1. PICK u \in User, w \in Write :
          ~Refused(u, w) /\ Visit(b, [Relaxed EXCEPT !.pc = "write", !.user = u, !.write = w])
    BY <1>3 DEF ReadCurrent
  <2>2. Harmless([Relaxed EXCEPT !.pc = "write", !.user = u, !.write = w])
    BY <2>1 DEF Refused, Relaxed
  <2>3. \A c \in Browser : Harmless(visit'[c])
    BY <1>1, <2>1, <2>2
  <2>4. QED
    BY <1>3, <2>3 DEF ReadCurrent, OwnerSafe, OwnerStays, Enabled
<1>4. ASSUME NEW b \in Browser, WriteUser(b) PROVE OwnerSafe'
  <2>1. \A c \in Browser : Harmless(visit'[c])
    <3>1. Harmless(Relaxed) /\ Harmless([visit[b] EXCEPT !.pc = "forget"])
      BY <1>4 DEF WriteUser, AccessTyped, Visits, Relaxed
    <3>2. QED
      BY <1>4, <1>1, <3>1 DEF WriteUser
  <2>2. CASE visit[b].user = Owner /\ account[Owner].here
    <3>1. account'[Owner] = Written(account[Owner], visit[b].write)
      BY <1>4, <2>2, AccessConstants DEF WriteUser, Put, AccessTyped
    <3>2. account[Owner] \in Row /\ account[Owner].enabled
      BY AccessConstants DEF AccessTyped, OwnerSafe, OwnerStays, Enabled
    <3>3. visit[b].write \notin {"disable", "delete"}
      BY <1>4, <2>2 DEF OwnerSafe, WriteUser
    <3>4. Enabled(Owner)'
      BY <3>1, <3>2, <3>3, WrittenRow DEF Enabled
    <3>5. QED
      BY <2>1, <3>4 DEF OwnerSafe, OwnerStays
  <2>3. CASE ~(visit[b].user = Owner /\ account[Owner].here)
    <3>1. account'[Owner] = account[Owner]
      BY <1>4, <2>3, AccessConstants DEF WriteUser, Put, AccessTyped
    <3>2. QED
      BY <2>1, <3>1 DEF OwnerSafe, OwnerStays, Enabled
  <2>4. QED
    BY <2>2, <2>3
<1>5. ASSUME NEW b \in Browser, CreateUser(b) \/ ResetPassword(b) PROVE OwnerSafe'
  <2>1. \A c \in Browser : Harmless(visit'[c])
    BY <1>5, <1>1 DEF CreateUser, ResetPassword, Relaxed
  <2>2. Enabled(Owner)'
    BY <1>5, AccessConstants
       DEF CreateUser, ResetPassword, Put, AccessTyped, Row, OwnerSafe, OwnerStays, Enabled
  <2>3. QED
    BY <2>1, <2>2 DEF OwnerSafe, OwnerStays
<1>6. ASSUME NEW b \in Browser, Attempt(b) \/ ReadRow(b) \/ Verify(b)
      PROVE  OwnerSafe'
  <2>1. Visit(b, visit'[b]) /\ visit'[b].pc # "write"
    <3>1. CASE Attempt(b)
      BY <3>1 DEF Attempt, Visit, Relaxed, AccessTyped
    <3>2. CASE ReadRow(b)
      BY <3>2 DEF ReadRow, Visit, AccessTyped, Visits
    <3>3. CASE Verify(b)
      BY <3>3 DEF Verify, Visit, Relaxed, AccessTyped
    <3>4. QED
      BY <1>6, <3>1, <3>2, <3>3
  <2>2. QED
    BY <1>1, <1>2, <1>6, <2>1
       DEF Attempt, ReadRow, Verify, LoginSame, OwnerSafe, OwnerStays, Enabled
<1>7. ASSUME NEW b \in Browser, Ask(b) \/ ReadState(b) \/ FillState(b)
      PROVE  OwnerSafe'
  <2>1. Visit(b, visit'[b]) /\ visit'[b].pc # "write"
    <3>1. CASE Ask(b)
      BY <3>1 DEF Ask, Visit, Admitted, Relaxed, AccessTyped
    <3>2. CASE ReadState(b)
      BY <3>2 DEF ReadState, Visit, AccessTyped, Visits
    <3>3. CASE FillState(b)
      BY <3>3 DEF FillState, Visit, Admitted, Relaxed, AccessTyped
    <3>4. QED
      BY <1>7, <3>1, <3>2, <3>3
  <2>2. QED
    BY <1>1, <1>2, <1>7, <2>1
       DEF Ask, ReadState, FillState, CheckSame, OwnerSafe, OwnerStays, Enabled
<1>8. ASSUME NEW b \in Browser, Serve(b) \/ Forget(b) PROVE OwnerSafe'
  BY <1>1, <1>8 DEF Serve, Forget, ActSame, Relaxed, OwnerSafe, OwnerStays, Enabled
<1>9. CASE Pass \/ UNCHANGED accessVars \/ \E b \in Browser : Logout(b)
  BY <1>9 DEF Pass, accessVars, Logout, LoginSame, OwnerSafe, OwnerStays, Enabled
<1>10. QED
  BY <1>3, <1>4, <1>5, <1>6, <1>7, <1>8, <1>9 DEF AccessNext

(* However the owner's requests, his own among them, overlap with each      *)
(* other and with logins, the owner is neither disabled nor deleted.        *)
THEOREM OwnerAlwaysStays == AccessSpec => []OwnerStays
<1>1. AccessInit => AccessTyped /\ OwnerSafe
  <2>1. AccessInit => OwnerSafe
    BY AccessConstants DEF AccessInit, OwnerSafe, OwnerStays, Enabled, Relaxed
  <2>2. QED
    BY <2>1, AccessTypedInit
<1>2. AccessTyped /\ OwnerSafe /\ [AccessNext]_accessVars => (AccessTyped /\ OwnerSafe)'
  BY AccessTypedStep, OwnerStep
<1>3. OwnerSafe => OwnerStays
  BY DEF OwnerSafe
<1>4. QED
  BY <1>1, <1>2, <1>3, PTL DEF AccessSpec

-----------------------------------------------------------------------------
(* The grace of a revoked account.                                          *)

(* A request that neither asks, answers nor is admitted disturbs nothing    *)
(* that is known of a user, as long as no answer of the cache is made up.   *)
LEMMA QuietVisit ==
    ASSUME Grace, AccessTyped', NEW b \in Browser,
           Visit(b, visit'[b]), visit'[b].pc \notin {"state", "fill", "act"},
           tick' = tick, \A u \in User : enabledAt[u] <= enabledAt'[u],
           \A u \in User : state'[u] = state[u] \/ ~state'[u].enabled
    PROVE  QueriesEnd' /\ AnswersHeld' /\ RevocationIsPrompt'
<1>1. \A c \in Browser : visit'[c].pc \in {"state", "fill", "act"} =>
                            visit'[c] = visit[c] /\ visit[c].user \in User
  BY DEF Visit, Grace, AccessTyped, Visits
<1>2. \A u \in User : enabledAt[u] \in Nat /\ enabledAt'[u] \in Nat
  BY AccessConstants DEF Grace, AccessTyped, Instant
<1>3. QueriesEnd'
  BY <1>1 DEF Grace, QueriesEnd
<1>4. AnswersHeld'
  <2>1. ASSUME NEW c \in Browser, visit'[c].pc = "fill", visit'[c].yes
        PROVE  visit'[c].start <= enabledAt'[visit'[c].user]
    <3>1. visit'[c] = visit[c] /\ visit[c].user \in User /\ visit[c].start \in Nat
      BY <1>1, <2>1, AccessConstants DEF Grace, AccessTyped, Visits, Instant
    <3>2. visit[c].start <= enabledAt[visit[c].user]
      BY <2>1, <3>1 DEF Grace, AnswersHeld
    <3>3. QED
      BY <1>2, <3>1, <3>2
  <2>2. ASSUME NEW u \in User, state'[u].enabled
        PROVE  state'[u].expires - UserStateTTL <= enabledAt'[u]
    <3>1. state'[u] = state[u] /\ state[u].expires \in Int
      BY <2>2, AccessConstants DEF Grace, AccessTyped
    <3>2. state[u].expires - UserStateTTL <= enabledAt[u]
      BY <2>2, <3>1 DEF Grace, AnswersHeld
    <3>3. QED
      BY <1>2, <3>1, <3>2, AccessConstants
  <2>3. QED
    BY <2>1, <2>2 DEF AnswersHeld
<1>5. ASSUME NEW c \in Browser, visit'[c].pc = "act"
      PROVE  /\ enabledAt'[visit'[c].user] # -1
             /\ tick' - enabledAt'[visit'[c].user] <= LongestGrace
  <2>1. visit'[c] = visit[c] /\ visit[c].user \in User
    BY <1>1, <1>5
  <2>2. tick - enabledAt[visit[c].user] <= LongestGrace
    BY <1>5, <2>1 DEF Grace, RevocationIsPrompt
  <2>3. tick \in Nat /\ LongestGrace \in Int
    BY AccessConstants DEF LongestGrace, Grace, AccessTyped, Instant
  <2>4. QED
    BY <1>2, <2>1, <2>2, <2>3
<1>6. QED
  BY <1>3, <1>4, <1>5 DEF RevocationIsPrompt, LongestGrace

(* Putting a row keeps enabledAt true, and sets none back.                  *)
LEMMA PutRow ==
    ASSUME AccessTyped, EnabledAtOK, NEW u \in User, NEW row \in Row, Put(u, row), tick' = tick
    PROVE  EnabledAtOK' /\ \A v \in User : enabledAt[v] <= enabledAt'[v]
BY AccessConstants DEF AccessTyped, EnabledAtOK, Put, Enabled, Row, Instant

(* A step of a login keeps the grace.                                       *)
LEMMA GraceLogin ==
    ASSUME Grace, AccessTyped', NEW b \in Browser, Attempt(b) \/ ReadRow(b) \/ Verify(b) \/ Logout(b)
    PROVE  Grace'
<1>1. UNCHANGED <<tick, account, state, enabledAt>>
  BY DEF Attempt, ReadRow, Verify, Logout, LoginSame
<1>2. EnabledAtOK'
  BY <1>1 DEF Grace, EnabledAtOK, Enabled
<1>3. \A u \in User : enabledAt[u] <= enabledAt'[u]
  BY <1>1, AccessConstants DEF Grace, AccessTyped, Instant
<1>4. CASE Logout(b)
  BY <1>1, <1>2, <1>4
     DEF Logout, Grace, QueriesEnd, AnswersHeld, RevocationIsPrompt, LongestGrace
<1>5. CASE Attempt(b) \/ ReadRow(b) \/ Verify(b)
  <2>1. Visit(b, visit'[b]) /\ visit'[b].pc \notin {"state", "fill", "act"}
    <3>1. CASE Attempt(b)
      <4>1. \/ Visit(b, Relaxed)
            \/ \E u \in User, p \in Passwords :
                 Visit(b, [Relaxed EXCEPT !.pc = "row", !.user = u, !.password = p])
        BY <3>1 DEF Attempt
      <4>2. CASE Visit(b, Relaxed)
        BY <4>2 DEF Visit, Relaxed, Grace, AccessTyped
      <4>3. ASSUME NEW u, NEW p,
                   Visit(b, [Relaxed EXCEPT !.pc = "row", !.user = u, !.password = p])
            PROVE  Visit(b, visit'[b]) /\ visit'[b].pc = "row"
        BY <4>3 DEF Visit, Relaxed, Grace, AccessTyped
      <4>4. QED
        BY <4>1, <4>2, <4>3
    <3>2. CASE ReadRow(b)
      BY <3>2 DEF ReadRow, Visit, Grace, AccessTyped, Visits
    <3>3. CASE Verify(b)
      BY <3>3 DEF Verify, Visit, Relaxed, Grace, AccessTyped
    <3>4. QED
      BY <1>5, <3>1, <3>2, <3>3
  <2>2. QED
    BY <1>1, <1>2, <1>3, <2>1, QuietVisit DEF Grace
<1>6. QED
  BY <1>4, <1>5

(* A step of user management keeps the grace.                               *)
LEMMA GraceManage ==
    ASSUME Grace, AccessTyped', NEW b \in Browser,
           \/ Serve(b) \/ CreateUser(b) \/ ResetPassword(b)
           \/ ReadCurrent(b) \/ WriteUser(b) \/ Forget(b)
    PROVE  Grace'
<1>1. tick' = tick
  BY DEF Serve, CreateUser, ResetPassword, ReadCurrent, WriteUser, Forget, ActSame
<1>2. \A u \in User : state'[u] = state[u] \/ ~state'[u].enabled
  <2>1. CASE Forget(b)
    BY <2>1 DEF Forget, NoState, Grace, AccessTyped
  <2>2. CASE ~Forget(b)
    BY <2>2 DEF Serve, CreateUser, ResetPassword, ReadCurrent, WriteUser
  <2>3. QED
    BY <2>1, <2>2
<1>3. Visit(b, visit'[b]) /\ visit'[b].pc \notin {"state", "fill", "act"}
  <2>1. CASE Serve(b) \/ CreateUser(b) \/ ResetPassword(b) \/ Forget(b)
    BY <2>1 DEF Serve, CreateUser, ResetPassword, Forget, Visit, Relaxed, Grace, AccessTyped
  <2>2. CASE ReadCurrent(b)
    <3>1. PICK u \in User, w \in Write :
            Visit(b, [Relaxed EXCEPT !.pc = "write", !.user = u, !.write = w])
      BY <2>2 DEF ReadCurrent
    <3>2. QED
      BY <3>1 DEF Visit, Relaxed, Grace, AccessTyped
  <2>3. CASE WriteUser(b)
    <3>1. visit[b] \in Visits
      BY DEF Grace, AccessTyped
    <3>2. Relaxed.pc = "idle" /\ [visit[b] EXCEPT !.pc = "forget"].pc = "forget"
      BY <3>1, RelaxedType DEF Visits
    <3>3. QED
      BY <2>3, <3>2 DEF WriteUser, Visit, Grace, AccessTyped
  <2>4. QED
    BY <2>1, <2>2, <2>3
<1>4. EnabledAtOK' /\ \A u \in User : enabledAt[u] <= enabledAt'[u]
  <2>1. CASE UNCHANGED <<account, enabledAt>>
    BY <1>1, <2>1, AccessConstants DEF Grace, EnabledAtOK, Enabled, AccessTyped, Instant
  <2>2. CASE \E u \in User, row \in Row : Put(u, row)
    BY <1>1, <2>2, PutRow DEF Grace
  <2>3. CASE CreateUser(b)
    BY <2>2, <2>3, AccessConstants DEF CreateUser, Row
  <2>4. CASE ResetPassword(b)
    <3>1. PICK u \in User, p \in Passwords : Put(u, [account[u] EXCEPT !.password = p])
      BY <2>4 DEF ResetPassword
    <3>2. [account[u] EXCEPT !.password = p] \in Row
      BY DEF Grace, AccessTyped, Row
    <3>3. QED
      BY <2>2, <3>1, <3>2
  <2>5. CASE WriteUser(b)
    <3>1. visit[b].user \in User
      BY <2>5 DEF WriteUser, Grace, AccessTyped, Visits
    <3>2. Written(account[visit[b].user], visit[b].write) \in Row
      BY <3>1, WrittenRow DEF Grace, AccessTyped
    <3>3. QED
      BY <2>1, <2>2, <2>5, <3>1, <3>2 DEF WriteUser
  <2>6. CASE Serve(b) \/ ReadCurrent(b) \/ Forget(b)
    BY <2>1, <2>6 DEF Serve, ReadCurrent, Forget
  <2>7. QED
    BY <2>3, <2>4, <2>5, <2>6
<1>5. QED
  BY <1>1, <1>2, <1>3, <1>4, QuietVisit DEF Grace

(* A lookup, its answer and what they admit keep the grace: an answer that  *)
(* read before a change may be stored after it, but only for one window     *)
(* from when its query began.                                               *)
LEMMA GraceCheck ==
    ASSUME Grace, AccessTyped', NEW b \in Browser, Ask(b) \/ ReadState(b) \/ FillState(b)
    PROVE  Grace'
<1>1. UNCHANGED <<tick, account, enabledAt>>
  BY DEF Ask, ReadState, FillState, CheckSame
<1>2. EnabledAtOK'
  BY <1>1 DEF Grace, EnabledAtOK, Enabled
<1>3. /\ tick \in Nat /\ SlowQuery \in Nat /\ UserStateTTL \in Nat
      /\ \A u \in User : enabledAt[u] \in Nat /\ state[u].expires \in Int
      /\ visit[b].start \in Nat /\ visit[b].yes \in BOOLEAN
      /\ visit \in [Browser -> Visits]
  BY AccessConstants DEF Grace, AccessTyped, Visits, Instant
<1>4. ASSUME NEW c \in Browser, c # b PROVE visit'[c] = visit[c]
  BY <1>4 DEF Ask, ReadState, FillState, Visit, Grace, AccessTyped
<1>5. LongestGrace \in Int /\ LongestGrace' = LongestGrace
      /\ LongestGrace >= SlowQuery /\ LongestGrace >= UserStateTTL - 1
  BY <1>3 DEF LongestGrace
<1>6. CASE Ask(b)
  <2>1. cookie[b] \in User
    BY <1>6 DEF Ask, Grace, AccessTyped
  <2>2. CASE state[cookie[b]].expires > tick
    <3>1. visit'[b] = Admitted(cookie[b], state[cookie[b]].enabled)
      BY <1>3, <1>6, <2>2 DEF Ask, Visit
    <3>2. ASSUME state[cookie[b]].enabled
          PROVE  tick - enabledAt[cookie[b]] <= LongestGrace
      BY <1>3, <1>5, <2>1, <2>2, <3>2 DEF Grace, AnswersHeld
    <3>3. /\ visit'[b].pc \notin {"state", "fill"}
          /\ visit'[b].pc = "act" => visit'[b].user = cookie[b] /\ state[cookie[b]].enabled
      BY <3>1 DEF Admitted, Relaxed
    <3>4. RevocationIsPrompt'
      BY <1>1, <1>3, <1>4, <1>5, <2>1, <3>2, <3>3 DEF Grace, RevocationIsPrompt
    <3>5. QueriesEnd' /\ AnswersHeld'
      BY <1>1, <1>4, <1>6, <3>3 DEF Ask, Grace, QueriesEnd, AnswersHeld
    <3>6. QED
      BY <1>2, <3>4, <3>5 DEF Grace
  <2>3. CASE ~(state[cookie[b]].expires > tick)
    <3>1. visit'[b].pc = "state" /\ visit'[b].start = tick
      BY <1>3, <1>6, <2>3 DEF Ask, Visit, Relaxed
    <3>2. QueriesEnd' /\ AnswersHeld' /\ RevocationIsPrompt'
      BY <1>1, <1>3, <1>4, <1>5, <1>6, <3>1
         DEF Ask, Grace, QueriesEnd, AnswersHeld, RevocationIsPrompt
    <3>3. QED
      BY <1>2, <3>2 DEF Grace
  <2>4. QED
    BY <2>2, <2>3
<1>7. CASE ReadState(b)
  <2>1. visit[b].user \in User
    BY <1>7 DEF ReadState, Grace, AccessTyped, Visits
  <2>2. PICK e \in {Enabled(visit[b].user), FALSE} :
          visit'[b] = [visit[b] EXCEPT !.pc = "fill", !.yes = e]
    BY <1>3, <1>7 DEF ReadState, Visit
  <2>3. /\ visit'[b].pc = "fill" /\ visit'[b].start = visit[b].start
        /\ visit'[b].user = visit[b].user /\ visit'[b].yes = e
    BY <1>3, <2>2 DEF Visits
  <2>4. visit[b].start <= tick /\ tick - visit[b].start <= SlowQuery
    BY <1>7 DEF ReadState, Grace, QueriesEnd
  <2>5. e => enabledAt[visit[b].user] = tick
    BY <2>1, <2>2 DEF Grace, EnabledAtOK
  <2>6. QueriesEnd' /\ AnswersHeld' /\ RevocationIsPrompt'
    BY <1>1, <1>3, <1>4, <1>5, <1>7, <2>3, <2>4, <2>5
       DEF ReadState, Grace, QueriesEnd, AnswersHeld, RevocationIsPrompt
  <2>7. QED
    BY <1>2, <2>6 DEF Grace
<1>8. CASE FillState(b)
  <2>1. visit[b].user \in User
    BY <1>8 DEF FillState, Grace, AccessTyped, Visits
  <2>2. visit'[b] = Admitted(visit[b].user, visit[b].yes)
    BY <1>3, <1>8 DEF FillState, Visit
  <2>3. /\ visit'[b].pc \notin {"state", "fill"}
        /\ visit'[b].pc = "act" => visit'[b].user = visit[b].user /\ visit[b].yes
    BY <2>2 DEF Admitted, Relaxed
  <2>4. /\ visit[b].start <= tick /\ tick - visit[b].start <= SlowQuery
        /\ visit[b].yes => visit[b].start <= enabledAt[visit[b].user]
    BY <1>8 DEF FillState, Grace, QueriesEnd, AnswersHeld
  <2>5. visit[b].yes => tick - enabledAt[visit[b].user] <= LongestGrace
    BY <1>3, <1>5, <2>1, <2>4
  <2>6. RevocationIsPrompt'
    BY <1>1, <1>3, <1>4, <1>5, <2>1, <2>3, <2>5 DEF Grace, RevocationIsPrompt
  <2>7. \A u \in User : state'[u].enabled => state'[u].expires - UserStateTTL <= enabledAt[u]
    <3>1. ASSUME NEW u \in User, u # visit[b].user PROVE state'[u] = state[u]
      BY <1>8, <3>1 DEF FillState, Grace, AccessTyped
    <3>2. /\ state'[visit[b].user].expires = visit[b].start + UserStateTTL
          /\ state'[visit[b].user].enabled = visit[b].yes
      BY <1>8, <2>1 DEF FillState, Grace, AccessTyped
    <3>3. visit[b].start + UserStateTTL - UserStateTTL = visit[b].start
      BY <1>3
    <3>4. ASSUME NEW u \in User, u # visit[b].user, state'[u].enabled
          PROVE  state'[u].expires - UserStateTTL <= enabledAt[u]
      BY <3>1, <3>4 DEF Grace, AnswersHeld
    <3>5. ASSUME state'[visit[b].user].enabled
          PROVE  state'[visit[b].user].expires - UserStateTTL <= enabledAt[visit[b].user]
      <4>1. visit[b].yes
        BY <3>2, <3>5, Zenon
      <4>2. visit[b].start <= enabledAt[visit[b].user]
        BY <2>4, <4>1
      <4>3. state'[visit[b].user].expires - UserStateTTL = visit[b].start
        BY <1>3, <3>2, <3>3
      <4>4. QED
        BY <4>2, <4>3
    <3>6. QED
      BY <3>4, <3>5
  <2>8. QueriesEnd' /\ AnswersHeld'
    BY <1>1, <1>4, <2>3, <2>7 DEF Grace, QueriesEnd, AnswersHeld
  <2>9. QED
    BY <1>2, <2>6, <2>8 DEF Grace
<1>9. QED
  BY <1>6, <1>7, <1>8

(* Time passes for enabled accounts too, and for no admitted request.       *)
LEMMA GracePass == ASSUME Grace, AccessTyped', Pass PROVE Grace'
<1>1. /\ tick \in Nat /\ SlowQuery \in Nat /\ UserStateTTL \in Nat
      /\ \A u \in User : enabledAt[u] \in Nat /\ state[u].expires \in Int
      /\ \A b \in Browser : visit[b].start \in Nat
  BY AccessConstants DEF Grace, AccessTyped, Visits, Instant
<1>2. /\ tick' = tick + 1 /\ UNCHANGED <<account, state, visit>>
      /\ \A u \in User : enabledAt'[u] = IF Enabled(u) THEN tick + 1 ELSE enabledAt[u]
  BY DEF Pass
<1>3. EnabledAtOK'
  BY <1>1, <1>2 DEF Grace, EnabledAtOK, Enabled
<1>4. QueriesEnd'
  BY <1>1, <1>2 DEF Pass, Grace, QueriesEnd
<1>5. RevocationIsPrompt'
  BY <1>2 DEF Pass, RevocationIsPrompt
<1>6. \A u \in User : enabledAt[u] <= enabledAt'[u] /\ enabledAt'[u] \in Nat
  BY <1>1, <1>2 DEF Grace, EnabledAtOK
<1>7. \A b \in Browser : (visit[b].pc = "fill" /\ visit[b].yes) =>
                           visit[b].start <= enabledAt'[visit[b].user]
  <2>1. ASSUME NEW b \in Browser, visit[b].pc = "fill", visit[b].yes
        PROVE  visit[b].start <= enabledAt'[visit[b].user]
    <3>1. visit[b].user \in User /\ visit[b].start <= enabledAt[visit[b].user]
      BY <2>1 DEF Grace, AnswersHeld, AccessTyped, Visits
    <3>2. QED
      BY <1>1, <1>6, <3>1
  <2>2. QED
    BY <2>1
<1>8. \A u \in User : state[u].enabled => state[u].expires - UserStateTTL <= enabledAt'[u]
  BY <1>1, <1>6 DEF Grace, AnswersHeld
<1>9. QED
  BY <1>2, <1>3, <1>4, <1>5, <1>7, <1>8 DEF Grace, AnswersHeld

(* A request is admitted only for an account that was enabled less than one *)
(* cache window, or one slow query, ago: for every length of both.          *)
THEOREM RevocationIsAlwaysPrompt == AccessSpec => []RevocationIsPrompt
<1>1. AccessInit => Grace
  <2>1. AccessInit => EnabledAtOK
    BY AccessConstants DEF AccessInit, EnabledAtOK
  <2>2. AccessInit => QueriesEnd /\ RevocationIsPrompt /\ AnswersHeld
    BY DEF AccessInit, QueriesEnd, RevocationIsPrompt, AnswersHeld, Relaxed, NoState
  <2>3. QED
    BY <2>1, <2>2, AccessTypedInit DEF Grace
<1>2. Grace /\ [AccessNext]_accessVars => Grace'
  <2> SUFFICES ASSUME Grace, [AccessNext]_accessVars PROVE Grace'
    OBVIOUS
  <2>1. AccessTyped'
    BY AccessTypedStep DEF Grace
  <2>2. ASSUME NEW b \in Browser, AccessSteps(b) PROVE Grace'
    BY <2>1, <2>2, GraceLogin, GraceCheck, GraceManage DEF AccessSteps
  <2>3. CASE Pass
    BY <2>1, <2>3, GracePass
  <2>4. CASE UNCHANGED accessVars
    BY <2>1, <2>4 DEF accessVars, Grace, EnabledAtOK, Enabled, QueriesEnd, AnswersHeld,
                      RevocationIsPrompt, LongestGrace
  <2>5. QED
    BY <2>2, <2>3, <2>4 DEF AccessNext, AccessSteps
<1>3. Grace => RevocationIsPrompt
  BY DEF Grace
<1>4. QED
  BY <1>1, <1>2, <1>3, PTL DEF AccessSpec

-----------------------------------------------------------------------------
(* The limiter: the bucket of an account holds every attempt of the window, *)
(* so a full window refuses the next.                                       *)

\* The attempts let through in the window that ends at t.
InWindow(u, t) == {h \in logins[u] : h.at > t - LoginWindow /\ h.at <= t}

BucketOK(u) ==
    /\ IsFiniteSet(logins[u]) /\ hits[u] \subseteq logins[u]
    /\ \A h \in logins[u] : h.at <= tick /\ h.nth < Cardinality(logins[u])
    /\ LiveHits(logins[u]) \subseteq hits[u]

LimiterInv ==
    /\ tick \in Instant /\ hits \in [User -> SUBSET Hit] /\ logins \in [User -> SUBSET Hit]
    /\ \A u \in User : BucketOK(u)
    /\ LoginsAreLimited

LEMMA LimiterConstants ==
    LastTick \in Nat /\ LoginMax \in Nat /\ LoginWindow \in Nat /\ LoginWindow > 0
BY AccessAssumption

LEMMA LimiterInit == AccessInit => LimiterInv
<1> SUFFICES ASSUME AccessInit PROVE LimiterInv
  OBVIOUS
<1>1. tick \in Instant /\ hits = [u \in User |-> {}] /\ logins = [u \in User |-> {}]
  BY LimiterConstants DEF AccessInit, Instant
<1>2. \A u \in User : BucketOK(u)
  BY <1>1, FS_EmptySet DEF BucketOK, LiveHits
<1>3. LoginsAreLimited
  <2> SUFFICES ASSUME NEW u \in User, NEW t \in Instant PROVE Cardinality(InWindow(u, t)) <= LoginMax
    BY DEF LoginsAreLimited, InWindow
  <2>1. InWindow(u, t) = {}
    BY <1>1 DEF InWindow
  <2>2. QED
    BY <2>1, FS_EmptySet, LimiterConstants
<1>4. QED
  BY <1>1, <1>2, <1>3 DEF LimiterInv

(* An attempt let through: one more in every window it is in.               *)
LEMMA AllowedStep ==
    ASSUME LimiterInv, NEW u \in User, NEW hit, hit = [at |-> tick, nth |-> Cardinality(logins[u])],
           Cardinality(LiveHits(hits[u])) < LoginMax, UNCHANGED tick,
           hits' = [hits EXCEPT ![u] = LiveHits(hits[u]) \cup {hit}],
           logins' = [logins EXCEPT ![u] = logins[u] \cup {hit}]
    PROVE  LimiterInv'
<1>1. /\ tick \in Nat /\ LoginWindow \in Nat /\ LoginWindow > 0 /\ LoginMax \in Nat
      /\ logins[u] \subseteq Hit /\ BucketOK(u) /\ \A h \in Hit : h.at \in Int /\ h.nth \in Nat
  BY LimiterConstants DEF LimiterInv, Instant, Hit
<1>2. /\ IsFiniteSet(logins[u]) /\ Cardinality(logins[u]) \in Nat /\ hit \notin logins[u]
      /\ hit.at = tick /\ hit.nth = Cardinality(logins[u])
  BY <1>1, FS_CardinalityType DEF BucketOK
<1>3. hit \in Hit
  BY <1>2 DEF Hit, LimiterInv
<1>4. LiveHits(hits[u]) = LiveHits(logins[u])
  BY <1>1 DEF BucketOK, LiveHits
<1>5. hits' \in [User -> SUBSET Hit] /\ logins' \in [User -> SUBSET Hit]
  BY <1>3 DEF LimiterInv, LiveHits
<1>6. ASSUME NEW v \in User PROVE BucketOK(v)'
  <2>1. CASE v = u
    <3>1. hits'[v] = LiveHits(hits[u]) \cup {hit} /\ logins'[v] = logins[u] \cup {hit}
      BY <2>1 DEF LimiterInv
    <3>2. IsFiniteSet(logins'[v]) /\ Cardinality(logins'[v]) = Cardinality(logins[u]) + 1
      <4>1. IsFiniteSet(logins[u] \cup {hit}) /\ Cardinality(logins[u] \cup {hit}) = Cardinality(logins[u]) + 1
        BY <1>2, FS_AddElement
      <4>2. QED
        BY <3>1, <4>1
    <3>3. \A h \in logins'[v] : h.at <= tick /\ h.nth < Cardinality(logins'[v])
      BY <1>1, <1>2, <3>1, <3>2 DEF BucketOK
    <3>4. hits'[v] \subseteq logins'[v] /\ LiveHits(logins[u]) \cup {hit} \subseteq hits'[v]
      BY <1>1, <1>4, <3>1 DEF BucketOK, LiveHits
    <3>5. {h \in logins'[v] : h.at > tick - LoginWindow} \subseteq LiveHits(logins[u]) \cup {hit}
      BY <3>1 DEF LiveHits
    <3>6. QED
      BY <3>2, <3>3, <3>4, <3>5 DEF BucketOK, LiveHits
  <2>2. CASE v # u
    BY <2>2 DEF LimiterInv, BucketOK, LiveHits
  <2>3. QED
    BY <2>1, <2>2
<1>7. ASSUME NEW v \in User, NEW t \in Instant PROVE Cardinality(InWindow(v, t)') <= LoginMax
  <2>1. Cardinality(InWindow(v, t)) <= LoginMax
    BY DEF LimiterInv, LoginsAreLimited, InWindow
  <2>2. CASE v # u \/ t < tick
    <3>1. InWindow(v, t)' = InWindow(v, t)
      BY <1>1, <1>2, <2>2 DEF InWindow, LimiterInv, Instant
    <3>2. QED
      BY <2>1, <3>1
  <2>3. CASE v = u /\ t >= tick
    <3>1. InWindow(v, t)' \subseteq LiveHits(logins[u]) \cup {hit}
      BY <1>1, <2>3 DEF InWindow, LiveHits, LimiterInv, Instant
    <3>2. IsFiniteSet(LiveHits(logins[u])) /\ hit \notin LiveHits(logins[u])
      BY <1>2, FS_Subset DEF LiveHits
    <3>3. /\ IsFiniteSet(LiveHits(logins[u]) \cup {hit})
          /\ Cardinality(LiveHits(logins[u]) \cup {hit}) = Cardinality(LiveHits(logins[u])) + 1
      BY <3>2, FS_AddElement
    <3>4. Cardinality(InWindow(v, t)') <= Cardinality(LiveHits(logins[u])) + 1
      BY <3>1, <3>3, FS_Subset
    <3>5. Cardinality(LiveHits(logins[u])) \in Nat /\ Cardinality(LiveHits(logins[u])) < LoginMax
      BY <1>4, <3>2, FS_CardinalityType
    <3>6. IsFiniteSet(InWindow(v, t)') /\ Cardinality(InWindow(v, t)') \in Nat
      BY <3>1, <3>3, FS_Subset, FS_CardinalityType
    <3>7. QED
      BY <1>1, <3>4, <3>5, <3>6
  <2>4. QED
    BY <1>1, <2>2, <2>3 DEF Instant
<1>8. QED
  BY <1>5, <1>6, <1>7 DEF LimiterInv, LoginsAreLimited, InWindow

(* A refusal, and time: what has left the window is forgotten.              *)
LEMMA RefusedStep ==
    ASSUME LimiterInv, tick' \in Instant, tick <= tick', UNCHANGED logins,
           hits' \in [User -> SUBSET Hit],
           \A u \in User : hits'[u] = hits[u] \/ hits'[u] = LiveHits(hits[u])
    PROVE  LimiterInv'
<1>1. tick \in Nat /\ tick' \in Nat /\ LoginWindow \in Nat /\ \A h \in Hit : h.at \in Int
  BY LimiterConstants DEF LimiterInv, Instant, Hit
<1>2. ASSUME NEW u \in User PROVE BucketOK(u)'
  <2>1. logins[u] \subseteq Hit /\ BucketOK(u)
    BY DEF LimiterInv
  <2>2. hits'[u] \subseteq logins[u] /\ LiveHits(logins[u]) \subseteq hits'[u]
    BY <2>1 DEF BucketOK, LiveHits
  <2>3. LiveHits(logins[u])' \subseteq LiveHits(logins[u])
    BY <1>1, <2>1 DEF LiveHits
  <2>4. \A h \in logins[u] : h.at <= tick'
    BY <1>1, <2>1 DEF BucketOK
  <2>5. QED
    BY <2>1, <2>2, <2>3, <2>4 DEF BucketOK
<1>3. QED
  BY <1>2 DEF LimiterInv, LoginsAreLimited

LEMMA LimiterStep == LimiterInv /\ [AccessNext]_accessVars => LimiterInv'
<1> SUFFICES ASSUME LimiterInv, [AccessNext]_accessVars PROVE LimiterInv'
  OBVIOUS
<1>0. tick \in Nat /\ hits \in [User -> SUBSET Hit]
  BY LimiterConstants DEF LimiterInv, Instant
<1>1. ASSUME NEW b \in Browser, Attempt(b) PROVE LimiterInv'
  <2>1. UNCHANGED tick
    BY <1>1 DEF Attempt, LoginSame
  <2>2. PICK u \in User :
          LET hit == [at |-> tick, nth |-> Cardinality(logins[u])]
              ok == Cardinality(LiveHits(hits[u])) < LoginMax
          IN /\ hits' = [hits EXCEPT ![u] = IF ok THEN LiveHits(hits[u]) \cup {hit} ELSE LiveHits(hits[u])]
             /\ logins' = IF ok THEN [logins EXCEPT ![u] = logins[u] \cup {hit}] ELSE logins
    BY <1>1 DEF Attempt
  <2>3. CASE Cardinality(LiveHits(hits[u])) < LoginMax
    BY <2>1, <2>2, <2>3, AllowedStep
  <2>4. CASE ~(Cardinality(LiveHits(hits[u])) < LoginMax)
    <3>1. hits' = [hits EXCEPT ![u] = LiveHits(hits[u])] /\ logins' = logins
      BY <2>2, <2>4
    <3>2. hits' \in [User -> SUBSET Hit] /\ \A v \in User : hits'[v] = hits[v] \/ hits'[v] = LiveHits(hits[v])
      BY <1>0, <3>1 DEF LiveHits
    <3>3. tick' \in Instant /\ tick <= tick'
      BY <1>0, <2>1 DEF LimiterInv
    <3>4. QED
      BY <3>1, <3>2, <3>3, RefusedStep
  <2>5. QED
    BY <2>3, <2>4
<1>2. ASSUME UNCHANGED <<tick, hits, logins>> PROVE LimiterInv'
  BY <1>0, <1>2, RefusedStep DEF LimiterInv
<1>3. CASE Pass
  <2>1. tick' \in Instant /\ tick <= tick' /\ UNCHANGED <<hits, logins>>
    BY <1>0, <1>3, LimiterConstants DEF Pass, Instant
  <2>2. QED
    BY <1>0, <2>1, RefusedStep
<1>4. ASSUME NEW b \in Browser, AccessSteps(b), ~Attempt(b) PROVE UNCHANGED <<tick, hits, logins>>
  BY <1>4 DEF AccessSteps, ReadRow, Verify, Logout, Ask, ReadState, FillState, Serve, CreateUser,
              ResetPassword, ReadCurrent, WriteUser, Forget, LoginSame, CheckSame, ActSame
<1>5. CASE UNCHANGED accessVars
  BY <1>2, <1>5 DEF accessVars
<1>6. QED
  BY <1>1, <1>2, <1>3, <1>4, <1>5 DEF AccessNext, AccessSteps

(* The states are typed, the limiter's buckets too.                          *)
LEMMA AccessAlwaysTyped == AccessSpec => []AccessTypeOK
<1>1. AccessTyped /\ LimiterInv => AccessTypeOK
  BY DEF AccessTyped, LimiterInv, AccessTypeOK, Visits
<1> QED BY AccessTypedInit, AccessTypedStep, LimiterInit, LimiterStep, <1>1, PTL DEF AccessSpec

(* However long the attempts go on, no window has more than LoginMax.       *)
THEOREM LoginsAreAlwaysLimited == AccessSpec => []LoginsAreLimited
<1>1. LimiterInv => LoginsAreLimited
  BY DEF LimiterInv
<1>2. QED
  BY LimiterInit, LimiterStep, <1>1, PTL DEF AccessSpec

-----------------------------------------------------------------------------
(* Share links.                                                             *)

(* Types, of what the theorems are about.                                   *)

Links == [state : {"unborn", "live", "gone"}, password : Password \cup {Open}, expires : Int]
TabRequests == [pc : {"idle", "lookup", "link", "photos", "store", "served",
                   "verify", "context", "insert", "count"},
             kind : Kind, content : Content, since : Time]

ShareTyped ==
    /\ now \in Time
    /\ link \in Links
    /\ content \in Content
    /\ entry \in [kind : Kind \cup {"none"}, content : Content, at : Time]
    /\ req \in [Loader -> TabRequests]
    /\ admin \in [Admin -> {"idle", "revalidate", "done"}]

(* The windows and bounds are natural numbers.                              *)
LEMMA ShareConstants ==
    /\ MaxTime \in Nat /\ MaxChanges \in Nat /\ LinkLifetime \subseteq Nat
    /\ 0 \in Time /\ 0 \in Content
    /\ Tab \subseteq Loader /\ Refill \subseteq Loader /\ \A t \in Tab : t \notin Refill
BY ShareAssumption DEF Time, Content, Loader

(* A request that starts is well formed.                                    *)
LEMMA IdleType ==
    /\ IdleReq \in TabRequests /\ IdleReq.pc = "idle"
    /\ NoLinkYet \in Links /\ Gone \in Links /\ Gone.state = "gone" /\ NoLinkYet.state = "unborn"
BY ShareConstants DEF IdleReq, TabRequests, Kind, NoLinkYet, Gone, Links, Never

(* The first state is typed.                                                *)
LEMMA ShareTypedInit == ShareInit => ShareTyped
BY ShareConstants, IdleType DEF ShareInit, ShareTyped, NoEntry

(* The admin's steps and the worker's keep the types.                       *)
LEMMA ShareTypedAdmin ==
    ASSUME ShareTyped, NEW a \in Admin,
           \/ CreateShareLink(a) \/ UpdateShareLink(a) \/ RevokeShareLink(a)
           \/ ChangeAlbum(a) \/ Revalidate(a) \/ WorkerPublishes
    PROVE  ShareTyped'
<1>1. UNCHANGED <<now, req>>
  BY DEF CreateShareLink, UpdateShareLink, RevokeShareLink, ChangeAlbum, Revalidate,
         WorkerPublishes, AdminUnchanged
<1>2. Expiries \subseteq Int
  <2>1. MaxTime \in Nat /\ LinkLifetime \subseteq Nat
    BY ShareConstants
  <2>2. now \in Int /\ Never \in Int
    BY <2>1 DEF Never, ShareTyped, Time
  <2>3. \A d \in LinkLifetime : now + d \in Int
    BY <2>1, <2>2
  <2> QED BY <2>2, <2>3 DEF Expiries
<1>3. link' \in Links
  <2>1. CASE CreateShareLink(a)
    BY <1>2, <2>1 DEF CreateShareLink, Links
  <2>2. CASE UpdateShareLink(a)
    BY <1>2, <2>2 DEF UpdateShareLink, ShareTyped, Links
  <2>3. CASE RevokeShareLink(a)
    BY <2>3, IdleType DEF RevokeShareLink
  <2>4. CASE ChangeAlbum(a) \/ Revalidate(a) \/ WorkerPublishes
    BY <2>4 DEF ChangeAlbum, Revalidate, WorkerPublishes, ShareTyped
  <2>5. QED
    BY <2>1, <2>2, <2>3, <2>4
<1>4. content' \in Content
  <2>1. CASE ChangeAlbum(a) \/ WorkerPublishes
    BY <2>1, ShareConstants DEF ChangeAlbum, WorkerPublishes, ShareTyped, Content
  <2>2. CASE content' = content
    BY <2>2 DEF ShareTyped
  <2>3. QED
    BY <2>1, <2>2 DEF CreateShareLink, UpdateShareLink, RevokeShareLink, Revalidate
<1>5. entry' \in [kind : Kind \cup {"none"}, content : Content, at : Time]
  <2>1. CASE Revalidate(a)
    BY <2>1, ShareConstants DEF Revalidate, NoEntry
  <2>2. CASE entry' = entry
    BY <2>2 DEF ShareTyped
  <2>3. QED
    BY <2>1, <2>2 DEF CreateShareLink, UpdateShareLink, RevokeShareLink, ChangeAlbum, WorkerPublishes
<1>6. admin' \in [Admin -> {"idle", "revalidate", "done"}]
  BY DEF CreateShareLink, UpdateShareLink, RevokeShareLink, ChangeAlbum, Revalidate,
         WorkerPublishes, ShareTyped
<1>7. QED
  BY <1>1, <1>3, <1>4, <1>5, <1>6 DEF ShareTyped

\* What a request or a refill does by itself.
TabStep(t) ==
    \/ LoadLink(t) \/ LoadPhotos(t) \/ Store(t)
    \/ t \in Refill /\ RefillFails(t)
    \/ /\ t \in Tab
       /\ \/ OpenPage(t) \/ Lookup(t) \/ ClosePage(t) \/ TryPassword(t) \/ Verified(t)
          \/ OpenContext(t) \/ RecordView(t) \/ InsertView(t) \/ CountViews(t)

(* A status is one of the three kinds.                                      *)
LEMMA StatusKind == \A l, t : StatusOf(l, t) \in Kind
BY DEF StatusOf, Kind

(* A tab's step changes its own request, and keeps the types.               *)
LEMMA ShareTypedTab ==
    ASSUME ShareTyped, NEW t \in Loader, TabStep(t)
    PROVE  /\ ShareTyped' /\ UNCHANGED <<now, link, content, admin, late>>
           /\ \A u \in Loader : u # t => req'[u] = req[u]
<1>1. UNCHANGED <<now, link, content, admin, late>>
  BY DEF TabStep, OpenPage, Lookup, LoadLink, LoadPhotos, Store, RefillFails, ClosePage, TryPassword, Verified,
         OpenContext, RecordView, InsertView, CountViews,
         PageUnchanged, UnlockUnchanged, ViewUnchanged
<1>2. PICK r \in TabRequests : req' = [req EXCEPT ![t] = r]
  <2>1. CASE OpenPage(t) \/ TryPassword(t) \/ OpenContext(t)
    <3>1. [IdleReq EXCEPT !.pc = "lookup", !.since = now] \in TabRequests
      BY IdleType DEF TabRequests, ShareTyped
    <3>2. [IdleReq EXCEPT !.pc = "verify"] \in TabRequests
      BY IdleType DEF TabRequests
    <3>3. [IdleReq EXCEPT !.pc = "context"] \in TabRequests
      BY IdleType DEF TabRequests
    <3>4. QED
      BY <2>1, <3>1, <3>2, <3>3 DEF OpenPage, TryPassword, OpenContext
  <2>2. CASE ClosePage(t) \/ Verified(t) \/ CountViews(t) \/ RefillFails(t)
    BY <2>2, IdleType DEF ClosePage, Verified, CountViews, RefillFails
  <2>3. CASE Lookup(t)
    <3>1. CASE Fresh
      <4>1. [req[t] EXCEPT !.pc = "served", !.kind = entry.kind, !.content = entry.content] \in TabRequests
        <5>1. entry.kind \in Kind /\ entry.content \in Content
          BY <3>1 DEF Fresh, ShareTyped
        <5>2. req[t] \in TabRequests
          BY DEF ShareTyped
        <5>3. QED
          BY <5>1, <5>2 DEF TabRequests
      <4>2. QED
        BY <2>3, <3>1, <4>1 DEF Lookup, Fresh
    <3>2. CASE ~Fresh
      <4>1. [req[t] EXCEPT !.pc = "link"] \in TabRequests
        BY DEF ShareTyped, TabRequests
      <4>2. QED
        BY <2>3, <3>2, <4>1 DEF Lookup
    <3>3. QED
      BY <3>1, <3>2
  <2>4. CASE LoadLink(t)
    <3>1. \A pc \in {"photos", "store"} :
            [req[t] EXCEPT !.kind = StatusOf(link, now), !.pc = pc] \in TabRequests
      BY StatusKind DEF ShareTyped, TabRequests
    <3>2. QED
      BY <2>4, <3>1 DEF LoadLink, ShareTyped
  <2>5. CASE LoadPhotos(t)
    <3>1. [req[t] EXCEPT !.content = content, !.pc = "store"] \in TabRequests
      BY DEF ShareTyped, TabRequests
    <3>2. QED
      BY <2>5, <3>1 DEF LoadPhotos, ShareTyped
  <2>6. CASE Store(t) \/ RecordView(t) \/ InsertView(t)
    <3>1. \A pc \in {"served", "idle", "insert", "count"} : [req[t] EXCEPT !.pc = pc] \in TabRequests
      BY DEF ShareTyped, TabRequests
    <3>2. QED
      BY <2>6, <3>1 DEF Store, RecordView, InsertView, ShareTyped
  <2>7. QED
    BY <2>1, <2>2, <2>3, <2>4, <2>5, <2>6 DEF TabStep
<1>3. entry' \in [kind : Kind \cup {"none"}, content : Content, at : Time]
  <2>1. CASE Store(t)
    BY <2>1 DEF Store, ShareTyped, TabRequests
  <2>2. CASE ~Store(t)
    BY <2>2 DEF TabStep, OpenPage, Lookup, LoadLink, LoadPhotos, RefillFails, ClosePage, TryPassword, Verified,
         OpenContext, RecordView, InsertView, CountViews, UnlockUnchanged, ViewUnchanged, ShareTyped
  <2>3. QED
    BY <2>1, <2>2
<1>4. QED
  BY <1>1, <1>2, <1>3 DEF ShareTyped

(* An answer past its window, and the refill behind it.                     *)
LEMMA ShareTypedStale ==
    ASSUME ShareTyped, NEW t \in Tab, LookupStale(t)
    PROVE  /\ ShareTyped' /\ UNCHANGED <<now, link, content, admin, late, entry, views, told, lastTrue>>
           /\ entry.kind # "none" /\ ~Fresh
           /\ req'[t].pc = "served" /\ req'[t].kind = entry.kind /\ req'[t].content = entry.content
           /\ \E f \in Refill :
                /\ f # t /\ req[f].pc = "idle"
                /\ req'[f].pc = "link" /\ req'[f].since = now
                /\ \A u \in Loader : u # t /\ u # f => req'[u] = req[u]
<1>1. PICK f \in Refill :
        /\ req[f].pc = "idle"
        /\ req' = [req EXCEPT ![t].pc = "served", ![t].kind = entry.kind, ![t].content = entry.content,
                             ![f] = [IdleReq EXCEPT !.pc = "link", !.since = now]]
  BY DEF LookupStale
<1>2. /\ t \in Loader /\ f \in Loader /\ f # t
      /\ entry.kind \in Kind /\ entry.content \in Content /\ req[t] \in TabRequests
      /\ UNCHANGED <<now, link, content, admin, late, entry, views, told, lastTrue>>
      /\ entry.kind # "none" /\ ~Fresh
  BY ShareConstants DEF LookupStale, PageUnchanged, ShareTyped
<1>3. /\ [req[t] EXCEPT !.pc = "served", !.kind = entry.kind, !.content = entry.content] \in TabRequests
      /\ [IdleReq EXCEPT !.pc = "link", !.since = now] \in TabRequests
      /\ [IdleReq EXCEPT !.pc = "link", !.since = now].pc = "link"
      /\ [IdleReq EXCEPT !.pc = "link", !.since = now].since = now
  BY <1>2, IdleType DEF ShareTyped, TabRequests
<1>4. /\ req'[t] = [req[t] EXCEPT !.pc = "served", !.kind = entry.kind, !.content = entry.content]
      /\ req'[f] = [IdleReq EXCEPT !.pc = "link", !.since = now]
      /\ \A u \in Loader : u # t /\ u # f => req'[u] = req[u]
      /\ req' = [u \in Loader |-> req'[u]]
  BY <1>1, <1>2 DEF ShareTyped
<1>5. req' \in [Loader -> TabRequests]
  BY <1>3, <1>4 DEF ShareTyped
<1>6. req'[t].pc = "served" /\ req'[t].kind = entry.kind /\ req'[t].content = entry.content
  BY <1>2, <1>4 DEF TabRequests
<1> QED BY <1>1, <1>2, <1>3, <1>4, <1>5, <1>6 DEF ShareTyped

(* Where a tab's step that starts or ends a request takes it.              *)
LEMMA EndsOfRequest ==
    ASSUME ShareTyped, NEW t \in Loader,
           \/ OpenPage(t) \/ TryPassword(t) \/ OpenContext(t)
           \/ ClosePage(t) \/ Verified(t) \/ CountViews(t) \/ RefillFails(t)
    PROVE  req'[t].pc \in {"idle", "lookup", "verify", "context"}
<1>1. CASE OpenPage(t)
  BY <1>1 DEF OpenPage, ShareTyped, IdleReq
<1>2. CASE TryPassword(t)
  BY <1>2 DEF TryPassword, ShareTyped, IdleReq
<1>3. CASE OpenContext(t)
  BY <1>3 DEF OpenContext, ShareTyped, IdleReq
<1>4. CASE ClosePage(t) \/ Verified(t) \/ CountViews(t) \/ RefillFails(t)
  BY <1>4, IdleType DEF ClosePage, Verified, CountViews, RefillFails, ShareTyped
<1>5. QED
  BY <1>1, <1>2, <1>3, <1>4

(* The clock, and a cookie that lapses, keep the types.                     *)
LEMMA ShareTypedTick ==
    ASSUME ShareTyped, Tick \/ (\E v \in Viewer : CookieLapses(v))
    PROVE  ShareTyped' /\ UNCHANGED <<link, content, entry, req, admin, late, views, told>>
<1>1. now' \in Time
  <2>1. CASE Tick
    BY <2>1, ShareConstants DEF Tick, ShareTyped, Time
  <2>2. CASE \E v \in Viewer : CookieLapses(v)
    BY <2>2 DEF CookieLapses, UnlockUnchanged, ShareTyped
  <2>3. QED
    BY <2>1, <2>2
<1>2. UNCHANGED <<link, content, entry, req, admin, late, views, told>>
  BY DEF Tick, CookieLapses, UnlockUnchanged
<1>3. QED
  BY <1>1, <1>2 DEF ShareTyped

(* Every step keeps the types.                                              *)
LEMMA ShareTypedStep == ShareTyped /\ [ShareNext]_shareVars => ShareTyped'
<1> SUFFICES ASSUME ShareTyped, [ShareNext]_shareVars PROVE ShareTyped'
  OBVIOUS
<1>1. ASSUME NEW t \in Loader, TabStep(t) PROVE ShareTyped'
  BY <1>1, ShareTypedTab
<1>2. CASE UNCHANGED shareVars
  BY <1>2 DEF shareVars, ShareTyped
<1>3. CASE WorkerPublishes
  <2>1. content' \in Content
    BY <1>3, ShareConstants DEF WorkerPublishes, ShareTyped, Content
  <2>2. QED
    BY <1>3, <2>1 DEF WorkerPublishes, AdminUnchanged, ShareTyped
<1>4. QED
  BY <1>1, <1>2, <1>3, ShareTypedAdmin, ShareTypedTick, ShareTypedStale, ShareConstants DEF ShareNext, TabStep

-----------------------------------------------------------------------------
(* A revocation takes effect.                                               *)

\* A load that has found the link live.
HoldsLink(t) == req[t].pc \in {"photos", "store"} /\ req[t].kind = "ok"

\* RevokeTakesEffect, and the same of the loads that may still store.
RevokeInv ==
    (link.state # "live" /\ (entry.kind = "ok" \/ \E t \in Loader : HoldsLink(t))) =>
      (late \/ \E a \in Admin : admin[a] = "revalidate")

(* A revocation, and every other change of an admin, announces itself until *)
(* it has emptied the cache; a load under way then is late.                 *)
LEMMA RevokeAdmin ==
    ASSUME ShareTyped, RevokeInv, NEW a \in Admin,
           \/ CreateShareLink(a) \/ UpdateShareLink(a) \/ RevokeShareLink(a)
           \/ ChangeAlbum(a) \/ Revalidate(a)
    PROVE  RevokeInv'
<1>1. CASE CreateShareLink(a) \/ UpdateShareLink(a) \/ RevokeShareLink(a) \/ ChangeAlbum(a)
  <2>1. admin'[a] = "revalidate"
    BY <1>1 DEF CreateShareLink, UpdateShareLink, RevokeShareLink, ChangeAlbum, ShareTyped
  <2>2. QED
    BY <2>1 DEF RevokeInv
<1>2. CASE Revalidate(a)
  <2>1. entry'.kind # "ok" /\ UNCHANGED req
    BY <1>2 DEF Revalidate, NoEntry, AdminUnchanged
  <2>2. ASSUME NEW t \in Loader, HoldsLink(t) PROVE late'
    <3>1. t \in Loading
      BY <2>2 DEF HoldsLink, Loading
    <3>2. QED
      BY <1>2, <3>1 DEF Revalidate
  <2>3. QED
    BY <2>1, <2>2 DEF RevokeInv, HoldsLink
<1>3. QED
  BY <1>1, <1>2

(* A load finds the link live only while it is, and stores what it found.   *)
LEMMA RevokeTab ==
    ASSUME ShareTyped, RevokeInv, NEW t \in Loader, TabStep(t)
    PROVE  RevokeInv'
<1>1. /\ UNCHANGED <<link, admin, late>>
      /\ \A u \in Loader : u # t => req'[u] = req[u]
  BY ShareTypedTab
<1>2. HoldsLink(t)' => HoldsLink(t) \/ link.state = "live"
  <2>1. CASE LoadLink(t)
    BY <2>1 DEF LoadLink, HoldsLink, StatusOf, ShareTyped, TabRequests
  <2>2. CASE LoadPhotos(t)
    BY <2>2 DEF LoadPhotos, HoldsLink, ShareTyped, TabRequests
  <2>3. CASE Lookup(t)
    BY <2>3 DEF Lookup, HoldsLink, ShareTyped, TabRequests
  <2>4. CASE \/ OpenPage(t) \/ ClosePage(t) \/ TryPassword(t) \/ Verified(t) \/ OpenContext(t) \/ CountViews(t)
             \/ RefillFails(t)
    BY <2>4, EndsOfRequest DEF HoldsLink
  <2>5. CASE Store(t) \/ RecordView(t) \/ InsertView(t)
    BY <2>5 DEF Store, RecordView, InsertView, HoldsLink, ShareTyped, TabRequests
  <2>6. QED
    BY <2>1, <2>2, <2>3, <2>4, <2>5 DEF TabStep
<1>3. entry'.kind = "ok" => entry.kind = "ok" \/ HoldsLink(t)
  <2>1. CASE Store(t)
    BY <2>1 DEF Store, HoldsLink
  <2>2. CASE ~Store(t)
    BY <2>2 DEF TabStep, OpenPage, Lookup, LoadLink, LoadPhotos, RefillFails, ClosePage, TryPassword, Verified,
         OpenContext, RecordView, InsertView, CountViews, UnlockUnchanged, ViewUnchanged
  <2>3. QED
    BY <2>1, <2>2
<1>4. QED
  BY <1>1, <1>2, <1>3 DEF RevokeInv, HoldsLink

(* However admins, loads and the clock overlap, an answer of a revoked link *)
(* is left in the cache only by a load that was late, or until the          *)
(* revocation has revalidated the page.                                     *)
THEOREM RevokeAlwaysTakesEffect == ShareSpec => []RevokeTakesEffect
<1>1. ShareInit => ShareTyped /\ RevokeInv
  BY ShareTypedInit DEF ShareInit, RevokeInv, HoldsLink, NoEntry, IdleReq
<1>2. ShareTyped /\ RevokeInv /\ [ShareNext]_shareVars => (ShareTyped /\ RevokeInv)'
  <2> SUFFICES ASSUME ShareTyped, RevokeInv, [ShareNext]_shareVars PROVE RevokeInv'
    BY ShareTypedStep
  <2>1. CASE \E t \in Loader : TabStep(t)
    BY <2>1, RevokeTab
  <2>5. ASSUME NEW t \in Tab, LookupStale(t) PROVE RevokeInv'
    BY <2>5, ShareTypedStale DEF RevokeInv, HoldsLink
  <2>2. CASE Tick \/ \E v \in Viewer : CookieLapses(v)
    BY <2>2, ShareTypedTick DEF RevokeInv, HoldsLink
  <2>3. CASE WorkerPublishes \/ UNCHANGED shareVars
    BY <2>3 DEF WorkerPublishes, AdminUnchanged, shareVars, RevokeInv, HoldsLink
  <2>4. QED
    BY <2>1, <2>2, <2>3, <2>5, RevokeAdmin, ShareConstants DEF ShareNext, TabStep
<1>3. RevokeInv => RevokeTakesEffect
  BY DEF RevokeInv, RevokeTakesEffect
<1>4. QED
  BY <1>1, <1>2, <1>3, PTL DEF ShareSpec

-----------------------------------------------------------------------------
(* The first view.                                                          *)

Counting(t) == req[t].pc = "count"

\* Rows are numbered, so that a new one is new; a link that is not live has
\* none and gets none.
ViewsOK ==
    /\ IsFiniteSet(views)
    /\ \A r \in views : r.n \in Nat /\ r.n < Cardinality(views)
    /\ link.state # "live" => views = {}

\* Before the first row nobody is told or counts; while it is the only one,
\* either its inserter counts, alone, or he has counted and told.
FirstOK ==
    /\ link.state = "unborn" \/ (link.state = "live" /\ views = {}) =>
         told = 0 /\ \A t \in Loader : ~Counting(t)
    /\ Cardinality(views) = 1 =>
         \/ told = 0 /\ \A t, u \in Loader : Counting(t) /\ Counting(u) => t = u
         \/ told = 1 /\ \A t \in Loader : ~Counting(t)
    /\ told \in {0, 1}

FirstInv == ShareTyped /\ ViewsOK /\ FirstOK

(* The count is a number, and 0 only when there is no row.                  *)
LEMMA ViewsCount ==
    ASSUME ViewsOK
    PROVE  Cardinality(views) \in Nat /\ (Cardinality(views) = 0 <=> views = {})
BY FS_CardinalityType, FS_EmptySet DEF ViewsOK

(* A step that inserts and counts nothing, and leaves the link as it is,    *)
(* keeps the invariant.                                                     *)
LEMMA FirstSame ==
    ASSUME FirstInv, ShareTyped', UNCHANGED <<link, views, told>>,
           \A t \in Loader : Counting(t)' => Counting(t)
    PROVE  FirstInv'
<1>1. ViewsOK'
  BY DEF FirstInv, ViewsOK
<1>2. FirstOK'
  BY DEF FirstInv, FirstOK, Counting
<1>3. QED
  BY <1>1, <1>2 DEF FirstInv

(* An insert adds a row that was not there.                                 *)
LEMMA FirstInsert ==
    ASSUME FirstInv, ShareTyped', NEW t \in Loader, InsertView(t)
    PROVE  FirstInv'
<1>1. /\ UNCHANGED <<link, told>>
      /\ \A u \in Loader : u # t => (Counting(u)' <=> Counting(u))
  BY DEF InsertView, ViewUnchanged, Counting, FirstInv, ShareTyped
<1>2. CASE link.state # "live"
  <2>1. UNCHANGED views /\ ~Counting(t)'
    BY <1>2 DEF InsertView, Counting, FirstInv, ShareTyped, TabRequests
  <2>2. QED
    BY <1>1, <2>1, FirstSame
<1>3. CASE link.state = "live"
  <2> DEFINE r == [viewer |-> ViewerOf[t], at |-> now, n |-> Cardinality(views)]
  <2>1. views' = views \cup {r}
    BY <1>3 DEF InsertView
  <2>2. Cardinality(views) \in Nat
    BY ViewsCount DEF FirstInv
  <2>3. r \notin views
    BY <2>2 DEF FirstInv, ViewsOK
  <2>4. IsFiniteSet(views') /\ Cardinality(views') = Cardinality(views) + 1
    BY <2>1, <2>3, FS_AddElement DEF FirstInv, ViewsOK
  <2>5. ViewsOK'
    BY <1>1, <1>3, <2>1, <2>2, <2>4 DEF FirstInv, ViewsOK
  <2>6. Cardinality(views') = 1 => told = 0 /\ \A u \in Loader : ~Counting(u)
    BY <1>3, <2>2, <2>4, ViewsCount DEF FirstInv, FirstOK
  <2>7. FirstOK'
    BY <1>1, <1>3, <2>1, <2>6 DEF FirstInv, FirstOK
  <2>8. QED
    BY <2>5, <2>7 DEF FirstInv
<1>4. QED
  BY <1>2, <1>3

(* Whoever counts one row tells, and then nobody counts.                    *)
LEMMA FirstCount ==
    ASSUME FirstInv, ShareTyped', NEW t \in Loader, CountViews(t)
    PROVE  FirstInv'
<1>1. /\ UNCHANGED <<link, views>> /\ Counting(t) /\ ~Counting(t)'
      /\ \A u \in Loader : u # t => (Counting(u)' <=> Counting(u))
      /\ told' = IF Cardinality(views) = 1 THEN told + 1 ELSE told
  BY DEF CountViews, ViewUnchanged, Counting, FirstInv, ShareTyped, IdleReq
<1>2. ViewsOK'
  BY <1>1 DEF FirstInv, ViewsOK
<1>3. CASE Cardinality(views) = 1
  <2>1. told = 0 /\ told' = 1 /\ \A u \in Loader : ~Counting(u)'
    BY <1>1, <1>3 DEF FirstInv, FirstOK
  <2>2. FirstOK'
    BY <1>1, <1>3, <2>1 DEF FirstInv, FirstOK
  <2>3. QED
    BY <1>2, <2>2 DEF FirstInv
<1>4. CASE Cardinality(views) # 1
  BY <1>1, <1>4, FirstSame
<1>5. QED
  BY <1>3, <1>4

(* A revocation takes the rows with it; no one is told of a link that is    *)
(* gone.                                                                    *)
LEMMA FirstAdmin ==
    ASSUME FirstInv, ShareTyped', NEW a \in Admin,
           \/ CreateShareLink(a) \/ UpdateShareLink(a) \/ RevokeShareLink(a)
           \/ ChangeAlbum(a) \/ Revalidate(a)
    PROVE  FirstInv'
<1>1. UNCHANGED <<req, told>>
  BY DEF CreateShareLink, UpdateShareLink, RevokeShareLink, ChangeAlbum, Revalidate, AdminUnchanged
<1>2. CASE CreateShareLink(a)
  <2>1. link.state = "unborn" /\ link'.state = "live" /\ UNCHANGED views
    BY <1>2, IdleType DEF CreateShareLink
  <2>2. QED
    BY <1>1, <2>1 DEF FirstInv, ViewsOK, FirstOK, Counting
<1>3. CASE UpdateShareLink(a)
  <2>1. link.state = "live" /\ link'.state = "live" /\ UNCHANGED views
    BY <1>3 DEF UpdateShareLink, FirstInv, ShareTyped, Links
  <2>2. QED
    BY <1>1, <2>1 DEF FirstInv, ViewsOK, FirstOK, Counting
<1>4. CASE RevokeShareLink(a)
  <2>1. link'.state = "gone" /\ views' = {}
    BY <1>4, IdleType DEF RevokeShareLink
  <2>2. Cardinality(views') = 0 /\ IsFiniteSet(views')
    BY <2>1, FS_EmptySet
  <2>3. QED
    BY <1>1, <2>1, <2>2 DEF FirstInv, ViewsOK, FirstOK
<1>5. CASE ChangeAlbum(a) \/ Revalidate(a)
  BY <1>1, <1>5, FirstSame DEF ChangeAlbum, Revalidate, Counting
<1>6. QED
  BY <1>2, <1>3, <1>4, <1>5

(* Every step keeps the invariant.                                           *)
LEMMA FirstHolds == ShareSpec => []FirstInv
<1>1. ShareInit => FirstInv
  <2>1. ShareInit => ViewsOK /\ FirstOK
    BY FS_EmptySet DEF ShareInit, ViewsOK, FirstOK, Counting, IdleReq
  <2>2. QED
    BY <2>1, ShareTypedInit DEF FirstInv
<1>2. FirstInv /\ [ShareNext]_shareVars => FirstInv'
  <2> SUFFICES ASSUME FirstInv, [ShareNext]_shareVars PROVE FirstInv'
    OBVIOUS
  <2>1. ShareTyped'
    BY ShareTypedStep DEF FirstInv
  <2>2. ASSUME NEW t \in Loader, TabStep(t), ~InsertView(t), ~CountViews(t)
        PROVE  FirstInv'
    <3>1. UNCHANGED <<link, views, told>>
      BY <2>2 DEF TabStep, OpenPage, Lookup, LoadLink, LoadPhotos, Store, RefillFails, ClosePage, TryPassword,
           Verified, OpenContext, RecordView, PageUnchanged, UnlockUnchanged, ViewUnchanged
    <3>2. req'[t].pc # "count"
      <4>1. CASE Lookup(t) \/ Store(t)
        BY <4>1 DEF Lookup, Store, FirstInv, ShareTyped, TabRequests
      <4>2. CASE \/ OpenPage(t) \/ ClosePage(t) \/ TryPassword(t) \/ Verified(t) \/ OpenContext(t)
                 \/ RefillFails(t)
        BY <4>2, EndsOfRequest DEF FirstInv
      <4>3. CASE LoadLink(t)
        BY <4>3 DEF LoadLink, FirstInv, ShareTyped, TabRequests
      <4>4. CASE LoadPhotos(t)
        BY <4>4 DEF LoadPhotos, FirstInv, ShareTyped, TabRequests
      <4>5. CASE RecordView(t)
        BY <4>5 DEF RecordView, FirstInv, ShareTyped, TabRequests
      <4>6. QED
        BY <2>2, <4>1, <4>2, <4>3, <4>4, <4>5 DEF TabStep
    <3>3. \A u \in Loader : u # t => req'[u] = req[u]
      BY <2>2, ShareTypedTab DEF FirstInv
    <3>4. QED
      BY <2>1, <3>1, <3>2, <3>3, FirstSame DEF Counting
  <2>3. CASE Tick \/ \E v \in Viewer : CookieLapses(v)
    BY <2>1, <2>3, ShareTypedTick, FirstSame DEF FirstInv, Counting
  <2>4. CASE WorkerPublishes \/ UNCHANGED shareVars
    BY <2>1, <2>4, FirstSame DEF WorkerPublishes, AdminUnchanged, shareVars, Counting
  <2>6. ASSUME NEW t \in Tab, LookupStale(t) PROVE FirstInv'
    BY <2>1, <2>6, ShareTypedStale, FirstSame DEF FirstInv, Counting
  <2>5. QED
    BY <2>1, <2>2, <2>3, <2>4, <2>6, FirstInsert, FirstCount, FirstAdmin, ShareConstants
       DEF ShareNext, TabStep
<1> QED BY <1>1, <1>2, PTL DEF ShareSpec

(* However the requests of the first viewers overlap, and whenever the link *)
(* is revoked, the owner is told of a first view at most once (F7).         *)
THEOREM FirstViewAlwaysOnce == ShareSpec => []FirstViewOnce
<1>1. FirstInv => FirstViewOnce
  BY DEF FirstInv, FirstOK, FirstViewOnce
<1> QED BY FirstHolds, <1>1, PTL

-----------------------------------------------------------------------------
(* What a page shows is recent.                                             *)

Truths == [kind : [Kind -> Time \cup {Never}], content : [Content -> Time \cup {Never}]]

\* What is true now was last true now, and nothing was true later.
TruthNow ==
    /\ lastTrue \in Truths
    /\ lastTrue.kind[StatusOf(link, now)] = now /\ lastTrue.content[content] = now
    /\ \A k \in Kind : lastTrue.kind[k] <= now
    /\ \A c \in Content : lastTrue.content[c] <= now

KindSince(k, t) == lastTrue.kind[k] # Never /\ t <= lastTrue.kind[k]
ContentSince(c, t) == lastTrue.content[c] # Never /\ t <= lastTrue.content[c]

\* A load is not older than LoadMax, and what it has found it found since.
LoadRecent(r) ==
    r.pc \in {"lookup", "link", "photos", "store"} =>
      /\ r.since <= now /\ now - r.since <= LoadMax
      /\ r.pc \in {"photos", "store"} => KindSince(r.kind, r.since)
      /\ (r.pc = "store" /\ r.kind = "ok") => ContentSince(r.content, r.since)

\* What the cache holds was true at most one load before it was stored.
EntryRecent ==
    entry.kind # "none" =>
      /\ KindSince(entry.kind, entry.at - LoadMax)
      /\ entry.kind = "ok" => ContentSince(entry.content, entry.at - LoadMax)

\* Whoever got an answer past its window has a refill that is not older.
AskedOK ==
    /\ asked \in Time \cup {Never}
    /\ asked # Never =>
         \E f \in Refill : req[f].pc \in {"link", "photos", "store"} /\ req[f].since = asked

RecentInv == ShareTyped /\ TruthNow /\ EntryRecent /\ AskedOK /\ \A t \in Loader : LoadRecent(req[t])

(* The windows are natural numbers, and a status is one of three.           *)
LEMMA WindowTypes ==
    /\ PageWindow \in Nat /\ PageWindow > 0 /\ LoadMax \in Nat /\ Time \subseteq Nat /\ Never = -1
    /\ Time \cup {Never} \subseteq Int
    /\ \A l, t : StatusOf(l, t) \in Kind
BY ShareAssumption DEF Time, Never, StatusOf, Kind

(* A step that changes what is true, or the time, notes it: nothing noted   *)
(* is forgotten.                                                            *)
LEMMA TruthGrows ==
    ASSUME ShareTyped, ShareTyped', TruthNow, now <= now', HeldAfter(link', content', now')
    PROVE  /\ TruthNow'
           /\ \A k \in Kind : \A t : KindSince(k, t) /\ t \in Int => KindSince(k, t)'
           /\ \A c \in Content : \A t : ContentSince(c, t) /\ t \in Int => ContentSince(c, t)'
<1> DEFINE s == StatusOf(link', now')
<1>1. /\ s \in Kind /\ content' \in Content /\ now \in Nat /\ now' \in Time /\ now' \in Nat /\ Never = -1
      /\ lastTrue \in Truths /\ Time \subseteq Nat
  BY WindowTypes DEF ShareTyped, TruthNow
<1> HIDE DEF s
<1>2. /\ lastTrue' = [kind |-> [lastTrue.kind EXCEPT ![s] = now'],
                      content |-> [lastTrue.content EXCEPT ![content'] = now']]
  BY DEF HeldAfter, s
<1>3. lastTrue' \in Truths
  BY <1>1, <1>2 DEF Truths
<1>4. /\ \A k \in Kind : lastTrue'.kind[k] = IF k = s THEN now' ELSE lastTrue.kind[k]
      /\ \A c \in Content : lastTrue'.content[c] = IF c = content' THEN now' ELSE lastTrue.content[c]
  BY <1>1, <1>2 DEF Truths
<1>5. /\ \A k \in Kind : lastTrue.kind[k] \in Int /\ lastTrue.kind[k] <= now
      /\ \A c \in Content : lastTrue.content[c] \in Int /\ lastTrue.content[c] <= now
  <2>1. /\ \A k \in Kind : lastTrue.kind[k] \in Time \cup {Never}
        /\ \A c \in Content : lastTrue.content[c] \in Time \cup {Never}
    BY <1>1 DEF Truths
  <2> QED BY <2>1, WindowTypes DEF TruthNow
<1>6. TruthNow'
  <2>1. lastTrue'.kind[s] = now' /\ lastTrue'.content[content'] = now'
    BY <1>1, <1>4
  <2>2. /\ \A k \in Kind : lastTrue'.kind[k] <= now'
        /\ \A c \in Content : lastTrue'.content[c] <= now'
    BY <1>1, <1>4, <1>5
  <2> QED BY <1>3, <2>1, <2>2 DEF TruthNow, s
<1>7. ASSUME NEW k \in Kind, NEW t \in Int, KindSince(k, t) PROVE KindSince(k, t)'
  BY <1>1, <1>4, <1>5, <1>7 DEF KindSince
<1>8. ASSUME NEW c \in Content, NEW t \in Int, ContentSince(c, t) PROVE ContentSince(c, t)'
  BY <1>1, <1>4, <1>5, <1>8 DEF ContentSince
<1> QED BY <1>6, <1>7, <1>8

(* Which steps do so: the admin's, the worker's and the clock's.            *)
LEMMA RecentGrows ==
    ASSUME RecentInv, ShareTyped',
           \/ \E a \in Admin : CreateShareLink(a) \/ UpdateShareLink(a) \/ RevokeShareLink(a) \/ ChangeAlbum(a)
           \/ WorkerPublishes \/ Tick
    PROVE  RecentInv'
<1>1. UNCHANGED <<req, entry, asked>> /\ HeldAfter(link', content', now') /\ now \in Nat
  BY WindowTypes DEF RecentInv, ShareTyped, CreateShareLink, UpdateShareLink, RevokeShareLink, ChangeAlbum, WorkerPublishes, Tick,
     AdminUnchanged, HeldAfter
<1>2. /\ now <= now'
      /\ \A t \in Loader : req[t].pc \in {"lookup", "link", "photos", "store"} =>
           now' = now \/ (now' = now + 1 /\ now - req[t].since < LoadMax)
  <2>1. CASE Tick
    BY <1>1, <2>1 DEF Tick
  <2>2. CASE ~Tick
    <3>1. now' = now
      BY <2>2 DEF CreateShareLink, UpdateShareLink, RevokeShareLink, ChangeAlbum, WorkerPublishes, AdminUnchanged
    <3> QED BY <1>1, <3>1
  <2> QED BY <2>1, <2>2
<1>3. /\ TruthNow'
      /\ \A k \in Kind : \A t : KindSince(k, t) /\ t \in Int => KindSince(k, t)'
      /\ \A c \in Content : \A t : ContentSince(c, t) /\ t \in Int => ContentSince(c, t)'
  BY <1>1, <1>2, TruthGrows DEF RecentInv
<1>4. EntryRecent'
  <2>1. entry.at - LoadMax \in Int /\ (entry.kind # "none" => entry.kind \in Kind) /\ entry.content \in Content
    <3>1. entry \in [kind : Kind \cup {"none"}, content : Content, at : Time]
      BY DEF RecentInv, ShareTyped
    <3>2. entry.at \in Nat
      BY <3>1, WindowTypes
    <3> QED BY <3>1, <3>2, WindowTypes
  <2> QED BY <1>1, <1>3, <2>1 DEF RecentInv, EntryRecent
<1>5. ASSUME NEW t \in Loader PROVE LoadRecent(req[t])'
  <2>1. req[t].since \in Nat /\ req[t].kind \in Kind /\ req[t].content \in Content
    BY WindowTypes DEF RecentInv, ShareTyped, TabRequests
  <2>2. LoadRecent(req[t])
    BY DEF RecentInv
  <2>3. req[t].pc \in {"lookup", "link", "photos", "store"} => req[t].since <= now' /\ now' - req[t].since <= LoadMax
    BY <1>1, <1>2, <2>1, <2>2, WindowTypes DEF LoadRecent
  <2>4. req'[t] = req[t]
    BY <1>1
  <2> QED BY <1>3, <2>1, <2>2, <2>3, <2>4 DEF LoadRecent
<1>6. AskedOK'
  BY <1>1 DEF RecentInv, AskedOK
<1> QED BY <1>3, <1>4, <1>5, <1>6 DEF RecentInv

(* A visitor's step changes nothing of it, and leaves his own request and   *)
(* the cache recent.                                                        *)
LEMMA RecentTab ==
    ASSUME RecentInv, NEW t \in Loader, TabStep(t)
    PROVE  RecentInv'
<1>1. /\ ShareTyped' /\ UNCHANGED <<now, link, content>>
      /\ \A u \in Loader : u # t => req'[u] = req[u]
  BY ShareTypedTab DEF RecentInv
<1>2. UNCHANGED lastTrue
  BY DEF TabStep, OpenPage, Lookup, LoadLink, LoadPhotos, Store, RefillFails, ClosePage, TryPassword, Verified,
         OpenContext, RecordView, InsertView, CountViews, PageUnchanged, UnlockUnchanged, ViewUnchanged
<1>3. TruthNow'
  BY <1>1, <1>2 DEF RecentInv, TruthNow
<1>4. /\ req[t] \in TabRequests /\ req \in [Loader -> TabRequests] /\ LoadRecent(req[t]) /\ now \in Nat
      /\ req[t].since \in Nat
  BY WindowTypes DEF RecentInv, ShareTyped, TabRequests
<1>5. LoadRecent(req[t])'
  <2>1. CASE OpenPage(t)
    <3>1. req'[t].pc = "lookup" /\ req'[t].since = now
      BY <1>4, <2>1 DEF OpenPage, IdleReq
    <3> QED BY <1>1, <1>4, <3>1, WindowTypes DEF LoadRecent
  <2>2. CASE Lookup(t)
    <3>1. req[t].pc = "lookup" /\ (req'[t].pc = "served" \/ req'[t] = [req[t] EXCEPT !.pc = "link"])
      BY <1>4, <2>2 DEF Lookup, TabRequests
    <3>2. req'[t].pc = "served" \/ (req'[t].pc = "link" /\ req'[t].since = req[t].since)
      BY <1>4, <3>1 DEF TabRequests
    <3> QED BY <1>1, <1>4, <3>1, <3>2 DEF LoadRecent
  <2>3. CASE LoadLink(t)
    <3>1. /\ req[t].pc = "link" /\ req'[t].kind = StatusOf(link, now) /\ req'[t].since = req[t].since
          /\ req'[t].pc = IF StatusOf(link, now) = "ok" THEN "photos" ELSE "store"
      BY <1>4, <2>3 DEF LoadLink, TabRequests
    <3>2. KindSince(StatusOf(link, now), req[t].since)
      BY <1>4, <3>1, WindowTypes DEF LoadRecent, KindSince, RecentInv, TruthNow
    <3> QED BY <1>1, <1>2, <1>4, <3>1, <3>2 DEF LoadRecent, KindSince, ContentSince
  <2>4. CASE LoadPhotos(t)
    <3>1. /\ req[t].pc = "photos" /\ req'[t].kind = req[t].kind /\ req'[t].since = req[t].since
          /\ req'[t].pc = "store" /\ req'[t].content = content
      BY <1>4, <2>4 DEF LoadPhotos, TabRequests
    <3>2. ContentSince(content, req[t].since)
      BY <1>4, <3>1, WindowTypes DEF LoadRecent, ContentSince, RecentInv, TruthNow
    <3> QED BY <1>1, <1>2, <1>4, <3>1, <3>2 DEF LoadRecent, KindSince, ContentSince
  <2>5. CASE Store(t) \/ RecordView(t) \/ InsertView(t)
    <3>1. req'[t].pc \in {"served", "idle", "insert", "count"}
      BY <1>4, <2>5 DEF Store, RecordView, InsertView, TabRequests
    <3> QED BY <3>1 DEF LoadRecent
  <2>6. CASE TryPassword(t) \/ OpenContext(t) \/ ClosePage(t) \/ Verified(t) \/ CountViews(t) \/ RefillFails(t)
    <3>1. req'[t].pc \in {"idle", "verify", "context"}
      BY <1>4, <2>6 DEF TryPassword, OpenContext, ClosePage, Verified, CountViews, RefillFails, IdleReq
    <3> QED BY <3>1 DEF LoadRecent
  <2> QED BY <2>1, <2>2, <2>3, <2>4, <2>5, <2>6 DEF TabStep
<1>6. EntryRecent'
  <2>1. CASE Store(t)
    <3>1. /\ req[t].pc = "store"
          /\ entry' = [kind |-> req[t].kind, content |-> req[t].content, at |-> now]
      BY <2>1 DEF Store
    <3>2. /\ KindSince(req[t].kind, req[t].since) /\ now - req[t].since <= LoadMax
          /\ req[t].kind = "ok" => ContentSince(req[t].content, req[t].since)
      BY <1>4, <3>1 DEF LoadRecent
    <3>3. /\ lastTrue \in Truths /\ req[t].kind \in Kind /\ req[t].content \in Content
      BY <1>4 DEF RecentInv, TruthNow, TabRequests
    <3>4. lastTrue.kind[req[t].kind] \in Int /\ lastTrue.content[req[t].content] \in Int
      <4>1. lastTrue.kind[req[t].kind] \in Time \cup {Never} /\ lastTrue.content[req[t].content] \in Time \cup {Never}
        BY <3>3 DEF Truths
      <4> QED BY <4>1, WindowTypes
    <3>5. now - LoadMax <= req[t].since
      BY <1>4, <3>2, WindowTypes
    <3> QED BY <1>2, <1>4, <3>1, <3>2, <3>4, <3>5, WindowTypes DEF EntryRecent, KindSince, ContentSince
  <2>2. CASE ~Store(t)
    <3>1. entry' = entry
      BY <2>2 DEF TabStep, OpenPage, Lookup, LoadLink, LoadPhotos, RefillFails, ClosePage, TryPassword, Verified,
         OpenContext, RecordView, InsertView, CountViews, UnlockUnchanged, ViewUnchanged
    <3> QED BY <1>2, <3>1 DEF RecentInv, EntryRecent, KindSince, ContentSince
  <2> QED BY <2>1, <2>2
<1>7. ASSUME NEW u \in Loader PROVE LoadRecent(req[u])'
  <2>1. CASE u = t
    BY <1>5, <2>1
  <2>2. CASE u # t
    BY <1>1, <1>2, <2>2 DEF RecentInv, LoadRecent, KindSince, ContentSince
  <2> QED BY <2>1, <2>2
<1>8. AskedOK'
  <2>1. CASE Store(t) \/ RefillFails(t)
    BY <2>1 DEF Store, RefillFails, AskedOK
  <2>2. CASE LoadLink(t) \/ LoadPhotos(t)
    <3>1. /\ UNCHANGED asked /\ req[t].pc \in {"link", "photos"}
          /\ req'[t].pc \in {"photos", "store"} /\ req'[t].since = req[t].since
      BY <1>4, <2>2 DEF LoadLink, LoadPhotos, TabRequests
    <3> QED BY <1>1, <3>1, ShareConstants DEF RecentInv, AskedOK
  <2>3. CASE t \in Tab /\ UNCHANGED asked
    BY <1>1, <2>3, ShareConstants DEF RecentInv, AskedOK
  <2> QED BY <2>1, <2>2, <2>3 DEF TabStep, OpenPage, Lookup, ClosePage, TryPassword, Verified, OpenContext,
             RecordView, InsertView, CountViews, UnlockUnchanged, ViewUnchanged
<1> QED BY <1>1, <1>3, <1>6, <1>7, <1>8 DEF RecentInv

(* An answer past its window leaves the cache, and a refill behind it.      *)
LEMMA RecentStale ==
    ASSUME RecentInv, NEW t \in Tab, LookupStale(t)
    PROVE  /\ RecentInv'
           /\ req'[t].pc = "served"
           /\ asked' # Never /\ now - asked' <= LoadMax
<1>1. PICK f \in Refill :
        /\ f # t /\ req[f].pc = "idle"
        /\ req'[f].pc = "link" /\ req'[f].since = now
        /\ \A u \in Loader : u # t /\ u # f => req'[u] = req[u]
  BY ShareTypedStale DEF RecentInv
<1>2. /\ ShareTyped' /\ UNCHANGED <<now, link, content, entry, lastTrue>> /\ req'[t].pc = "served"
      /\ now \in Nat /\ now \in Time
  BY ShareTypedStale, WindowTypes DEF RecentInv, ShareTyped
<1>3. TruthNow' /\ EntryRecent'
  BY <1>2 DEF RecentInv, TruthNow, EntryRecent, KindSince, ContentSince
<1>4. ASSUME NEW u \in Loader PROVE LoadRecent(req[u])'
  <2>1. CASE u = t
    BY <1>2, <2>1 DEF LoadRecent
  <2>2. CASE u = f
    BY <1>1, <1>2, <2>2, WindowTypes DEF LoadRecent
  <2>3. CASE u # t /\ u # f
    BY <1>1, <1>2, <2>3 DEF RecentInv, LoadRecent, KindSince, ContentSince
  <2> QED BY <2>1, <2>2, <2>3
<1>5. asked' = IF asked = Never THEN now ELSE asked
  BY DEF LookupStale
<1>6. CASE asked = Never
  <2>1. AskedOK' /\ asked' = now /\ asked' # Never
    BY <1>1, <1>2, <1>5, <1>6, WindowTypes DEF AskedOK
  <2> QED BY <1>2, <1>3, <1>4, <2>1, WindowTypes DEF RecentInv
<1>7. CASE asked # Never
  <2>1. PICK e \in Refill : req[e].pc \in {"link", "photos", "store"} /\ req[e].since = asked
    BY <1>7 DEF RecentInv, AskedOK
  <2>2. e # t /\ e # f /\ e \in Loader /\ req'[e] = req[e]
    BY <1>1, <2>1, ShareConstants
  <2>3. now - asked <= LoadMax
    BY <2>1, <2>2 DEF RecentInv, LoadRecent
  <2>4. AskedOK'
    BY <1>5, <1>7, <2>1, <2>2 DEF RecentInv, AskedOK
  <2> QED BY <1>2, <1>3, <1>4, <1>5, <1>7, <2>3, <2>4 DEF RecentInv
<1> QED BY <1>6, <1>7

(* Every step keeps it.                                                     *)
LEMMA RecentStep == RecentInv /\ [ShareNext]_shareVars => RecentInv'
<1> SUFFICES ASSUME RecentInv, [ShareNext]_shareVars PROVE RecentInv'
  OBVIOUS
<1>1. ShareTyped'
  BY ShareTypedStep DEF RecentInv
<1>2. CASE /\ UNCHANGED <<now, link, content, lastTrue, req>>
           /\ UNCHANGED <<entry, asked>> \/ (entry' = NoEntry /\ asked' = Never)
  BY <1>1, <1>2 DEF RecentInv, TruthNow, EntryRecent, AskedOK, LoadRecent, KindSince, ContentSince, NoEntry
<1>3. ASSUME NEW a \in Admin, Revalidate(a) PROVE RecentInv'
  BY <1>2, <1>3 DEF Revalidate, AdminUnchanged
<1>4. ASSUME NEW v \in Viewer, CookieLapses(v) PROVE RecentInv'
  BY <1>2, <1>4 DEF CookieLapses, UnlockUnchanged
<1>5. CASE UNCHANGED shareVars
  BY <1>2, <1>5 DEF shareVars
<1> QED BY <1>1, <1>3, <1>4, <1>5, RecentGrows, RecentTab, RecentStale, ShareConstants DEF ShareNext, TabStep

(* A page is served what it found itself, or what the cache held: past its  *)
(* window only while a refill is behind it.                                 *)
LEMMA ServedRecent ==
    ASSUME RecentInv, [ShareNext]_shareVars, NEW t \in Tab,
           req[t].pc # "served", req'[t].pc = "served"
    PROVE  RecentAnswer(req'[t]) \/ (asked' # Never /\ now - asked' <= LoadMax)
<1>0. t \in Loader
  BY ShareConstants
<1>1. /\ req[t] \in TabRequests /\ req \in [Loader -> TabRequests] /\ LoadRecent(req[t]) /\ now \in Nat
      /\ entry \in [kind : Kind \cup {"none"}, content : Content, at : Time] /\ lastTrue \in Truths
  BY <1>0, WindowTypes DEF RecentInv, ShareTyped, TruthNow
<1>5. SUFFICES ASSUME ~(asked' # Never /\ now - asked' <= LoadMax) PROVE RecentAnswer(req'[t])
  OBVIOUS
<1>2. Lookup(t) \/ Store(t)
  <2>1. CASE UNCHANGED req
    BY <2>1
  <2>2. CASE \E u \in Loader : TabStep(u)
    <3>1. PICK u \in Loader : TabStep(u)
      BY <2>2
    <3>2. u = t
      BY <1>0, <3>1, ShareTypedTab DEF RecentInv
    <3>3. ~(\/ OpenPage(t) \/ TryPassword(t) \/ OpenContext(t) \/ ClosePage(t) \/ Verified(t) \/ CountViews(t)
            \/ RefillFails(t))
      BY <1>0, EndsOfRequest DEF RecentInv
    <3>4. ~(LoadLink(t) \/ LoadPhotos(t) \/ RecordView(t) \/ InsertView(t))
      BY <1>0, <1>1 DEF LoadLink, LoadPhotos, RecordView, InsertView, TabRequests
    <3> QED BY <3>1, <3>2, <3>3, <3>4 DEF TabStep
  <2>3. ASSUME NEW u \in Tab, LookupStale(u) PROVE FALSE
    <3>1. asked' # Never /\ now - asked' <= LoadMax
      BY <2>3, RecentStale
    <3> QED BY <1>5, <3>1
  <2> QED BY <2>1, <2>2, <2>3, ShareConstants DEF ShareNext, TabStep, CreateShareLink, UpdateShareLink,
             RevokeShareLink, ChangeAlbum, Revalidate, WorkerPublishes, Tick, CookieLapses, AdminUnchanged,
             UnlockUnchanged, shareVars
<1>3. PICK since \in Int :
        /\ KindSince(req'[t].kind, since) /\ (req'[t].kind = "ok" => ContentSince(req'[t].content, since))
        /\ now - since < PageWindow + LoadMax /\ req'[t].kind \in Kind /\ req'[t].content \in Content
  <2>1. CASE Store(t)
    <3>1. /\ req[t].pc = "store" /\ req'[t].kind = req[t].kind /\ req'[t].content = req[t].content
      BY <1>0, <1>1, <2>1, ShareConstants DEF Store, TabRequests
    <3>2. req[t].since \in Nat /\ req[t].kind \in Kind /\ req[t].content \in Content
      BY <1>1, WindowTypes DEF TabRequests
    <3>3. now - req[t].since < PageWindow + LoadMax
      BY <1>1, <3>1, <3>2, WindowTypes DEF LoadRecent
    <3> QED BY <1>1, <3>1, <3>2, <3>3 DEF LoadRecent
  <2>2. CASE Lookup(t)
    <3>1. Fresh /\ req'[t].kind = entry.kind /\ req'[t].content = entry.content
      BY <1>0, <1>1, <2>2 DEF Lookup, TabRequests
    <3>2. entry.at \in Nat /\ entry.kind \in Kind /\ entry.content \in Content /\ now - entry.at < PageWindow
      BY <1>1, <3>1, WindowTypes DEF Fresh
    <3>3. /\ KindSince(entry.kind, entry.at - LoadMax)
          /\ entry.kind = "ok" => ContentSince(entry.content, entry.at - LoadMax)
      BY <3>1 DEF RecentInv, EntryRecent, Fresh
    <3>4. entry.at - LoadMax \in Int /\ now - (entry.at - LoadMax) < PageWindow + LoadMax
      BY <1>1, <3>2, WindowTypes
    <3> QED BY <3>1, <3>2, <3>3, <3>4
  <2> QED BY <1>2, <2>1, <2>2
<1>4. lastTrue.kind[req'[t].kind] \in Int /\ lastTrue.content[req'[t].content] \in Int
  <2>1. lastTrue.kind[req'[t].kind] \in Time \cup {Never} /\ lastTrue.content[req'[t].content] \in Time \cup {Never}
    BY <1>1, <1>3 DEF Truths
  <2> QED BY <2>1, WindowTypes
<1> QED BY <1>1, <1>3, <1>4, WindowTypes DEF RecentAnswer, KindSince, ContentSince

(* The states of a behaviour have the invariant.                             *)
LEMMA RecentHolds == ShareSpec => []RecentInv
<1>1. ShareInit => RecentInv
  <2> SUFFICES ASSUME ShareInit PROVE RecentInv
    OBVIOUS
  <2>1. lastTrue \in Truths
    BY ShareConstants, WindowTypes DEF ShareInit, Truths
  <2>2. StatusOf(link, now) = "not_found" /\ "not_found" \in Kind
    BY DEF ShareInit, StatusOf, NoLinkYet, Kind
  <2>3. TruthNow
    BY <2>1, <2>2, ShareConstants, WindowTypes DEF ShareInit, TruthNow
  <2> QED BY <2>3, ShareTypedInit DEF RecentInv, ShareInit, EntryRecent, AskedOK, NoEntry, LoadRecent, IdleReq
<1> QED BY <1>1, RecentStep, PTL DEF ShareSpec

(* What the theorems above do not need of the types.                         *)
SeenTyped ==
    /\ unlocked \subseteq Viewer /\ late \in BOOLEAN
    /\ views \subseteq [viewer : Viewer, at : Time, n : Nat]

LEMMA SeenStep == ASSUME FirstInv, SeenTyped, [ShareNext]_shareVars PROVE SeenTyped'
<1>1. now \in Time /\ Cardinality(views) \in Nat /\ \A t \in Tab : ViewerOf[t] \in Viewer
  BY ViewsCount, ShareAssumption DEF FirstInv, ShareTyped
<1>2. unlocked' \subseteq Viewer
  <2>1. CASE \E t \in Loader : TabStep(t)
    BY <1>1, <2>1 DEF SeenTyped, TabStep, OpenPage, Lookup, LoadLink, LoadPhotos, Store, RefillFails, ClosePage, TryPassword,
           Verified, OpenContext, RecordView, InsertView, CountViews, PageUnchanged, UnlockUnchanged, ViewUnchanged
  <2>2. CASE ~\E t \in Loader : TabStep(t)
    BY <2>2, ShareConstants DEF SeenTyped, ShareNext, TabStep, LookupStale, PageUnchanged, CreateShareLink, UpdateShareLink, RevokeShareLink, ChangeAlbum,
           Revalidate, WorkerPublishes, CookieLapses, Tick, AdminUnchanged, shareVars
  <2> QED BY <2>1, <2>2
<1>3. late' \in BOOLEAN
  BY DEF SeenTyped, ShareNext, CreateShareLink, UpdateShareLink, RevokeShareLink, ChangeAlbum, Revalidate,
         WorkerPublishes, CookieLapses, Tick, OpenPage, Lookup, LookupStale, LoadLink, LoadPhotos, Store, RefillFails, ClosePage,
         TryPassword, Verified, OpenContext, RecordView, InsertView, CountViews, PageUnchanged,
         UnlockUnchanged, ViewUnchanged, shareVars
<1>4. views' \subseteq [viewer : Viewer, at : Time, n : Nat]
  <2>1. CASE \E t \in Tab : InsertView(t)
    BY <1>1, <2>1 DEF SeenTyped, InsertView
  <2>2. CASE ~\E t \in Tab : InsertView(t)
    <3>1. views' = views \/ views' = {}
      BY <2>2 DEF ShareNext, CreateShareLink, UpdateShareLink, RevokeShareLink, ChangeAlbum, Revalidate,
         WorkerPublishes, CookieLapses, Tick, OpenPage, Lookup, LookupStale, LoadLink, LoadPhotos, Store, RefillFails, ClosePage,
         TryPassword, Verified, OpenContext, RecordView, CountViews, PageUnchanged,
         UnlockUnchanged, ViewUnchanged, shareVars
    <3> QED BY <3>1 DEF SeenTyped
  <2> QED BY <2>1, <2>2
<1> QED BY <1>2, <1>3, <1>4 DEF SeenTyped

(* The states are typed.                                                     *)
LEMMA ShareAlwaysTyped == ShareSpec => []ShareTypeOK
<1>1. ShareInit => SeenTyped
  BY DEF ShareInit, SeenTyped
<1>2. FirstInv /\ SeenTyped /\ [ShareNext]_shareVars => SeenTyped'
  BY SeenStep
<1>3. FirstInv /\ RecentInv /\ SeenTyped => ShareTypeOK
  <2> SUFFICES ASSUME FirstInv, RecentInv, SeenTyped PROVE ShareTypeOK
    OBVIOUS
  <2>1. told \in Nat
    BY DEF FirstInv, FirstOK
  <2>2. lastTrue \in [kind : [Kind -> Time \cup {Never}], content : [Content -> Time \cup {Never}]]
    BY DEF RecentInv, TruthNow, Truths
  <2> QED BY <2>1, <2>2 DEF FirstInv, ShareTyped, Links, TabRequests, SeenTyped, RecentInv, AskedOK, ShareTypeOK
<1> QED BY FirstHolds, RecentHolds, <1>1, <1>2, <1>3, PTL DEF ShareSpec

(* Whatever loads, entries and clocks do to each other, a page shows a      *)
(* status and photos that were true at most a cache window and a load ago,  *)
(* or its visitor came past the window, at most a load after the first who  *)
(* did.                                                                     *)
THEOREM PageAlwaysRecent == ShareSpec => PageIsRecent
<1>1. RecentInv /\ [ShareNext]_shareVars =>
        [\A t \in Tab :
         (req[t].pc # "served" /\ req'[t].pc = "served") =>
            RecentAnswer(req'[t]) \/ (asked' # Never /\ now - asked' <= LoadMax)]_shareVars
  BY ServedRecent
<1> QED BY RecentHolds, <1>1, PTL DEF ShareSpec, PageIsRecent
=============================================================================
