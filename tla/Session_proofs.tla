---------------------------- MODULE Session_proofs ----------------------------
(* Proofs about Session, for any accounts, refreshes, tokens, users and      *)
(* troubles: that open connections hold the credentials of the session, that *)
(* a logout stays, that an answer which is in is adopted, types, and what a  *)
(* calm user may count on: one account, one refresh, IDLE with its token.    *)
EXTENDS Session, FiniteSetTheorems, TLAPS

-----------------------------------------------------------------------------
(* The connections of the front and of the background.                       *)
CurrentLink(link) == link.open => link.token = token /\ link.user = user

LEMMA RebuiltCurrent ==
    ASSUME NEW t, NEW u
    PROVE  Rebuilt(t, u).open => Rebuilt(t, u).token = t /\ Rebuilt(t, u).user = u
BY DEF Rebuilt, NoLink, Link

LEMMA ReconnectCurrent ==
    ASSUME Reconnect(token', user')
    PROVE  ConnectionsCurrent'
BY RebuiltCurrent DEF Reconnect, ConnectionsCurrent, NoLink

LEMMA BackgroundCurrent ==
    ASSUME ConnectionsCurrent, UNCHANGED <<token, user, backend>>, bgImap' = Background
    PROVE  ConnectionsCurrent'
BY DEF ConnectionsCurrent, Background, NoLink

LEMMA FetchCurrent == ASSUME ConnectionsCurrent, Fetch PROVE ConnectionsCurrent'
<1>1. CASE Fresh \/ AwaitRefresh \/ StartRefresh
  BY <1>1, BackgroundCurrent DEF Fresh, AwaitRefresh, StartRefresh, config
<1>2. CASE DrainToken
  BY <1>2, ReconnectCurrent DEF DrainToken
<1>3. CASE DrainError
  BY <1>3 DEF DrainError, ConnectionsCurrent, NoLink
<1> QED
  BY <1>1, <1>2, <1>3 DEF Fetch

LEMMA TickCurrent == ASSUME ConnectionsCurrent, Tick PROVE ConnectionsCurrent'
<1>1. CASE login.active /\ Poll.kind = "ok"
  BY <1>1, ReconnectCurrent DEF Tick, Adopt
<1>2. CASE ~(login.active /\ Poll.kind = "ok")
  BY <1>2, BackgroundCurrent DEF Tick, config
<1> QED
  BY <1>1, <1>2

LEMMA StartCurrent == ASSUME NEW saved, StartFrom(saved) PROVE ConnectionsCurrent'
BY RebuiltCurrent DEF StartFrom, ConnectionsCurrent, NoLink

(* Whoever refreshes, signs in or out or changes a setting, an open          *)
(* connection authenticates with the token and the address of the session.   *)
THEOREM SessionConnections == Spec => []ConnectionsCurrent
<1>1. Init => ConnectionsCurrent
  BY DEF Init, ConnectionsCurrent, NoLink
<1>2. ConnectionsCurrent /\ [Next]_vars => ConnectionsCurrent'
  <2> SUFFICES ASSUME ConnectionsCurrent, [Next]_vars PROVE ConnectionsCurrent'
    OBVIOUS
  <2>1. CASE Fetch
    BY <2>1, FetchCurrent
  <2>2. CASE Tick
    BY <2>2, TickCurrent
  <2>3. CASE OpenBackground
    BY <2>3 DEF OpenBackground, ConnectionsCurrent, Link, config
  <2>4. CASE SendRefreshes
    BY <2>4, ReconnectCurrent DEF SendRefreshes
  <2>5. CASE Logout
    BY <2>5 DEF Logout, ConnectionsCurrent, NoLink
  <2>6. ASSUME NEW a \in Accounts, ChangeUser(a) PROVE ConnectionsCurrent'
    BY <2>6, ReconnectCurrent DEF ChangeUser
  <2>7. CASE Restart
    BY <2>7, StartCurrent DEF Restart
  <2>8. CASE DieInLogin
    BY <2>8, StartCurrent DEF DieInLogin
  <2>9. CASE UNCHANGED <<config, links>>
    BY <2>9 DEF config, links, ConnectionsCurrent
  <2>10. CASE Navigate \/ StartLogin \/ LoginDeadline
    BY <2>9, <2>10 DEF Navigate, StartLogin, LoginDeadline
  <2>11. ASSUME NEW t \in Tasks, TaskStep(t) \/ Panic(t) PROVE ConnectionsCurrent'
    BY <2>9, <2>11 DEF TaskStep, Publish, Clear, Signal, Panic
  <2>12. ASSUME NEW a \in Accounts, AnswerLogin(a) PROVE ConnectionsCurrent'
    BY <2>9, <2>12 DEF AnswerLogin
  <2>13. ASSUME NEW n \in 1..MaxTokens, Expire(n) PROVE ConnectionsCurrent'
    BY <2>9, <2>13 DEF Expire
  <2>14. CASE UNCHANGED vars
    BY <2>9, <2>14 DEF vars
  <2> QED
    BY <2>1, <2>2, <2>3, <2>4, <2>5, <2>6, <2>7, <2>8, <2>10, <2>11, <2>12, <2>13,
       <2>14 DEF Next
<1> QED
  BY <1>1, <1>2, PTL DEF Spec

-----------------------------------------------------------------------------
(* A restart takes what was saved: after a logout that is no token either.   *)
SignedOut == loggedOut => token = NoToken /\ disk.token = NoToken

LEMMA HeldToken == ASSUME SignedOut, NeedsRefresh PROVE ~loggedOut
BY DEF SignedOut, NeedsRefresh

LEMMA FetchSignedOut == ASSUME SignedOut, Fetch PROVE SignedOut'
<1>0. UNCHANGED loggedOut
  BY DEF Fetch
<1>1. CASE Fresh
  BY <1>0, <1>1 DEF Fresh, config, SignedOut
<1>2. CASE NeedsRefresh
  BY <1>0, <1>2, HeldToken DEF SignedOut
<1> QED
  BY <1>1, <1>2 DEF Fetch, Fresh, DrainToken, DrainError, AwaitRefresh, StartRefresh

LEMMA TickSignedOut == ASSUME SignedOut, Tick PROVE SignedOut'
<1>1. CASE login.active /\ Poll.kind = "ok"
  BY <1>1 DEF Tick, Adopt, SignedOut
<1>2. CASE ~(login.active /\ Poll.kind = "ok")
  BY <1>2 DEF Tick, config, SignedOut
<1> QED
  BY <1>1, <1>2

(* After a logout that was saved, no late refresh and no restart brings the  *)
(* session back.                                                             *)
THEOREM SessionLoggedOut == Spec => []LoggedOutStays
<1>1. Init => SignedOut
  BY DEF Init, SignedOut
<1>2. SignedOut /\ [Next]_vars => SignedOut'
  <2> SUFFICES ASSUME SignedOut, [Next]_vars PROVE SignedOut'
    OBVIOUS
  <2>1. CASE Fetch
    BY <2>1, FetchSignedOut
  <2>2. CASE Tick
    BY <2>2, TickSignedOut
  <2>3. CASE SendRefreshes
    BY <2>3, HeldToken DEF SendRefreshes, SignedOut
  <2>4. CASE Logout
    <3>1. token' = NoToken
      BY <2>4 DEF Logout
    <3>2. CASE Saved(NoToken, None)
      <4>1. disk'.token = NoToken
        BY <3>2 DEF Saved
      <4> QED
        BY <3>1, <4>1 DEF SignedOut, NoToken
    <3>3. CASE UNCHANGED <<disk, loggedOut>>
      BY <3>1, <3>3 DEF SignedOut, NoToken
    <3> QED
      BY <2>4, <3>2, <3>3 DEF Logout
  <2>5. CASE Restart
    BY <2>5 DEF Restart, StartFrom, SignedOut
  <2>6. CASE DieInLogin
    BY <2>6 DEF DieInLogin, SignedOut
  <2>7. CASE UNCHANGED <<token, disk, loggedOut>>
    BY <2>7 DEF SignedOut
  <2>8. CASE OpenBackground \/ Navigate \/ StartLogin \/ LoginDeadline
    BY <2>7, <2>8 DEF OpenBackground, Navigate, StartLogin, LoginDeadline, config
  <2>9. ASSUME NEW t \in Tasks, TaskStep(t) \/ Panic(t) PROVE SignedOut'
    BY <2>7, <2>9 DEF TaskStep, Publish, Clear, Signal, Panic, config
  <2>10. ASSUME NEW a \in Accounts, AnswerLogin(a) \/ ChangeUser(a) PROVE SignedOut'
    BY <2>7, <2>10 DEF AnswerLogin, ChangeUser, config
  <2>11. ASSUME NEW n \in 1..MaxTokens, Expire(n) PROVE SignedOut'
    BY <2>7, <2>11 DEF Expire, config
  <2>12. CASE UNCHANGED vars
    BY <2>7, <2>12 DEF vars, config
  <2> QED
    BY <2>1, <2>2, <2>3, <2>4, <2>5, <2>6, <2>8, <2>9, <2>10, <2>11, <2>12 DEF Next
<1>3. SignedOut => LoggedOutStays
  BY DEF SignedOut, LoggedOutStays
<1> QED
  BY <1>1, <1>2, <1>3, PTL DEF Spec

-----------------------------------------------------------------------------
(* There is an answer only while a login is under way.                       *)
AnswerOfLogin ==
    /\ DOMAIN login = DOMAIN NoLogin
    /\ login.answer.kind = "ok" => login.active

LEMMA AnswerStep == AnswerOfLogin /\ [Next]_vars => AnswerOfLogin'
<1> SUFFICES ASSUME AnswerOfLogin, [Next]_vars PROVE AnswerOfLogin'
  OBVIOUS
<1>1. CASE login' = NoLogin
  BY <1>1 DEF AnswerOfLogin, NoLogin, NoResult
<1>2. CASE UNCHANGED login
  BY <1>2 DEF AnswerOfLogin
<1>3. ASSUME NEW a \in Accounts, AnswerLogin(a) PROVE AnswerOfLogin'
  <2>1. CASE login' = [login EXCEPT !.answer = Failure]
    <3>1. DOMAIN login' = DOMAIN login
      BY <2>1
    <3>2. login'.active = login.active
      BY <2>1, "active" \in DOMAIN login DEF AnswerOfLogin, NoLogin
    <3> QED
      BY <1>3, <3>1, <3>2 DEF AnswerLogin, AnswerOfLogin
  <2>2. ASSUME NEW tokens, NEW e,
               login' = [active |-> TRUE, answer |-> Ok(tokens[1]),
                         refresh |-> tokens[2], email |-> e, late |-> login.late]
        PROVE  AnswerOfLogin'
    BY <2>2 DEF AnswerOfLogin, NoLogin
  <2> QED
    BY <1>3, <2>1, <2>2 DEF AnswerLogin
<1>4. CASE LoginDeadline
  BY <1>4 DEF LoginDeadline, AnswerOfLogin
<1>5. CASE StartLogin
  BY <1>5 DEF StartLogin, Browsing, NoLogin, NoResult, AnswerOfLogin
<1>6. CASE Tick
  BY <1>1, <1>2, <1>6 DEF Tick
<1>7. CASE Restart \/ DieInLogin
  BY <1>1, <1>7 DEF Restart, DieInLogin, StartFrom
<1>8. CASE Fetch \/ Navigate \/ OpenBackground \/ SendRefreshes \/ Logout
  BY <1>2, <1>8 DEF Fetch, Navigate, OpenBackground, SendRefreshes, Logout
<1>9. ASSUME NEW t \in Tasks, TaskStep(t) \/ Panic(t) PROVE AnswerOfLogin'
  BY <1>2, <1>9 DEF TaskStep, Publish, Clear, Signal, Panic
<1>10. ASSUME NEW a \in Accounts, ChangeUser(a) PROVE AnswerOfLogin'
  BY <1>2, <1>10 DEF ChangeUser
<1>11. ASSUME NEW n \in 1..MaxTokens, Expire(n) PROVE AnswerOfLogin'
  BY <1>2, <1>11 DEF Expire
<1>12. CASE UNCHANGED vars
  BY <1>2, <1>12 DEF vars
<1> QED
  BY <1>3, <1>4, <1>5, <1>6, <1>7, <1>8, <1>9, <1>10, <1>11, <1>12 DEF Next

LEMMA TickAdopts ==
    ASSUME AnswerOfLogin, Tick, login.answer.kind = "ok"
    PROVE  token' = login.answer.token
<1>1. Poll = login.answer
  BY DEF Poll, NoResult
<1> QED
  BY <1>1 DEF AnswerOfLogin, Tick, Adopt

(* An answer that arrived before the app looked is adopted, whether or not   *)
(* the deadline has passed in between.                                       *)
THEOREM SessionAnswer == Spec => AnswerKept
<1>1. Init => AnswerOfLogin
  BY DEF Init, AnswerOfLogin, NoLogin, NoResult
<1>2. AnswerOfLogin /\ [Next]_vars
        => [Tick /\ login.answer.kind = "ok" => token' = login.answer.token]_vars
  BY TickAdopts
<1> QED
  BY <1>1, <1>2, AnswerStep, PTL DEF Spec, AnswerKept

-----------------------------------------------------------------------------
(* Types.  A task that asks does so for an account.                          *)
Asking(t) == tasks[t].at = "asking"
Asked == \A t \in Tasks : Asking(t) => tasks[t].acct \in Accounts
Typed == TypeOK /\ Asked

Disks == [token: MaybeToken, refresh: Holder, user: Holder]

LEMMA Values ==
    /\ NoToken \in MaybeToken /\ None \in Holder /\ Accounts \subseteq Holder
    /\ NoResult \in Result /\ Failure \in Result
    /\ NoLink \in Links /\ FreeTask \in Task
    /\ NoLogin \in Login /\ Browsing \in Login
    /\ \A t \in MaybeToken, u \in Holder : Link(t, u) \in Links
    /\ \A t \in MaybeToken, r \in Holder, u \in Holder :
          [token |-> t, refresh |-> r, user |-> u] \in Disks
<1>1. NoToken \in MaybeToken /\ None \in Holder /\ Accounts \subseteq Holder
  BY DEF MaybeToken, Holder
<1>2. NoResult \in Result /\ Failure \in Result /\ FreeTask \in Task
  BY <1>1 DEF NoResult, Failure, Result, FreeTask, Task
<1>3. NoLogin \in Login
  BY <1>1, <1>2 DEF NoLogin, Login
<1>4. Browsing \in Login
  BY <1>3 DEF Browsing, Login
<1> QED
  BY <1>1, <1>2, <1>3, <1>4 DEF NoLink, Link, Links, Disks

LEMMA ReconnectType ==
    ASSUME NEW t \in MaybeToken, NEW u \in Holder, Reconnect(t, u)
    PROVE  backend' \in Links /\ bgImap' \in Links
BY Values DEF Reconnect, Rebuilt

LEMMA TroubleType ==
    ASSUME TypeOK, Trouble
    PROVE  troubles' \in 0..MaxTroubles
BY BoundsAssumption DEF TypeOK, Trouble

LEMMA SavedType ==
    ASSUME TypeOK, NEW t \in MaybeToken, NEW r \in Holder, Saved(t, r)
    PROVE  disk' \in Disks
BY Values DEF Saved, TypeOK, Disks

LEMMA SaveTokensType ==
    ASSUME TypeOK, NEW t \in MaybeToken, NEW r \in Holder, SaveTokens(t, r)
    PROVE  disk' \in Disks /\ troubles' \in 0..MaxTroubles
BY SavedType, TroubleType DEF SaveTokens, SaveFails, TypeOK, Disks

LEMMA SaveLoginType ==
    ASSUME TypeOK, NEW t \in MaybeToken, NEW r \in Holder, NEW u \in Holder, SaveLogin(t, r, u)
    PROVE  disk' \in Disks /\ troubles' \in 0..MaxTroubles
<1>1. [disk EXCEPT !.user = u] \in Disks
  BY DEF TypeOK, Disks
<1> QED
  BY <1>1, Values, SavedType, TroubleType DEF SaveLogin, SaveFails, TypeOK

(* Google's answers for an account; a token it gives out is a new one.       *)
LEMMA NewTokenType ==
    ASSUME TypeOK, NEW a \in Accounts, CanIssue
    PROVE  /\ NewToken(a) \in Token /\ Ok(NewToken(a)) \in Result
           /\ Ok(NewToken(a)).kind = "ok" /\ Ok(NewToken(a)).token = NewToken(a)
           /\ NewToken(a).serial = issued + 1 /\ NewToken(a).acct = a
           /\ issued + 1 \in 0..MaxTokens
<1>1. issued + 1 \in 1..MaxTokens
  BY BoundsAssumption DEF TypeOK, CanIssue
<1> QED
  BY <1>1 DEF NewToken, Token, Ok, Result, MaybeToken

LEMMA AnswersType ==
    ASSUME TypeOK, NEW a \in Accounts, NEW r \in RefreshAnswers(a), Answered(r)
    PROVE  /\ r \in Result /\ issued' \in 0..MaxTokens /\ due' = due
           /\ \/ r = Failure /\ issued' = issued
              \/ r = Ok(NewToken(a)) /\ CanIssue /\ issued' = issued + 1
<1>1. CASE r = Failure
  BY <1>1, Values DEF Answered, Failure, TypeOK
<1>2. CASE r = Ok(NewToken(a)) /\ CanIssue
  BY <1>2, NewTokenType DEF Answered
<1> QED
  BY <1>1, <1>2 DEF RefreshAnswers

LEMMA BackgroundType ==
    ASSUME TypeOK
    PROVE  Background \in Links /\ Inflight \in BOOLEAN
BY Values DEF Background, Inflight, TypeOK

LEMMA WatchType ==
    ASSUME TypeOK, NEW t \in MaybeToken, NEW now \in Links, Watch(t, now)
    PROVE  idle' \in Links
BY Values DEF Watch, TypeOK

LEMMA InitTyped == Init => Typed
<1> SUFFICES ASSUME Init PROVE Typed
  OBVIOUS
<1>1. tasks \in [Tasks -> Task] /\ Asked
  BY Values DEF Init, Asked, Asking, FreeTask
<1>2. /\ calm \in BOOLEAN /\ issued \in 0..MaxTokens /\ due \subseteq 1..MaxTokens
      /\ troubles \in 0..MaxTroubles
  BY BoundsAssumption DEF Init
<1> QED
  BY <1>1, <1>2, Values DEF Init, Typed, TypeOK, Disks

LEMMA FetchTyped == ASSUME Typed, Fetch PROVE Typed'
<1>0. /\ TypeOK /\ panicked' = FALSE /\ render' = FALSE /\ completed' \in BOOLEAN
      /\ UNCHANGED <<calm, place, login, loggedOut, issued, due>>
      /\ Fresh \/ DrainToken \/ DrainError \/ AwaitRefresh \/ StartRefresh
  BY DEF Fetch, google, Typed, TypeOK
<1>1. CASE Fresh
  <2>1. idle' \in Links
    BY <1>0, <1>1, WatchType DEF Fresh, TypeOK
  <2> QED
    BY <1>0, <1>1, <2>1, BackgroundType DEF Fresh, config, Typed, TypeOK, Asked, Asking
<1>2. CASE DrainToken
  <2>1. slot.token \in MaybeToken
    BY <1>0 DEF TypeOK, Result
  <2>2. Told(slot.token) \in Links
    BY <1>0, <2>1 DEF Told, TypeOK, Links
  <2>3. idle' \in Links /\ backend' \in Links /\ bgImap' \in Links
    BY <1>0, <1>2, <2>1, <2>2, WatchType, ReconnectType DEF DrainToken, TypeOK
  <2>4. disk' \in Disks /\ troubles' \in 0..MaxTroubles
    BY <1>0, <1>2, <2>1, SaveTokensType DEF DrainToken, TypeOK
  <2> QED
    BY <1>0, <1>2, <2>1, <2>3, <2>4, Values DEF DrainToken, Typed, TypeOK, Asked, Asking, Disks
<1>3. CASE DrainError
  <2>1. idle' \in Links
    BY <1>0, <1>3, Values, WatchType DEF DrainError, TypeOK
  <2>2. disk' \in Disks /\ troubles' \in 0..MaxTroubles
    BY <1>0, <1>3, Values, SaveTokensType DEF DrainError, TypeOK
  <2> QED
    BY <1>0, <1>3, <2>1, <2>2, Values DEF DrainError, Typed, TypeOK, Asked, Asking, Disks
<1>4. CASE AwaitRefresh
  BY <1>0, <1>4, BackgroundType DEF AwaitRefresh, config, Typed, TypeOK, Asked, Asking
<1>5. CASE StartRefresh
  <2>1. PICK t \in Tasks : tasks' = [tasks EXCEPT ![t] = [at |-> "asking", acct |-> refresh]]
    BY <1>5 DEF StartRefresh
  <2>2. refresh \in Accounts
    BY <1>0, <1>5 DEF StartRefresh, NeedsRefresh, TypeOK, Holder
  <2>3. [at |-> "asking", acct |-> refresh] \in Task
    BY <2>2, Values DEF Task
  <2>4. tasks' \in [Tasks -> Task] /\ Asked'
    BY <1>0, <2>1, <2>2, <2>3 DEF Typed, TypeOK, Asked, Asking
  <2> QED
    BY <1>0, <1>5, <2>4, BackgroundType DEF StartRefresh, config, Typed, TypeOK
<1> QED
  BY <1>0, <1>1, <1>2, <1>3, <1>4, <1>5

LEMMA TaskTyped ==
    ASSUME Typed, NEW t \in Tasks, TaskStep(t) \/ Panic(t)
    PROVE  Typed'
<1>0. TypeOK /\ Asked
  BY DEF Typed
<1>1. CASE Publish(t)
  <2>1. tasks[t].acct \in Accounts
    BY <1>0, <1>1 DEF Publish, Asked, Asking
  <2>2. slot' \in Result /\ issued' \in 0..MaxTokens /\ due' = due
    BY <1>0, <1>1, <2>1, AnswersType DEF Publish
  <2>3. tasks' \in [Tasks -> Task] /\ Asked'
    BY <1>0, <1>1, Values DEF Publish, TypeOK, Task, Asked, Asking
  <2> QED
    BY <1>0, <1>1, <2>2, <2>3 DEF Publish, config, links, Typed, TypeOK
<1>2. CASE Clear(t)
  <2>1. tasks' \in [Tasks -> Task] /\ Asked'
    BY <1>0, <1>2, Values DEF Clear, TypeOK, Task, Asked, Asking
  <2> QED
    BY <1>0, <1>2, <2>1 DEF Clear, config, links, google, Typed, TypeOK
<1>3. CASE Signal(t)
  <2>1. tasks' \in [Tasks -> Task] /\ Asked'
    BY <1>0, <1>3, Values DEF Signal, TypeOK, FreeTask, Asked, Asking
  <2> QED
    BY <1>0, <1>3, <2>1 DEF Signal, config, links, google, Typed, TypeOK
<1>4. CASE Panic(t)
  <2>1. tasks' \in [Tasks -> Task] /\ Asked'
    BY <1>0, <1>4, Values DEF Panic, TypeOK, FreeTask, Asked, Asking
  <2> QED
    BY <1>0, <1>4, <2>1, TroubleType DEF Panic, config, links, google, Typed, TypeOK
<1> QED
  BY <1>1, <1>2, <1>3, <1>4 DEF TaskStep

LEMMA TickTyped == ASSUME Typed, Tick PROVE Typed'
<1>0. /\ TypeOK /\ Asked
      /\ completed' \in BOOLEAN /\ panicked' = FALSE /\ inflight' \in BOOLEAN
      /\ UNCHANGED <<calm, idle, slot, tasks, loading, issued, due>>
  BY BackgroundType DEF Tick, google, Typed, TypeOK
<1>1. CASE login.active /\ Poll.kind = "ok"
  <2>1. Poll.token \in MaybeToken /\ login.refresh \in Holder /\ LoginName \in Holder
    BY <1>0, Values DEF Poll, LoginName, TypeOK, Login, Result
  <2>2. Adopt(Poll.token) /\ login' = NoLogin /\ render' = TRUE
    BY <1>1 DEF Tick
  <2>3. /\ backend' \in Links /\ bgImap' \in Links
        /\ disk' \in Disks /\ troubles' \in 0..MaxTroubles
    BY <1>0, <2>1, <2>2, ReconnectType, SaveLoginType DEF Adopt
  <2> QED
    BY <1>0, <2>1, <2>2, <2>3, Values DEF Adopt, Typed, TypeOK, Asked, Asking, Disks
<1>2. CASE ~(login.active /\ Poll.kind = "ok")
  <2>1. login' \in Login /\ render' \in BOOLEAN
    BY <1>0, <1>2, Values DEF Tick, TypeOK
  <2>2. bgImap' = Background
        /\ UNCHANGED <<place, token, refresh, user, disk, backend, loggedOut, troubles>>
    BY <1>2 DEF Tick, config
  <2> QED
    BY <1>0, <2>1, <2>2, BackgroundType DEF Typed, TypeOK, Asked, Asking
<1> QED
  BY <1>1, <1>2

LEMMA LoginTyped ==
    ASSUME Typed, StartLogin \/ LoginDeadline \/ \E a \in Accounts : AnswerLogin(a)
    PROVE  Typed'
<1>0. /\ TypeOK /\ Asked
      /\ UNCHANGED <<calm, place, token, refresh, user, disk, backend, bgImap, idle,
                     inflight, slot, tasks, panicked, completed, loading, render,
                     loggedOut, troubles>>
  BY DEF StartLogin, LoginDeadline, AnswerLogin, config, links, refreshing, Typed
<1>1. login' \in Login /\ issued' \in 0..MaxTokens /\ due' = due
  <2>1. CASE StartLogin
    BY <1>0, <2>1, Values DEF StartLogin, google, TypeOK
  <2>2. CASE LoginDeadline
    BY <1>0, <2>2 DEF LoginDeadline, google, TypeOK, Login
  <2>3. ASSUME NEW a \in Accounts, AnswerLogin(a)
        PROVE  login' \in Login /\ issued' \in 0..MaxTokens /\ due' = due
    <3>1. CASE login' = [login EXCEPT !.answer = Failure] /\ UNCHANGED google
      BY <1>0, <3>1, Values DEF google, TypeOK, Login
    <3>2. ASSUME NEW tokens \in Exchanged(a), NEW e \in Addresses(a),
                 login' = [active |-> TRUE, answer |-> Ok(tokens[1]), refresh |-> tokens[2],
                           email |-> e, late |-> login.late],
                 Answered(login'.answer)
          PROVE  login' \in Login /\ issued' \in 0..MaxTokens /\ due' = due
      <4>1. CanIssue /\ tokens[1] = NewToken(a) /\ tokens[2] \in Holder /\ e \in Holder
        BY <3>2, Values DEF Exchanged, Addresses
      <4>2. /\ login'.answer = Ok(NewToken(a)) /\ Ok(NewToken(a)) \in Result
            /\ issued' = issued + 1 /\ issued' \in 0..MaxTokens /\ due' = due
        BY <1>0, <3>2, <4>1, NewTokenType DEF Answered
      <4>3. login.late \in BOOLEAN
        BY <1>0 DEF TypeOK, Login
      <4> QED
        BY <3>2, <4>1, <4>2, <4>3 DEF Login
    <3> QED
      BY <2>3, <3>1, <3>2 DEF AnswerLogin
  <2> QED
    BY <2>1, <2>2, <2>3
<1> QED
  BY <1>0, <1>1 DEF Typed, TypeOK, Asked, Asking

LEMMA StartTyped ==
    ASSUME Typed, NEW saved \in Disks, StartFrom(saved),
           disk' \in Disks, loggedOut' \in BOOLEAN, troubles' \in 0..MaxTroubles
    PROVE  Typed'
<1>1. /\ saved.token \in MaybeToken /\ saved.refresh \in Holder /\ saved.user \in Holder
      /\ Rebuilt(saved.token, saved.user) \in Links
  BY Values DEF Disks, Rebuilt
<1>2. tasks' \in [Tasks -> Task] /\ Asked'
  BY Values DEF StartFrom, Asked, Asking, FreeTask
<1> QED
  BY <1>1, <1>2, Values DEF StartFrom, google, Typed, TypeOK, Disks

LEMMA TypedStep == Typed /\ [Next]_vars => Typed'
<1> SUFFICES ASSUME Typed, [Next]_vars PROVE Typed'
  OBVIOUS
<1>0. TypeOK /\ disk \in Disks /\ Asked
  BY DEF Typed, TypeOK, Disks
<1>1. CASE Navigate
  BY <1>0, <1>1 DEF Navigate, config, links, refreshing, google, Typed, TypeOK, Asked, Asking
<1>2. CASE OpenBackground
  BY <1>0, <1>2, Values
     DEF OpenBackground, config, refreshing, google, Typed, TypeOK, Asked, Asking
<1>3. CASE SendRefreshes
  <2>1. refresh \in Accounts
    BY <1>0, <1>3 DEF SendRefreshes, NeedsRefresh, TypeOK, Holder
  <2>2. PICK r \in RefreshAnswers(refresh) :
            /\ token' = r.token /\ SaveTokens(r.token, refresh)
            /\ Reconnect(r.token, user) /\ Answered(r)
    BY <1>3 DEF SendRefreshes
  <2>3. r \in Result /\ issued' \in 0..MaxTokens /\ due' = due
    BY <1>0, <2>1, <2>2, AnswersType
  <2>4. r.token \in MaybeToken /\ refresh \in Holder /\ user \in Holder
    BY <1>0, <2>3 DEF Result, TypeOK
  <2>5. /\ backend' \in Links /\ bgImap' \in Links
        /\ disk' \in Disks /\ troubles' \in 0..MaxTroubles
    BY <1>0, <2>2, <2>4, ReconnectType, SaveTokensType
  <2> QED
    BY <1>0, <1>3, <2>2, <2>3, <2>4, <2>5
       DEF SendRefreshes, refreshing, Typed, TypeOK, Asked, Asking, Disks
<1>4. CASE Logout
  <2>1. disk' \in Disks /\ troubles' \in 0..MaxTroubles /\ loggedOut' \in BOOLEAN
    BY <1>0, <1>4, Values, SavedType, TroubleType DEF Logout, SaveFails, TypeOK
  <2> QED
    BY <1>0, <1>4, <2>1, Values
       DEF Logout, refreshing, google, Typed, TypeOK, Asked, Asking, Disks
<1>5. ASSUME NEW a \in Accounts, ChangeUser(a) PROVE Typed'
  <2>1. backend' \in Links /\ bgImap' \in Links /\ troubles' \in 0..MaxTroubles /\ a \in Holder
    BY <1>0, <1>5, Values, ReconnectType, TroubleType DEF ChangeUser, TypeOK
  <2> QED
    BY <1>0, <1>5, <2>1 DEF ChangeUser, refreshing, google, Typed, TypeOK, Asked, Asking
<1>6. CASE Restart
  BY <1>0, <1>6, StartTyped DEF Restart, TypeOK
<1>7. CASE DieInLogin
  <2>1. Poll.token \in MaybeToken /\ login.refresh \in Holder
    BY <1>0, Values DEF Poll, TypeOK, Login, Result
  <2>2. disk' \in Disks /\ troubles' \in 0..MaxTroubles
    BY <1>0, <1>7, <2>1, SavedType, TroubleType DEF DieInLogin
  <2> QED
    BY <1>7, <2>2, StartTyped DEF DieInLogin
<1>8. ASSUME NEW n \in 1..MaxTokens, Expire(n) PROVE Typed'
  BY <1>0, <1>8 DEF Expire, config, links, refreshing, Typed, TypeOK, Asked, Asking
<1>9. CASE UNCHANGED vars
  BY <1>0, <1>9 DEF vars, config, links, refreshing, google, Typed, TypeOK, Asked, Asking
<1> QED
  BY <1>1, <1>2, <1>3, <1>4, <1>5, <1>6, <1>7, <1>8, <1>9, FetchTyped, TaskTyped, TickTyped,
     LoginTyped DEF Next

(* Type correctness.                                                         *)
THEOREM SessionType == Spec => []TypeOK
<1>1. Typed => TypeOK
  BY DEF Typed
<1> QED
  BY <1>1, InitTyped, TypedStep, PTL DEF Spec

-----------------------------------------------------------------------------
(* The session of a calm user.  What ties its parts together is when a       *)
(* refresh may be anywhere at all: between its start and its answer it is    *)
(* alone and the flag is up; once it answered, the slot is filled, or the    *)
(* token is gone or fresh, so that no other one starts.                      *)
Free(t) == tasks[t].at = "free"

\* A login is under way only without a session.
LoginInv == login.active \/ login.answer.kind = "ok" => token = NoToken

\* Only a token that was given out expires, and not in the hands of a login.
SerialInv ==
    /\ due \subseteq 1..issued
    /\ login.answer.kind = "ok" => login.answer.token.serial \notin due

\* A refresh that asks is the only one, and is for the session that waits for it.
AskInv ==
    \A t \in Tasks : Asking(t) =>
        /\ NeedsRefresh /\ inflight /\ ~panicked
        /\ slot = NoResult /\ tasks[t].acct = refresh
        /\ \A u \in Tasks : u # t => Free(u)

\* While one is on its way to the end, none is called for.
RestInv ==
    \A t \in Tasks : ~Free(t) =>
        \/ token = NoToken \/ ~Due \/ slot # NoResult
        \/ \E u \in Tasks : Asking(u)

\* An answer in the slot is one the session waits for, and of its account.
SlotInv ==
    slot # NoResult =>
        /\ NeedsRefresh /\ slot.kind # "none"
        /\ slot.kind = "ok" => slot.token.serial \notin due /\ slot.token.acct = token.acct

\* The session and the answer of a login are each of one account.
AccountInv ==
    /\ token # NoToken => user = token.acct /\ refresh \in {None, token.acct}
    /\ login.answer.kind = "ok" =>
          /\ login.email # None /\ login.email = login.answer.token.acct
          /\ login.refresh \in {None, login.answer.token.acct}

\* IDLE has the token of the session, but for the moment after a login.
IdleInv ==
    idle.open /\ token # NoToken =>
        idle.token = token \/ (place = "root" /\ render /\ ~Due)

\* What is saved is what is in use.
DiskInv == disk = [token |-> token, refresh |-> refresh, user |-> user]

Settled ==
    /\ LoginInv /\ SerialInv /\ AskInv /\ RestInv /\ SlotInv
    /\ AccountInv /\ IdleInv /\ DiskInv
CalmInv == calm => Settled

(* A refresh that asks, or an answer in the slot, is of a session.           *)
LEMMA PendingSession ==
    ASSUME Settled, token = NoToken \/ ~Due
    PROVE  slot = NoResult /\ \A t \in Tasks : ~Asking(t)
BY DEF Settled, AskInv, SlotInv, NeedsRefresh

LEMMA CalmSave ==
    ASSUME calm, Settled, NEW t, NEW r, SaveTokens(t, r)
    PROVE  disk' = [token |-> t, refresh |-> r, user |-> user]
BY DEF SaveTokens, SaveFails, Saved, Settled, DiskInv

(* What IDLE holds after build_root or build_folder.                         *)
LEMMA WatchIdle ==
    ASSUME NEW t, NEW now, Watch(t, now)
    PROVE  ~idle'.open \/ idle'.token = t \/ (place # "root" /\ idle' = now)
<1>1. CASE idle' = NoLink
  BY <1>1 DEF NoLink
<1>2. CASE idle' = Link(t, user)
  BY <1>2 DEF Link
<1> QED
  BY <1>1, <1>2 DEF Watch

LEMMA CalmFresh == ASSUME Typed, Settled, Fetch, Fresh PROVE Settled'
<1>0. /\ UNCHANGED <<token, refresh, user, disk, slot, tasks, login, issued, due, place>>
      /\ Watch(token, idle)
  BY DEF Fresh, Fetch, config, google
<1>1. \A t \in Tasks : ~Asking(t)
  BY DEF Fresh, Settled, AskInv
<1>2. IdleInv'
  BY <1>0, WatchIdle DEF Settled, IdleInv
<1>3. AskInv'
  BY <1>0, <1>1 DEF AskInv, Asking
<1>4. RestInv'
  BY <1>0 DEF Settled, RestInv, Free, Asking, Due
<1> QED
  BY <1>0, <1>2, <1>3, <1>4
     DEF Settled, LoginInv, SerialInv, SlotInv, AccountInv, DiskInv, NeedsRefresh, Due

LEMMA CalmDrainToken == ASSUME calm, Typed, Settled, Fetch, DrainToken PROVE Settled'
<1>0. /\ NeedsRefresh /\ slot.kind = "ok" /\ slot # NoResult
      /\ token' = slot.token /\ slot' = NoResult
      /\ UNCHANGED <<refresh, user, tasks, login, issued, due, place>>
  BY DEF DrainToken, Fetch, google, NoResult
<1>1. token.acct = token'.acct /\ ~Due'
  BY <1>0 DEF Settled, SlotInv, Due
<1>2. disk' = [token |-> token', refresh |-> refresh', user |-> user']
  BY <1>0, CalmSave DEF DrainToken
<1>3. IdleInv'
  BY <1>0, WatchIdle DEF DrainToken, Told, IdleInv
<1>4. AskInv' /\ RestInv'
  BY <1>0, <1>1 DEF Settled, AskInv, RestInv, Asking, Free
<1>5. token # NoToken
  BY <1>0 DEF NeedsRefresh
<1> QED
  BY <1>0, <1>1, <1>2, <1>3, <1>4, <1>5
     DEF Settled, LoginInv, SerialInv, SlotInv, AccountInv, DiskInv

LEMMA CalmDrainError == ASSUME calm, Typed, Settled, Fetch, DrainError PROVE Settled'
<1>0. /\ slot # NoResult /\ slot' = NoResult /\ token' = NoToken
      /\ UNCHANGED <<refresh, user, tasks, login, issued, due, place>>
  BY DEF DrainError, Fetch, google, NoResult
<1>1. disk' = [token |-> token', refresh |-> refresh', user |-> user']
  BY <1>0, CalmSave DEF DrainError
<1>2. AskInv' /\ RestInv'
  BY <1>0 DEF Settled, AskInv, RestInv, Asking
<1> QED
  BY <1>0, <1>1, <1>2
     DEF Settled, LoginInv, SerialInv, SlotInv, AccountInv, IdleInv, DiskInv

LEMMA CalmAwait == ASSUME Typed, Settled, Fetch, AwaitRefresh PROVE Settled'
<1>0. /\ NeedsRefresh /\ inflight' = TRUE /\ panicked' = FALSE
      /\ UNCHANGED <<token, refresh, user, disk, idle, slot, tasks, login, issued, due, place>>
  BY DEF AwaitRefresh, Fetch, config, google
<1>1. AskInv'
  BY <1>0 DEF Settled, AskInv, Asking, Free, NeedsRefresh, Due
<1>2. RestInv' /\ IdleInv'
  BY <1>0 DEF Settled, RestInv, IdleInv, Asking, Free, NeedsRefresh, Due
<1> QED
  BY <1>0, <1>1, <1>2
     DEF Settled, LoginInv, SerialInv, SlotInv, AccountInv, DiskInv, NeedsRefresh, Due

LEMMA CalmStartRefresh == ASSUME Typed, Settled, Fetch, StartRefresh PROVE Settled'
<1>0. /\ NeedsRefresh /\ ~Inflight /\ inflight' = TRUE /\ panicked' = FALSE
      /\ slot = NoResult /\ tasks \in [Tasks -> Task]
      /\ UNCHANGED <<token, refresh, user, disk, idle, slot, login, issued, due, place>>
  BY DEF StartRefresh, Fetch, config, google, Typed, TypeOK
<1>1. PICK t \in Tasks : tasks' = [tasks EXCEPT ![t] = [at |-> "asking", acct |-> refresh]]
  BY DEF StartRefresh
<1>2. \A u \in Tasks : ~Asking(u)
  BY <1>0 DEF Settled, AskInv, Inflight
<1>3. \A u \in Tasks : Free(u)
  BY <1>0, <1>2 DEF Settled, RestInv, NeedsRefresh
<1>4. /\ tasks'[t].at = "asking" /\ tasks'[t].acct = refresh
      /\ \A u \in Tasks : u # t => tasks'[u] = tasks[u]
  BY <1>0, <1>1
<1>5. AskInv'
  BY <1>0, <1>2, <1>3, <1>4 DEF AskInv, Asking, Free, NeedsRefresh, Due
<1>6. RestInv' /\ IdleInv'
  BY <1>0, <1>4 DEF Settled, RestInv, IdleInv, Asking, Free, NeedsRefresh, Due
<1> QED
  BY <1>0, <1>5, <1>6
     DEF Settled, LoginInv, SerialInv, SlotInv, AccountInv, DiskInv, NeedsRefresh, Due

LEMMA CalmTask ==
    ASSUME calm, Typed, Settled, NEW t \in Tasks, TaskStep(t) \/ Panic(t)
    PROVE  Settled'
<1>0. /\ tasks \in [Tasks -> Task] /\ TypeOK
      /\ UNCHANGED <<token, refresh, user, disk, idle, login, due, place, render>>
      /\ LoginInv /\ SerialInv /\ AccountInv /\ IdleInv /\ DiskInv
  BY DEF TaskStep, Publish, Clear, Signal, Panic, Answered, config, links, google,
         Typed, TypeOK, Settled
<1>1. LoginInv' /\ AccountInv' /\ IdleInv' /\ DiskInv'
  BY <1>0 DEF LoginInv, AccountInv, IdleInv, DiskInv, Due
<1>2. CASE Publish(t)
  <2>1. /\ Asking(t) /\ NeedsRefresh /\ refresh = token.acct
        /\ tasks[t].acct = refresh /\ refresh \in Accounts
        /\ \A u \in Tasks : u # t => Free(u)
    BY <1>0, <1>2 DEF Publish, Settled, AskInv, Asking, NeedsRefresh, AccountInv, TypeOK, Holder
  <2>2. /\ slot' \in RefreshAnswers(refresh) /\ Answered(slot')
    BY <1>2, <2>1 DEF Publish
  <2>3. /\ issued \in Nat /\ issued' \in Nat /\ issued <= issued'
    BY <1>0, <2>1, <2>2, AnswersType, BoundsAssumption DEF TypeOK
  <2>4. SerialInv'
    BY <1>0, <2>3 DEF SerialInv
  <2>5. /\ slot' # NoResult /\ slot'.kind # "none"
        /\ slot'.kind = "ok" => slot'.token.serial = issued + 1 /\ slot'.token.acct = refresh
    BY <1>0, <2>1, <2>2, NewTokenType DEF RefreshAnswers, Failure, NoResult
  <2>6. SlotInv'
    BY <1>0, <2>1, <2>3, <2>5 DEF SlotInv, SerialInv, NeedsRefresh, Due
  <2>7. /\ tasks'[t].at = "published"
        /\ \A u \in Tasks : u # t => tasks'[u] = tasks[u]
    BY <1>0, <1>2 DEF Publish
  <2>8. AskInv' /\ RestInv'
    BY <2>1, <2>5, <2>7 DEF AskInv, RestInv, Asking, Free
  <2> QED
    BY <1>1, <2>4, <2>6, <2>8 DEF Settled
<1>3. CASE Clear(t) \/ Signal(t)
  <2>1. /\ tasks[t].at \in {"published", "cleared"} /\ tasks'[t].at # "asking"
        /\ \A u \in Tasks : u # t => tasks'[u] = tasks[u]
        /\ UNCHANGED <<slot, issued>>
    <3>1. CASE Clear(t)
      BY <1>0, <3>1 DEF Clear, google
    <3>2. CASE Signal(t)
      BY <1>0, <3>2 DEF Signal, FreeTask, google
    <3> QED
      BY <1>3, <3>1, <3>2
  <2>2. \A u \in Tasks : ~Asking(u) /\ ~Asking(u)'
    <3> SUFFICES ASSUME NEW u \in Tasks PROVE ~Asking(u) /\ ~Asking(u)'
      OBVIOUS
    <3>1. ~Asking(u)
      BY <2>1 DEF Settled, AskInv, Asking, Free
    <3> QED
      BY <2>1, <3>1 DEF Asking
  <2>3. AskInv'
    BY <2>2 DEF AskInv, Asking
  <2>4. token = NoToken \/ ~Due \/ slot # NoResult
    BY <2>1, <2>2 DEF Settled, RestInv, Free
  <2>5. RestInv'
    BY <1>0, <2>1, <2>4 DEF RestInv, Due
  <2> QED
    BY <1>0, <1>1, <2>1, <2>3, <2>5 DEF Settled, SerialInv, SlotInv, NeedsRefresh, Due
<1>4. CASE Panic(t)
  <2>1. /\ Asking(t) /\ UNCHANGED <<slot, issued>> /\ tasks'[t] = FreeTask
        /\ \A u \in Tasks : u # t => tasks'[u] = tasks[u]
    BY <1>0, <1>4 DEF Panic, Asking, google
  <2>2. \A u \in Tasks : tasks'[u].at = "free"
    BY <2>1 DEF Settled, AskInv, Free, FreeTask
  <2>3. AskInv' /\ RestInv'
    BY <2>2 DEF AskInv, RestInv, Asking, Free
  <2> QED
    BY <1>0, <1>1, <2>1, <2>3 DEF Settled, SerialInv, SlotInv, NeedsRefresh, Due
<1> QED
  BY <1>2, <1>3, <1>4 DEF TaskStep

LEMMA CalmTick == ASSUME calm, Typed, Settled, Tick PROVE Settled'
<1>0. /\ panicked' = FALSE /\ inflight' = Inflight
      /\ UNCHANGED <<idle, slot, tasks, issued, due>>
  BY DEF Tick, google
<1>1. CASE login.active /\ Poll.kind = "ok"
  <2>1. Poll = login.answer /\ login.answer.kind = "ok"
    BY <1>1 DEF Poll, Failure
  <2>2. Adopt(login.answer.token) /\ login' = NoLogin /\ render' = TRUE
    BY <1>1, <2>1 DEF Tick
  <2>3. /\ token = NoToken /\ slot = NoResult
        /\ \A t \in Tasks : ~Asking(t)
    BY <1>1, PendingSession DEF Settled, LoginInv
  <2>4. /\ token' = login.answer.token /\ refresh' = login.refresh /\ user' = login.email
        /\ place' = "root" /\ ~Due'
    BY <1>0, <2>1, <2>2 DEF Adopt, LoginName, Settled, AccountInv, SerialInv, Due
  <2>5. DiskInv'
    BY <2>2 DEF Adopt, SaveLogin, SaveFails, DiskInv
  <2>6. AskInv' /\ RestInv' /\ IdleInv'
    BY <1>0, <2>2, <2>3, <2>4 DEF AskInv, RestInv, IdleInv, Asking
  <2>7. LoginInv' /\ SerialInv' /\ AccountInv'
    BY <1>0, <2>1, <2>2, <2>4
       DEF NoLogin, NoResult, Settled, LoginInv, SerialInv, AccountInv
  <2> QED
    BY <1>0, <2>3, <2>5, <2>6, <2>7 DEF Settled, SlotInv
<1>2. CASE ~(login.active /\ Poll.kind = "ok")
  <2>1. UNCHANGED <<place, token, refresh, user, disk>>
    BY <1>2 DEF Tick, config
  <2>2. login' \in {login, NoLogin} /\ (render => render')
    BY <1>2 DEF Tick
  <2>3. AskInv'
    BY <1>0, <2>1 DEF Settled, AskInv, Asking, Free, Inflight, NeedsRefresh, Due
  <2>4. RestInv' /\ IdleInv'
    BY <1>0, <2>1, <2>2 DEF Settled, RestInv, IdleInv, Asking, Free, Due
  <2>5. LoginInv' /\ SerialInv' /\ AccountInv'
    BY <1>0, <2>1, <2>2 DEF NoLogin, NoResult, Settled, LoginInv, SerialInv, AccountInv
  <2> QED
    BY <1>0, <2>1, <2>3, <2>4, <2>5 DEF Settled, SlotInv, DiskInv, NeedsRefresh, Due
<1> QED
  BY <1>1, <1>2

LEMMA CalmLogin ==
    ASSUME calm, Typed, Settled, StartLogin \/ LoginDeadline \/ \E a \in Accounts : AnswerLogin(a)
    PROVE  Settled'
<1>0. /\ TypeOK /\ due' = due
      /\ UNCHANGED <<token, refresh, user, disk, idle, inflight, slot, tasks, panicked,
                     place, render>>
  BY DEF StartLogin, LoginDeadline, AnswerLogin, Answered, config, links, refreshing, google,
         Typed
<1>1. AskInv' /\ RestInv' /\ SlotInv' /\ IdleInv' /\ DiskInv'
  BY <1>0 DEF Settled, AskInv, RestInv, SlotInv, IdleInv, DiskInv, Asking, Free,
              NeedsRefresh, Due
<1>2. LoginInv' /\ SerialInv' /\ AccountInv'
  <2>1. CASE StartLogin
    BY <1>0, <2>1 DEF StartLogin, MayLogin, Browsing, NoLogin, NoResult, google,
                      Settled, LoginInv, SerialInv, AccountInv
  <2>2. CASE LoginDeadline
    <3>1. /\ login'.active = login.active /\ login'.answer = login.answer
          /\ login'.refresh = login.refresh /\ login'.email = login.email
      BY <1>0, <2>2 DEF LoginDeadline, TypeOK, Login
    <3> QED
      BY <1>0, <2>2, <3>1 DEF LoginDeadline, google, Settled, LoginInv, SerialInv, AccountInv
  <2>3. ASSUME NEW a \in Accounts, AnswerLogin(a)
        PROVE  LoginInv' /\ SerialInv' /\ AccountInv'
    <3>1. token = NoToken
      BY <2>3 DEF AnswerLogin, Settled, LoginInv
    <3>2. CASE login' = [login EXCEPT !.answer = Failure] /\ UNCHANGED google
      <4>1. login'.answer.kind = "error"
        BY <1>0, <3>2 DEF TypeOK, Login, Failure
      <4> QED
        BY <1>0, <3>1, <3>2, <4>1 DEF google, Settled, LoginInv, SerialInv, AccountInv
    <3>3. ASSUME NEW tokens \in Exchanged(a), NEW e \in Addresses(a),
                 login' = [active |-> TRUE, answer |-> Ok(tokens[1]), refresh |-> tokens[2],
                           email |-> e, late |-> login.late],
                 Answered(login'.answer)
          PROVE  LoginInv' /\ SerialInv' /\ AccountInv'
      <4>1. /\ CanIssue /\ tokens[1] = NewToken(a) /\ tokens[2] \in {a, None}
            /\ e = a /\ a # None
        BY <3>3, AccountsAssumption DEF Exchanged, Addresses
      <4>2. /\ login'.answer.token = NewToken(a) /\ NewToken(a).serial = issued + 1
            /\ NewToken(a).acct = a /\ issued' = issued + 1 /\ issued \in Nat
        BY <1>0, <3>3, <4>1, NewTokenType, BoundsAssumption DEF Answered, TypeOK
      <4>3. SerialInv'
        BY <1>0, <4>2 DEF Settled, SerialInv
      <4> QED
        BY <1>0, <3>1, <3>3, <4>1, <4>2, <4>3 DEF LoginInv, AccountInv
    <3> QED
      BY <2>3, <3>2, <3>3 DEF AnswerLogin
  <2> QED
    BY <2>1, <2>2, <2>3
<1> QED
  BY <1>1, <1>2 DEF Settled

LEMMA CalmRestart == ASSUME calm, Typed, Settled, Restart PROVE Settled'
<1>0. /\ UNCHANGED <<token, refresh, user, disk, issued, due>>
      /\ slot' = NoResult /\ login' = NoLogin /\ idle' = NoLink
      /\ \A t \in Tasks : tasks'[t].at = "free"
  BY DEF Restart, StartFrom, Settled, DiskInv, google, FreeTask
<1>1. AskInv' /\ RestInv'
  BY <1>0 DEF AskInv, RestInv, Asking, Free
<1>2. LoginInv' /\ SerialInv' /\ AccountInv'
  BY <1>0 DEF NoLogin, NoResult, Settled, LoginInv, SerialInv, AccountInv
<1>3. IdleInv'
  BY <1>0 DEF NoLink, IdleInv
<1> QED
  BY <1>0, <1>1, <1>2, <1>3 DEF Settled, SlotInv, DiskInv

LEMMA CalmExpire ==
    ASSUME calm, Typed, Settled, NEW n \in 1..MaxTokens, Expire(n)
    PROVE  Settled'
<1>0. /\ n \in 1..issued /\ n = token.serial /\ ~Due /\ ~render
      /\ due' = due \cup {n}
      /\ \A t \in Tasks : Free(t) \/ Asking(t)
      /\ UNCHANGED <<token, refresh, user, disk, idle, inflight, slot, tasks, panicked,
                     place, render, login, issued>>
  BY DEF Expire, config, links, refreshing, Due, Free, Asking
<1>1. token # NoToken
  BY <1>0 DEF NoToken
<1>2. slot = NoResult /\ \A t \in Tasks : ~Asking(t)
  BY <1>0, PendingSession
<1>3. ~login.active /\ login.answer.kind # "ok"
  BY <1>1 DEF Settled, LoginInv
<1>4. LoginInv' /\ SerialInv' /\ AccountInv'
  BY <1>0, <1>3 DEF Settled, LoginInv, SerialInv, AccountInv
<1>5. AskInv' /\ RestInv'
  BY <1>0, <1>2 DEF AskInv, RestInv, Asking, Free
<1>6. IdleInv'
  BY <1>0 DEF Settled, IdleInv
<1> QED
  BY <1>0, <1>2, <1>4, <1>5, <1>6 DEF Settled, SlotInv, DiskInv

LEMMA CalmLogout == ASSUME calm, Typed, Settled, Logout PROVE Settled'
<1>0. /\ token' = NoToken /\ refresh' = None /\ idle' = NoLink
      /\ slot = NoResult /\ \A t \in Tasks : ~Asking(t)
      /\ UNCHANGED <<user, slot, tasks, login, issued, due>>
  BY DEF Logout, RefreshPending, Asking, refreshing, google
<1>1. disk' = [token |-> token', refresh |-> refresh', user |-> user']
  BY <1>0 DEF Logout, SaveFails, Saved, Settled, DiskInv
<1>2. AskInv' /\ RestInv'
  BY <1>0 DEF AskInv, RestInv, Asking
<1> QED
  BY <1>0, <1>1, <1>2
     DEF Settled, LoginInv, SerialInv, SlotInv, AccountInv, IdleInv, DiskInv

LEMMA CalmNavigate == ASSUME calm, Typed, Settled, Navigate PROVE Settled'
<1>0. /\ ~render
      /\ UNCHANGED <<token, refresh, user, disk, idle, inflight, slot, tasks, panicked,
                     login, issued, due>>
  BY DEF Navigate, config, links, refreshing, google
<1>1. IdleInv'
  BY <1>0 DEF Settled, IdleInv
<1>2. AskInv' /\ RestInv' /\ SlotInv' /\ DiskInv'
  BY <1>0 DEF Settled, AskInv, RestInv, SlotInv, DiskInv, Asking, Free, NeedsRefresh, Due
<1> QED
  BY <1>0, <1>1, <1>2 DEF Settled, LoginInv, SerialInv, AccountInv

LEMMA CalmUnchanged ==
    ASSUME Settled,
           UNCHANGED <<token, refresh, user, disk, idle, inflight, slot, tasks, panicked,
                       place, render, login, issued, due>>
    PROVE  Settled'
<1>1. AskInv' /\ RestInv' /\ SlotInv' /\ IdleInv' /\ DiskInv'
  BY DEF Settled, AskInv, RestInv, SlotInv, IdleInv, DiskInv, Asking, Free, NeedsRefresh, Due
<1> QED
  BY <1>1 DEF Settled, LoginInv, SerialInv, AccountInv

LEMMA CalmStep == Typed /\ CalmInv /\ [Next]_vars => CalmInv'
<1> SUFFICES ASSUME Typed, Settled, calm, [Next]_vars PROVE Settled'
  <2>1. [Next]_vars => calm' = calm
    BY DEF Next, vars, Fetch, Navigate, TaskStep, Publish, Clear, Signal, Panic, Tick,
           OpenBackground, SendRefreshes, StartLogin, LoginDeadline, AnswerLogin, Logout,
           ChangeUser, Restart, DieInLogin, StartFrom, Expire
  <2> QED
    BY <2>1 DEF CalmInv
<1>1. CASE Fetch
  BY <1>1, CalmFresh, CalmDrainToken, CalmDrainError, CalmAwait, CalmStartRefresh DEF Fetch
<1>2. CASE OpenBackground
  BY <1>2, CalmUnchanged DEF OpenBackground, config, refreshing, google
<1>3. CASE UNCHANGED vars
  BY <1>3, CalmUnchanged DEF vars, config, links, refreshing, google
<1>4. CASE SendRefreshes \/ DieInLogin \/ \E a \in Accounts : ChangeUser(a)
  BY <1>4 DEF SendRefreshes, DieInLogin, ChangeUser
<1> QED
  BY <1>1, <1>2, <1>3, <1>4, CalmNavigate, CalmTask, CalmTick, CalmLogin, CalmLogout,
     CalmRestart, CalmExpire DEF Next

LEMMA CalmInit == Init => CalmInv
<1> SUFFICES ASSUME Init PROVE Settled
  BY DEF CalmInv
<1>1. AskInv /\ RestInv
  BY DEF Init, AskInv, RestInv, Asking, Free, FreeTask
<1>2. SerialInv /\ LoginInv /\ AccountInv
  BY DEF Init, NoLogin, NoResult, SerialInv, LoginInv, AccountInv
<1> QED
  BY <1>1, <1>2 DEF Init, Settled, SlotInv, IdleInv, DiskInv

LEMMA CalmHolds == Spec => [](Typed /\ CalmInv)
BY InitTyped, TypedStep, CalmInit, CalmStep, PTL DEF Spec

(* A calm user's session is of one account: what mail is read, what it is    *)
(* refreshed with and whom XOAUTH2 names, across refreshes and restarts.     *)
THEOREM SessionAccount == Spec => []OneAccountIfCalm
<1>1. CalmInv => OneAccountIfCalm
  BY DEF CalmInv, Settled, AccountInv, OneAccountIfCalm
<1> QED
  BY <1>1, CalmHolds, PTL

(* Two refreshes of one token do not run side by side: a second one is not   *)
(* spawned between the answer of the first and the fetch that takes it.      *)
THEOREM SessionOneRefresh == Spec => []OneRefreshIfCalm
<1>1. CalmInv => OneRefreshIfCalm
  <2> SUFFICES ASSUME AskInv PROVE Cardinality({t \in Tasks : Asking(t)}) <= 1
    BY DEF CalmInv, Settled, OneRefreshIfCalm, Asking
  <2>1. CASE {t \in Tasks : Asking(t)} = {}
    BY <2>1, FS_EmptySet
  <2>2. ASSUME NEW t \in Tasks, Asking(t)
        PROVE  Cardinality({u \in Tasks : Asking(u)}) <= 1
    <3>1. {u \in Tasks : Asking(u)} = {t}
      BY <2>2 DEF AskInv, Asking, Free
    <3>2. Cardinality({t}) = 1
      BY FS_Singleton
    <3> QED
      BY <3>1, <3>2
  <2> QED
    BY <2>1, <2>2
<1> QED
  BY <1>1, CalmHolds, PTL

(* A calm user's IDLE session reconnects with the token of the session, or   *)
(* the app is about to fetch.                                                *)
THEOREM SessionIdle == Spec => []IdleTokenIfCalm
<1>1. CalmInv => IdleTokenIfCalm
  BY DEF CalmInv, Settled, IdleInv, IdleTokenIfCalm, IdleToken
<1> QED
  BY <1>1, CalmHolds, PTL

=============================================================================
