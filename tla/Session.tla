------------------------------- MODULE Session -------------------------------
(***************************************************************************)
(* Who the program is signed in as: the login handle (oauth2.rs), the two  *)
(* refreshes of the access token (ensure_fresh_token, which blocks, and    *)
(* ensure_fresh_token_async, which hands over through a flag and a slot),  *)
(* logout, changed settings, what is saved for the next start, and the     *)
(* connections that authenticate with a copy of all this.                  *)
(*                                                                         *)
(* An access token is known by the account it is for and a serial number;  *)
(* `due` holds the tokens that expire within a minute.  Signing in with a  *)
(* password is left out: the program offers it no view (is_logged_in).     *)
(***************************************************************************)
EXTENDS Naturals, FiniteSets

CONSTANTS
    Accounts,    \* the accounts the user can sign in to
    None,        \* an empty string
    Tasks,       \* bound: the refreshes that can be under way at once
    MaxTokens,   \* bound: how many access tokens Google hands out to a calm user
    AnyTokens,   \* bound: and to any other
    MaxTroubles, \* bound: how many refreshes panic, writes of the settings file fail,
                 \* changes of a setting and deaths within a login there are
    Calmness     \* the users there are, see Calm below

ASSUME AccountsAssumption == None \notin Accounts
ASSUME BoundsAssumption ==
    /\ MaxTokens \in Nat /\ MaxTroubles \in Nat /\ AnyTokens \in 0..MaxTokens
    /\ Calmness \subseteq BOOLEAN

VARIABLES
    calm,       \* the user and the network are as described under Calm
    place,      \* current_path: "root" or in a "folder"
    token,      \* config.oauth_access_token
    refresh,    \* config.oauth_refresh_token: the account it is for
    user,       \* config.username
    disk,       \* what the settings file holds of the three
    backend,    \* imap and smtp, with the copy of the config they hold
    bgImap,     \* bg_imap, likewise
    idle,       \* the IDLE session and the token it will reconnect with
    inflight,   \* token_refresh_inflight
    slot,       \* token_refresh_result
    tasks,      \* the spawned refreshes
    panicked,   \* bg_panics holds BgKind::Token
    completed,  \* bg_completed
    loading,    \* the last fetch returned "Loading..."
    render,     \* the app was told to fetch again
    login,      \* active_login and its worker
    loggedOut,  \* a logout was saved, and no login made since
    issued, due, troubles

config == <<token, refresh, user>>
links == <<backend, bgImap, idle>>
refreshing == <<inflight, slot, tasks, panicked>>
google == <<issued, due>>
vars == <<calm, place, config, disk, links, refreshing, completed, loading, render,
          login, loggedOut, google, troubles>>

NoToken == [acct |-> None, serial |-> 0]
Token == [acct: Accounts, serial: 1..MaxTokens]
Holder == Accounts \cup {None}
MaybeToken == Token \cup {NoToken}

\* What a connection holds of the config when it is open.
NoLink == [open |-> FALSE, token |-> NoToken, user |-> None]
Link(t, u) == [open |-> TRUE, token |-> t, user |-> u]
Links == [open: BOOLEAN, token: MaybeToken, user: Holder]

Result == [kind: {"none", "ok", "error"}, token: MaybeToken]
NoResult == [kind |-> "none", token |-> NoToken]
Failure == [kind |-> "error", token |-> NoToken]
Ok(t) == [kind |-> "ok", token |-> t]

Task == [at: {"free", "asking", "published", "cleared"}, acct: Holder]
FreeTask == [at |-> "free", acct |-> None]

\* A login: the worker's answer, the refresh token and address that came with
\* it, and whether the handle's deadline has passed.
Login == [active: BOOLEAN, answer: Result, refresh: Holder, email: Holder, late: BOOLEAN]
NoLogin == [active |-> FALSE, answer |-> NoResult, refresh |-> None,
            email |-> None, late |-> FALSE]
Browsing == [NoLogin EXCEPT !.active = TRUE]

\* The next access token Google gives out for an account.
NewToken(a) == [acct |-> a, serial |-> issued + 1]
CanIssue == issued < IF calm THEN MaxTokens ELSE AnyTokens

\* What refresh_token returns to an account: a new token, or an error.
RefreshAnswers(a) == {Failure} \cup IF CanIssue THEN {Ok(NewToken(a))} ELSE {}
Answered(r) ==
    /\ issued' = IF r.kind = "ok" THEN r.token.serial ELSE issued
    /\ UNCHANGED due

Init ==
    /\ calm \in Calmness /\ place = "root"
    /\ token = NoToken /\ refresh = None /\ user = None
    /\ disk = [token |-> NoToken, refresh |-> None, user |-> None]
    /\ backend = NoLink /\ bgImap = NoLink /\ idle = NoLink
    /\ inflight = FALSE /\ slot = NoResult
    /\ tasks = [t \in Tasks |-> FreeTask]
    /\ panicked = FALSE /\ completed = FALSE
    /\ loading = FALSE /\ render = TRUE
    /\ login = NoLogin /\ loggedOut = FALSE
    /\ issued = 0 /\ due = {} /\ troubles = 0

----------------------------------------------------------------------------
(* Saving, and the connections.                                            *)

Trouble == troubles < MaxTroubles /\ troubles' = troubles + 1

\* save_oauth_tokens, and save_server_config: nobody looks at a write that fails.
Saved(t, r) == disk' = [token |-> t, refresh |-> r, user |-> disk.user]
SaveFails == ~calm /\ Trouble
SaveTokens(t, r) ==
    \/ Saved(t, r) /\ UNCHANGED troubles
    \/ SaveFails /\ UNCHANGED disk

\* The two saves of finish_login.
SaveLogin(t, r, u) ==
    \/ disk' = [token |-> t, refresh |-> r, user |-> u] /\ UNCHANGED troubles
    \/ SaveFails /\ (Saved(t, r) \/ disk' = [disk EXCEPT !.user = u])

\* rebuild_backends after the old ones were dropped: none without an address
\* or without a token.
Rebuilt(t, u) == IF u = None \/ t = NoToken THEN NoLink ELSE Link(t, u)

\* Faulty variant: the background connection is forgotten.
ReconnectFrontOnly(t, u) == backend' = Rebuilt(t, u) /\ bgImap' = bgImap

\* imap = smtp = None, reset_bg_imap and rebuild_backends
Reconnect(t, u) == backend' = Rebuilt(t, u) /\ bgImap' = NoLink

\* bg_imap(): opened on first use, by any background operation
OpenBackground ==
    /\ ~bgImap.open /\ token # NoToken
    /\ bgImap' = Link(token, user)
    /\ UNCHANGED <<calm, place, config, disk, backend, idle, refreshing, completed, loading,
                   render, login, loggedOut, google, troubles>>

----------------------------------------------------------------------------
(* ensure_fresh_token_async, as fetch calls it before it builds any view.  *)

Due == token.serial \in due
NeedsRefresh == token # NoToken /\ Due /\ refresh # None

\* The flag and the connection after release_panicked_tasks.
Inflight == inflight /\ ~panicked
Background == IF panicked THEN NoLink ELSE bgImap

\* build_root stops IDLE; build_folder starts it for another folder or user,
\* once the folder's list is in.
Watch(t, now) ==
    IF place = "root" THEN idle' = NoLink
    ELSE idle' = now \/ idle' = Link(t, user)

Fresh ==
    /\ ~NeedsRefresh
    /\ inflight' = Inflight /\ bgImap' = Background
    /\ Watch(token, idle)
    /\ loading' = FALSE
    /\ UNCHANGED <<config, disk, backend, slot, tasks, troubles>>

\* Faulty variant: the IDLE session is not told.
ToldNothing(t) == idle

\* idle.update_token
Told(t) == [open |-> idle.open, token |-> t, user |-> idle.user]

DrainToken ==
    /\ NeedsRefresh /\ slot.kind = "ok"
    /\ slot' = NoResult /\ inflight' = FALSE
    /\ token' = slot.token
    /\ SaveTokens(slot.token, refresh)
    /\ Reconnect(slot.token, user)
    /\ Watch(slot.token, IF idle.open THEN Told(slot.token) ELSE idle)
    /\ loading' = FALSE
    /\ UNCHANGED <<refresh, user, tasks>>

\* A failed refresh ends the session, and the view is built without one.
DrainError ==
    /\ NeedsRefresh /\ slot.kind = "error"
    /\ slot' = NoResult /\ inflight' = FALSE
    /\ token' = NoToken
    /\ SaveTokens(NoToken, refresh)
    /\ backend' = NoLink /\ bgImap' = NoLink
    /\ Watch(NoToken, idle)
    /\ loading' = FALSE
    /\ UNCHANGED <<refresh, user, tasks>>

AwaitRefresh ==
    /\ NeedsRefresh /\ slot = NoResult /\ Inflight
    /\ loading' = TRUE
    /\ inflight' = TRUE /\ bgImap' = Background
    /\ UNCHANGED <<config, disk, backend, idle, slot, tasks, troubles>>

\* Faulty variant: the flag is left to the task to raise.
StartRefreshUnflagged ==
    /\ NeedsRefresh /\ slot = NoResult /\ ~Inflight
    /\ \E t \in Tasks :
          /\ tasks[t].at = "free"
          /\ tasks' = [tasks EXCEPT ![t] = [at |-> "asking", acct |-> refresh]]
    /\ loading' = TRUE
    /\ inflight' = Inflight /\ bgImap' = Background
    /\ UNCHANGED <<config, disk, backend, idle, slot, troubles>>

StartRefresh ==
    /\ NeedsRefresh /\ slot = NoResult /\ ~Inflight
    /\ \E t \in Tasks :
          /\ tasks[t].at = "free"
          /\ tasks' = [tasks EXCEPT ![t] = [at |-> "asking", acct |-> refresh]]
    /\ loading' = TRUE
    /\ inflight' = TRUE /\ bgImap' = Background
    /\ UNCHANGED <<config, disk, backend, idle, slot, troubles>>

Fetch ==
    /\ render' = FALSE
    /\ panicked' = FALSE /\ completed' = (completed \/ panicked)
    /\ \/ Fresh \/ DrainToken \/ DrainError
       \/ AwaitRefresh \/ StartRefresh
    /\ UNCHANGED <<calm, place, login, loggedOut, google>>

\* The spawned refresh: Google's answer goes to the slot, then the flag is
\* cleared, then the app is told.
Publish(t) ==
    /\ tasks[t].at = "asking"
    /\ slot' \in RefreshAnswers(tasks[t].acct)
    /\ Answered(slot')
    /\ tasks' = [tasks EXCEPT ![t] = [at |-> "published", acct |-> None]]
    /\ UNCHANGED <<calm, place, config, disk, links, inflight, panicked, completed, loading,
                   render, login, loggedOut, troubles>>

Clear(t) ==
    /\ tasks[t].at = "published"
    /\ inflight' = FALSE
    /\ tasks' = [tasks EXCEPT ![t] = [at |-> "cleared", acct |-> None]]
    /\ UNCHANGED <<calm, place, config, disk, links, slot, panicked, completed, loading,
                   render, login, loggedOut, google, troubles>>

\* Faulty variant: the app is not told.
SignalNothing(t) ==
    /\ tasks[t].at = "cleared"
    /\ tasks' = [tasks EXCEPT ![t] = FreeTask]
    /\ UNCHANGED <<calm, place, config, disk, links, inflight, slot, panicked, completed, loading,
                   render, login, loggedOut, google, troubles>>

Signal(t) ==
    /\ tasks[t].at = "cleared"
    /\ completed' = TRUE
    /\ tasks' = [tasks EXCEPT ![t] = FreeTask]
    /\ UNCHANGED <<calm, place, config, disk, links, inflight, slot, panicked, loading,
                   render, login, loggedOut, google, troubles>>

Panic(t) ==
    /\ tasks[t].at = "asking" /\ Trouble
    /\ panicked' = TRUE /\ completed' = TRUE
    /\ tasks' = [tasks EXCEPT ![t] = FreeTask]
    /\ UNCHANGED <<calm, place, config, disk, links, inflight, slot, loading, render,
                   login, loggedOut, google>>

\* The user opens a folder, which only a session lists, or goes back to the list.
Navigate ==
    /\ calm => ~render
    /\ \/ place = "root" /\ token # NoToken /\ place' = "folder"
       \/ place = "folder" /\ place' = "root"
    /\ render' = TRUE
    /\ UNCHANGED <<calm, config, disk, links, refreshing, completed, loading, login,
                   loggedOut, google, troubles>>

----------------------------------------------------------------------------
(* ensure_fresh_token, as a send calls it: it waits for Google.  A refusal *)
(* changes nothing, and the send goes on with the token at hand.           *)

SendRefreshes ==
    /\ NeedsRefresh
    /\ ~calm
    /\ \E r \in RefreshAnswers(refresh) \ {Failure} :
          /\ token' = r.token
          /\ SaveTokens(r.token, refresh)
          /\ Reconnect(r.token, user)
          /\ Answered(r)
    /\ UNCHANGED <<calm, place, refresh, user, idle, refreshing, completed, loading, render,
                   login, loggedOut>>

----------------------------------------------------------------------------
(* Signing in and out.                                                     *)

\* do_login, from the button that build_root shows without a session
MayLogin == token = NoToken /\ ~login.active

\* oauth2::start, which leaves the rest to a worker
StartLogin ==
    /\ MayLogin
    /\ login' = Browsing
    /\ UNCHANGED <<calm, place, config, disk, links, refreshing, completed, loading, render,
                   loggedOut, google, troubles>>

\* What the exchange of a code may bring: Google may leave out the refresh token.
Exchanged(a) == IF CanIssue THEN {NewToken(a)} \X {a, None} ELSE {}

\* What the question for the address may bring.
Addresses(a) == IF calm THEN {a} ELSE {a, None}

\* The worker: the app's answer, the exchange of its code and the question for
\* the address.  Each of the first two may fail.
AnswerLogin(a) ==
    /\ login.active /\ login.answer = NoResult
    /\ \/ \E tokens \in Exchanged(a), e \in Addresses(a) :
             /\ login' = [active |-> TRUE, answer |-> Ok(tokens[1]), refresh |-> tokens[2],
                          email |-> e, late |-> login.late]
             /\ Answered(login'.answer)
       \/ /\ login' = [login EXCEPT !.answer = Failure]
          /\ UNCHANGED google
    /\ UNCHANGED <<calm, place, config, disk, links, refreshing, completed, loading, render,
                   loggedOut, troubles>>

LoginDeadline ==
    /\ login.active /\ ~login.late
    /\ login' = [login EXCEPT !.late = TRUE]
    /\ UNCHANGED <<calm, place, config, disk, links, refreshing, completed, loading, render,
                   loggedOut, google, troubles>>

\* Faulty variant: past the deadline the answer is not looked at.
PollLate == IF login.late THEN Failure ELSE login.answer

\* PendingAuthorize::poll: past the deadline the answer at hand still counts,
\* and there is an answer in any case.
Poll == IF login.late /\ login.answer = NoResult THEN Failure ELSE login.answer

\* Faulty variant: the address of the session before stays.
LoginNameKept == user

\* An address that could not be had leaves the one in the settings.
LoginName == IF login.email # None THEN login.email ELSE user

\* finish_login with tokens
Adopt(t) ==
    /\ token' = t /\ refresh' = login.refresh /\ user' = LoginName
    /\ SaveLogin(t, login.refresh, LoginName)
    /\ Reconnect(t, LoginName)
    /\ loggedOut' = FALSE /\ place' = "root"

\* tick: releases what a panic left, takes the completion flag, polls the login.
Tick ==
    /\ completed' = FALSE
    /\ panicked' = FALSE /\ inflight' = Inflight
    /\ IF login.active /\ Poll.kind # "none"
       THEN /\ login' = NoLogin /\ render' = TRUE
            /\ IF Poll.kind = "ok" THEN Adopt(Poll.token)
               ELSE /\ bgImap' = Background
                    /\ UNCHANGED <<place, config, disk, backend, loggedOut, troubles>>
       ELSE /\ render' = (render \/ completed \/ panicked) /\ bgImap' = Background
            /\ UNCHANGED <<place, config, disk, backend, login, loggedOut, troubles>>
    /\ UNCHANGED <<calm, idle, slot, tasks, loading, google>>

\* Faulty variant: the tokens stay in the settings file.
LogoutUnsaved ==
    /\ token # NoToken
    /\ token' = NoToken /\ refresh' = None
    /\ backend' = NoLink /\ bgImap' = NoLink /\ idle' = NoLink
    /\ loggedOut' = TRUE /\ place' = "root" /\ render' = TRUE
    /\ UNCHANGED <<calm, user, disk, refreshing, completed, loading, login, google,
                   troubles>>

\* A refresh that is under way, or whose answer waits in the slot.
RefreshPending == slot # NoResult \/ \E t \in Tasks : tasks[t].at = "asking"

\* the "logout" command, offered to a session.  The slot, the flag and the
\* tasks of a refresh stay as they are.
Logout ==
    /\ token # NoToken
    /\ calm => ~RefreshPending
    /\ token' = NoToken /\ refresh' = None
    /\ \/ Saved(NoToken, None) /\ loggedOut' = TRUE /\ UNCHANGED troubles
       \/ SaveFails /\ UNCHANGED <<disk, loggedOut>>
    /\ backend' = NoLink /\ bgImap' = NoLink /\ idle' = NoLink
    /\ place' = "root" /\ render' = TRUE
    /\ UNCHANGED <<calm, user, refreshing, completed, loading, login, google>>

\* on_setting_change of a connection setting
ChangeUser(a) ==
    /\ ~calm /\ Trouble
    /\ user' = a
    /\ Reconnect(token, a)
    /\ UNCHANGED <<calm, place, token, refresh, disk, idle, refreshing, completed, loading,
                   render, login, loggedOut, google>>

----------------------------------------------------------------------------
(* The end of the process and the next start: init takes what was saved.   *)

StartFrom(saved) ==
    /\ token' = saved.token /\ refresh' = saved.refresh /\ user' = saved.user
    /\ backend' = Rebuilt(saved.token, saved.user)
    /\ bgImap' = NoLink /\ idle' = NoLink
    /\ inflight' = FALSE /\ slot' = NoResult
    /\ tasks' = [t \in Tasks |-> FreeTask]
    /\ panicked' = FALSE /\ completed' = FALSE
    /\ loading' = FALSE /\ render' = TRUE
    /\ login' = NoLogin
    /\ place' = "root"
    /\ UNCHANGED <<calm, google>>

Restart ==
    /\ StartFrom(disk)
    /\ UNCHANGED <<disk, loggedOut, troubles>>

\* The process ends between the two saves of finish_login.
DieInLogin ==
    /\ ~calm /\ Trouble
    /\ login.active /\ Poll.kind = "ok"
    /\ Saved(Poll.token, login.refresh)
    /\ StartFrom(disk')
    /\ loggedOut' = FALSE

\* A token comes within a minute of its end.  It lives for an hour: for a calm
\* user it is in use by then, no task is between its answer and its last step,
\* and the app has fetched.
Expire(n) ==
    /\ n \in 1..issued \ due
    /\ calm => /\ n = token.serial /\ ~render
               /\ \A t \in Tasks : tasks[t].at \in {"free", "asking"}
    /\ due' = due \cup {n}
    /\ UNCHANGED <<calm, place, config, disk, links, refreshing, completed, loading, render,
                   login, loggedOut, issued, troubles>>

----------------------------------------------------------------------------
TaskStep(t) == Publish(t) \/ Clear(t) \/ Signal(t)
Render == render /\ Fetch

Next ==
    \/ Fetch \/ Navigate
    \/ \E t \in Tasks : TaskStep(t) \/ Panic(t)
    \/ Tick \/ OpenBackground \/ SendRefreshes
    \/ StartLogin \/ LoginDeadline \/ \E a \in Accounts : AnswerLogin(a)
    \/ Logout \/ \E a \in Accounts : ChangeUser(a)
    \/ Restart \/ DieInLogin
    \/ \E n \in 1..MaxTokens : Expire(n)

Spec == Init /\ [][Next]_vars

\* The app ticks, and fetches when it is told to; a task that was spawned runs
\* to its end (the request has a timeout); the clock reaches the deadline.
Fairness ==
    /\ WF_vars(Tick) /\ WF_vars(Render) /\ WF_vars(LoginDeadline)
    /\ \A t \in Tasks : WF_vars(TaskStep(t))

FairSpec == Spec /\ Fairness

----------------------------------------------------------------------------
(* Properties.  A calm user signs out when no refresh is under way, sends  *)
(* no mail in the minute before a token expires, leaves the connection     *)
(* settings alone and does not end the process within a login; Google      *)
(* tells a calm user's address, and the app fetches before the user goes   *)
(* on.                                                                     *)

\* Every variable has its type.
TypeOK ==
    /\ calm \in BOOLEAN /\ place \in {"root", "folder"}
    /\ token \in MaybeToken /\ refresh \in Holder /\ user \in Holder
    /\ disk \in [token: MaybeToken, refresh: Holder, user: Holder]
    /\ backend \in Links /\ bgImap \in Links /\ idle \in Links
    /\ inflight \in BOOLEAN /\ slot \in Result
    /\ tasks \in [Tasks -> Task]
    /\ panicked \in BOOLEAN /\ completed \in BOOLEAN
    /\ loading \in BOOLEAN /\ render \in BOOLEAN
    /\ login \in Login /\ loggedOut \in BOOLEAN
    /\ issued \in 0..MaxTokens /\ due \subseteq 1..MaxTokens
    /\ troubles \in 0..MaxTroubles

\* Whoever refreshes, signs in, signs out or changes a setting, a connection
\* that is open authenticates with the token and the address of the session.
ConnectionsCurrent ==
    \A link \in {backend, bgImap} : link.open => link.token = token /\ link.user = user

\* A calm user's session is of one account: what mail is read, what it is
\* refreshed with and whom XOAUTH2 names, across refreshes and restarts.
OneAccountIfCalm ==
    calm /\ token # NoToken =>
        user = token.acct /\ refresh \in {None, token.acct}

\* Two refreshes of one token do not run side by side, also while the app
\* fetches between the answer of one and the moment its flag comes down.
OneRefreshIfCalm ==
    calm => Cardinality({t \in Tasks : tasks[t].at = "asking"}) <= 1

\* A calm user's IDLE session reconnects with the token of the session, or the
\* app is about to fetch (the comment at the refresh, lib.rs:2541).
IdleToken == idle.open /\ token # NoToken /\ ~render => idle.token = token
IdleTokenIfCalm == calm => IdleToken

\* After a logout that was saved, no late refresh and no restart brings the session
\* back.
LoggedOutStays == loggedOut => token = NoToken

\* An answer that arrived before the app looked is adopted, deadline or not.
AnswerKept ==
    [][Tick /\ login.answer.kind = "ok" => token' = login.answer.token]_vars

\* Whatever becomes of a refresh, the app does not stay at "Loading...".
LoadingEnds == loading ~> ~loading

=============================================================================
