---------------------------- MODULE ProviderTokens ----------------------------
(***************************************************************************)
(* The OAuth credentials of a subscription provider (backend/providerauth/  *)
(* manager.go) and the sign-in and sign-out calls over them (backend/       *)
(* frontend_api_auth.go): one refresh at a time whose result is dropped     *)
(* when the credentials changed meanwhile, waiters that share its outcome,  *)
(* a sign-in that can be cancelled around its commit, and the one record of *)
(* the OS keychain from which a restart continues.                         *)
(*                                                                         *)
(* A hold of TokenManager.mu is one step.  A refresh token is its account  *)
(* and its place in the account's rotation; the issuer exchanges the newest *)
(* one for the next and refuses the others.                                *)
(* Access tokens are reduced to whether the current one can be served.      *)
(***************************************************************************)
EXTENDS Integers, FiniteSets

CONSTANTS
  Askers,        \* calls of Token and Refresh, each made once
  MaxRounds,      \* maxTokenRefreshRounds
  MaxSignIns,     \* bound: sign-in runs
  MaxSignOuts,    \* bound: sign-outs
  MaxRestarts     \* bound: restarts of the application

ASSUME RoundsAssumption == MaxRounds \in Nat \ {0}
ASSUME SignInsAssumption == MaxSignIns \in Nat

NoAccount == 0
NoToken == [of |-> NoAccount, place |-> 0]
Original == [of |-> 1, place |-> 1]
Accounts == 1..MaxSignIns + 1
NoFlight == 0

VARIABLES
  token,       \* tokens.RefreshToken, NoToken when signed out
  served,      \* the access token is there and outside the renewal skew
  epoch,       \* generation
  refreshing,      \* refreshDoneSeq while refreshDone is open, else NoFlight
  lastError,   \* refreshErrSeq if refreshErr is set, else NoFlight
  record,      \* the secret of the keychain
  calls,       \* each call of Token or Refresh
  flow,        \* the sign-in run: where it is and the token it was granted
  cancelled,   \* the run's context is cancelled
  leaving,     \* where SignOutChatGPT is
  refreshes, signIns, signOuts, restarts,   \* counters under their bounds
  newest,      \* the issuer's place in each account's rotation
  owner,       \* history: the account the user has chosen
  former,      \* history: the one chosen before it
  unwanted,    \* history: the account a cancelled run has left in use
  stray,       \* history: the account a cancelled run has left on record
  unsynced,    \* history: the keychain refused a write the code goes on without
  excused,     \* history: the last place of each account whose successor was lost
  undone       \* history: the last epoch that took a transition back

credentials == <<token, served, epoch>>
wait == <<refreshing, lastError>>
shell == <<flow, cancelled, leaving>>
counts == <<refreshes, signIns, signOuts, restarts>>
choices == <<owner, former, unwanted>>
history == <<choices, stray, unsynced, excused, undone>>
authVars == <<credentials, wait, record, calls, shell, counts, newest, history>>

Uncalled == [at |-> "uncalled"]
Returned == [at |-> "returned"]
NoRun == [at |-> "none"]
Exchanged(t) == t.place < newest[t.of]
Excused(t) == t.place <= excused[t.of]
Synced == unsynced' = FALSE /\ stray' = NoAccount
Excuse(t) == excused' = [excused EXCEPT ![t.of] = IF @ < t.place THEN t.place ELSE @]

TokensInit ==
  /\ token \in {NoToken, Original} /\ served = FALSE /\ epoch = 0
  /\ refreshing = NoFlight /\ lastError = NoFlight
  /\ record = token
  /\ calls = [c \in Askers |-> Uncalled]
  /\ flow = NoRun /\ cancelled = FALSE /\ leaving = "no"
  /\ refreshes = 0 /\ signIns = 0 /\ signOuts = 0 /\ restarts = 0
  /\ newest = [a \in Accounts |-> 1]
  /\ owner = token.of /\ former = NoAccount /\ unwanted = NoAccount /\ stray = NoAccount
  /\ unsynced = FALSE /\ excused = [a \in Accounts |-> 0] /\ undone = 0

-----------------------------------------------------------------------------
(* Token and Refresh.                                                      *)

\* This call refreshes the current epoch.
Refresher(c, forced, rounds) ==
  /\ refreshes' = refreshes + 1
  /\ refreshing' = refreshes + 1 /\ lastError' = NoFlight
  /\ calls' = [calls EXCEPT ![c] =
       [at |-> "sent", forced |-> forced, rounds |-> rounds + 1,
        seq |-> refreshes + 1, epoch |-> epoch, token |-> token, next |-> token]]

\* Mutant: a call does not look for a refresh in flight.
LookAlone(c, forced, rounds) ==
  /\ token # NoToken /\ (served => forced) /\ rounds < MaxRounds
  /\ Refresher(c, forced, rounds)
  /\ UNCHANGED <<credentials, record, shell, signIns, signOuts, restarts, newest, history>>

\* One look at the credentials: signed out or servable ends the call, an open
\* refresh is waited for, else this call is the refresher, in a bounded number
\* of rounds.  `forced` is Refresh.
Look(c, forced, rounds) ==
  LET settled == token = NoToken \/ (served /\ ~forced) IN
  /\ \/ /\ \/ settled
           \/ refreshing = NoFlight /\ rounds = MaxRounds
        /\ calls' = [calls EXCEPT ![c] = Returned]
        /\ UNCHANGED <<wait, refreshes>>
     \/ /\ ~settled /\ refreshing # NoFlight
        /\ calls' = [calls EXCEPT ![c] =
             [at |-> "waiting", forced |-> forced, rounds |-> rounds, seq |-> refreshing]]
        /\ UNCHANGED <<wait, refreshes>>
     \/ ~settled /\ refreshing = NoFlight /\ rounds < MaxRounds /\ Refresher(c, forced, rounds)
  /\ UNCHANGED <<credentials, record, shell, signIns, signOuts, restarts, newest, history>>

BeginToken(c) ==
  /\ calls[c] = Uncalled
  /\ \E forced \in BOOLEAN : Look(c, forced, 0)

LookAgain(c) == calls[c].at = "enter" /\ Look(c, calls[c].forced, calls[c].rounds)

\* The refresh a call waited for has ended, or the call's context has.
WakeUp(c) ==
  /\ calls[c].at = "waiting"
  /\ \/ calls' = [calls EXCEPT ![c] = Returned]   \* ctx.Done
     \/ /\ refreshing # calls[c].seq
        /\ LET over == \/ refreshing = NoFlight /\ lastError = calls[c].seq
                       \/ ~calls[c].forced /\ (token = NoToken \/ served)
           IN calls' = [calls EXCEPT ![c] =
                IF over THEN Returned ELSE [at |-> "enter", forced |-> @.forced, rounds |-> @.rounds]]
  /\ UNCHANGED <<credentials, wait, record, shell, counts, newest, history>>

\* refreshTokens: the issuer exchanges the token, or keeps it; the reply may
\* be lost, the call may fail before the issuer sees it.
Exchange(c) ==
  LET t == calls[c].token
      next == [t EXCEPT !.place = @ + 1]
      Reach(at, got) == calls' = [calls EXCEPT ![c].at = at, ![c].next = got]
  IN
  /\ calls[c].at = "sent"
  /\ \/ Reach("failed", t) /\ UNCHANGED <<newest, excused>>
     \/ ~Exchanged(t) /\ Reach("answered", t) /\ UNCHANGED <<newest, excused>>
     \/ /\ ~Exchanged(t)
        /\ newest' = [newest EXCEPT ![t.of] = @ + 1]
        /\ \/ Reach("answered", next) /\ UNCHANGED excused
           \/ Reach("failed", t) /\ Excuse(t)
  /\ UNCHANGED <<credentials, wait, record, shell, counts, choices, stray, unsynced, undone>>

\* Mutant: only a sign-out is noticed.
SupersedesSignedOut(c) == token = NoToken

Supersedes(c) == epoch # calls[c].epoch \/ token = NoToken

\* The commit of refreshEpoch.  A result of another epoch is dropped; one that
\* cannot be written is kept in memory only.
CommitRefresh(c) ==
  LET next == calls[c].next IN
  /\ calls[c].at = "answered"
  /\ calls' = [calls EXCEPT ![c].at = "committed"]
  /\ \/ /\ Supersedes(c)
        /\ IF undone > calls[c].epoch /\ Exchanged(calls[c].token) THEN Excuse(calls[c].token) ELSE UNCHANGED excused
        /\ UNCHANGED <<token, served, record, stray, unsynced>>
     \/ /\ ~Supersedes(c)
        /\ token' = next /\ served' \in BOOLEAN
        /\ \/ record' = next /\ Synced /\ UNCHANGED excused
           \/ UNCHANGED <<record, stray>> /\ unsynced' = TRUE
           /\ IF record = NoToken THEN UNCHANGED excused ELSE Excuse(record)
  /\ UNCHANGED <<epoch, wait, shell, counts, newest, choices, undone>>

\* Mutant: a failure returns before refreshDone is closed.
ShareOutcomeEarly(c) ==
  /\ calls[c].at = "failed"
  /\ calls' = [calls EXCEPT ![c] = Returned]
  /\ UNCHANGED <<credentials, wait, record, shell, counts, newest, history>>

\* The refresher publishes the outcome and closes refreshDone.  Token looks
\* again; Refresh does so only if its epoch is over.
ShareOutcome(c) ==
  LET failed == calls[c].at = "failed"
      again == ~failed /\ (~calls[c].forced \/ epoch # calls[c].epoch)
  IN
  /\ calls[c].at \in {"failed", "committed"}
  /\ refreshing' = NoFlight
  /\ lastError' = IF failed THEN calls[c].seq ELSE NoFlight
  /\ calls' = [calls EXCEPT ![c] =
       IF again THEN [at |-> "enter", forced |-> @.forced, rounds |-> @.rounds] ELSE Returned]
  /\ UNCHANGED <<credentials, record, shell, counts, newest, history>>

\* The access token comes within the renewal skew.
ExpireAccess ==
  /\ served /\ served' = FALSE
  /\ UNCHANGED <<token, epoch, wait, record, calls, shell, counts, newest, history>>

-----------------------------------------------------------------------------
(* Sign-in, its cancellation, sign-out, restart.                           *)

StartSignIn ==
  /\ flow = NoRun /\ signIns < MaxSignIns
  /\ flow' = [at |-> "browser"] /\ cancelled' = FALSE
  /\ signIns' = signIns + 1
  /\ UNCHANGED <<credentials, wait, record, calls, leaving, refreshes, signOuts, restarts, newest,
                 history>>

\* The browser flow ends: with the tokens of an account of its own, or without.
Grant ==
  /\ flow.at = "browser"
  /\ \/ /\ ~cancelled
        /\ flow' = [at |-> "granted", token |-> [of |-> signIns + 1, place |-> 1]]
     \/ flow' = [at |-> "over", token |-> NoToken]
  /\ UNCHANGED <<credentials, wait, record, calls, cancelled, leaving, counts, newest, history>>

\* What the code took back: the previous tokens again, two epochs on.
TakeBack ==
  /\ epoch' = epoch + 2 /\ undone' = epoch + 2
  /\ UNCHANGED <<token, served, choices>>

\* The account of the run is in use.
SignedIn ==
  /\ token' = flow.token /\ served' = TRUE /\ epoch' = epoch + 1
  /\ record' = flow.token /\ Synced
  /\ UNCHANGED undone

\* The user's choice is `a`, and no other account is left in use.
Choose(a) == owner' = a /\ former' = owner /\ unwanted' = NoAccount

\* Mutant: a cancelled commit is taken back in memory only.
CommitSignInHalfway ==
  /\ flow.at = "granted"
  /\ flow' = [flow EXCEPT !.at = "over"]
  /\ cancelled /\ TakeBack
  /\ record' = flow.token /\ UNCHANGED <<stray, unsynced>>
  /\ UNCHANGED <<wait, calls, cancelled, leaving, counts, newest, excused>>

\* Mutant: the context is not looked at again after the browser flow.
CommitSignInUnchecked ==
  /\ flow.at = "granted"
  /\ flow' = [flow EXCEPT !.at = "over"]
  /\ SignedIn
  /\ IF cancelled THEN UNCHANGED choices ELSE Choose(flow.token.of)
  /\ UNCHANGED <<wait, calls, cancelled, leaving, counts, newest, excused>>

\* SignIn commits in one hold, unless it is cancelled before: the write, then the
\* cancellation's rollback.  A rollback the keychain refuses is also that of a
\* process which ends before it.
CommitSignIn ==
  /\ flow.at = "granted"
  /\ flow' = [flow EXCEPT !.at = "over"]
  /\ \/ /\ cancelled   \* refused before the write
        /\ UNCHANGED <<credentials, record, choices, stray, unsynced, undone>>
     \/ TakeBack /\ UNCHANGED <<record, stray, unsynced>>   \* the write failed
     \/ cancelled /\ TakeBack /\ record' = token /\ Synced
     \/ /\ cancelled /\ TakeBack
        /\ record' = flow.token /\ stray' = flow.token.of /\ unsynced' = TRUE
     \/ ~cancelled /\ SignedIn /\ Choose(flow.token.of)
  /\ UNCHANGED <<wait, calls, cancelled, leaving, counts, newest, excused>>

\* The bookkeeping of the run's goroutine.
EndRun ==
  /\ flow.at = "over"
  /\ flow' = NoRun /\ cancelled' = FALSE
  /\ UNCHANGED <<credentials, wait, record, calls, leaving, counts, newest, history>>

\* A cancellation is accepted as long as the run's bookkeeping stands.  After
\* the commit nothing heeds it: the account the user no longer wants stays.
Accept ==
  IF flow.at = "over" /\ flow.token # NoToken /\ token.of = flow.token.of /\ ~cancelled
    THEN owner' = former /\ unwanted' = token.of /\ UNCHANGED former
    ELSE UNCHANGED choices

\* CancelChatGPTSignIn.
CancelSignIn ==
  /\ flow # NoRun /\ ~cancelled
  /\ cancelled' = TRUE /\ Accept
  /\ UNCHANGED <<credentials, wait, record, calls, flow, leaving, counts, newest, stray, unsynced,
                 excused, undone>>

\* SignOutChatGPT cancels a run and joins it, for a bounded time only: nothing
\* orders the sign-out proper after the run's end.
StartSignOut ==
  /\ leaving = "no" /\ signOuts < MaxSignOuts
  /\ leaving' = "joining" /\ signOuts' = signOuts + 1
  /\ cancelled' = (flow # NoRun) /\ Accept
  /\ UNCHANGED <<credentials, wait, record, calls, flow, refreshes, signIns, restarts, newest, stray,
                 unsynced, excused, undone>>

SignOut ==
  /\ leaving = "joining" /\ leaving' = "no"
  /\ epoch' = epoch + 1
  /\ \/ undone' = epoch + 1 /\ UNCHANGED <<token, served, record, choices, stray, unsynced>>
     \/ /\ token' = NoToken /\ served' = FALSE /\ record' = NoToken
        /\ Choose(NoAccount) /\ Synced /\ UNCHANGED undone
  /\ UNCHANGED <<wait, calls, flow, cancelled, counts, newest, excused>>

\* The process ends anywhere; the next one loads the record.
Restart ==
  /\ restarts < MaxRestarts /\ restarts' = restarts + 1
  /\ token' = record /\ served' = FALSE /\ epoch' = 0
  /\ refreshing' = NoFlight /\ lastError' = NoFlight
  /\ calls' = [c \in Askers |-> IF calls[c] = Uncalled THEN Uncalled ELSE Returned]
  /\ flow' = NoRun /\ cancelled' = FALSE /\ leaving' = "no"
  /\ excused' = [a \in Accounts |->
       IF \E c \in Askers : calls[c].at = "answered" /\ calls[c].token.of = a
       THEN newest[a] - 1 ELSE excused[a]]
  /\ unwanted' = IF stray = NoAccount THEN unwanted ELSE stray
  /\ Synced /\ undone' = 0
  /\ UNCHANGED <<record, refreshes, signIns, signOuts, newest, owner, former>>

-----------------------------------------------------------------------------
CallStep(c) == LookAgain(c) \/ WakeUp(c) \/ Exchange(c) \/ CommitRefresh(c) \/ ShareOutcome(c)

TokensNext ==
  \/ \E c \in Askers :
       \/ BeginToken(c) \/ LookAgain(c) \/ WakeUp(c) \/ Exchange(c) \/ CommitRefresh(c) \/ ShareOutcome(c)
  \/ ExpireAccess
  \/ StartSignIn \/ Grant \/ CommitSignIn \/ EndRun \/ CancelSignIn
  \/ StartSignOut \/ SignOut
  \/ Restart

\* The HTTP client gives every round-trip 30 s; the rest is the caller's own
\* goroutine.
TokensFairness == \A c \in Askers : WF_authVars(CallStep(c))

TokensSpec == TokensInit /\ [][TokensNext]_authVars /\ TokensFairness

-----------------------------------------------------------------------------
\* A refresh token the issuer has exchanged is not sent again, by any call, in
\* any epoch, after any restart: the issuer would refuse it and the account
\* would need a new sign-in.  Excused are the tokens whose successor was lost
\* with the reply, with a write the keychain refused, with the process, or with
\* a transition that was taken back during the refresh.
NeverRespent ==
  \A c \in Askers : calls[c].at = "sent" => ~Exchanged(calls[c].token) \/ Excused(calls[c].token)

\* The credentials in use are those of the account the user chose last, and none
\* after a sign-out: no refresh, no restart and no run cancelled before its
\* commit brings another one back.  Two cases are excepted and named by `unwanted`,
\* until the next sign-in or sign-out: a run whose Cancel was accepted after its
\* commit stays signed in, and a restart loads what a cancelled run has left on
\* record.
OwnerKept == token.of = IF unwanted = NoAccount THEN owner ELSE unwanted

\* What a restart would load is what the manager holds; older tokens of the
\* same account where the keychain refused those of a refresh; and those of a
\* cancelled run, named by `stray`, only where it refused the rollback.
RecordMatches ==
  /\ record.of = IF stray = NoAccount THEN token.of ELSE stray
  /\ unsynced \/ record = token

\* The credentials in use and those on record are those of one account, the one
\* the user chose, and none of them is spent twice, with the exceptions of the
\* three parts.
CredentialsAgree == OwnerKept /\ RecordMatches /\ NeverRespent

\* Every Token and Refresh call returns, whatever happens to its epoch.
TokenCallsEnd == \A c \in Askers : []<>(calls[c] \in {Uncalled, Returned})

\* "an accepted Cancel can never conclude as a durably signed-in account"
\* (SignIn).  Violated: by a Cancel that comes after the commit, before the run's
\* bookkeeping, and by a rollback the keychain refuses.
CancelHolds ==
  flow.at = "over" /\ cancelled /\ flow.token # NoToken =>
    token.of # flow.token.of /\ record.of # flow.token.of
=============================================================================
