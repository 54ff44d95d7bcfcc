----------------------------- MODULE ServiceProofs -----------------------------
(***************************************************************************)
(* Proofs about the services of the process: the credentials of a provider, *)
(* the vector indexes of the roots, the embedded server, the update.        *)
(***************************************************************************)
EXTENDS ProviderTokens, VectorRoots, EmbeddedServer, SelfUpdate, FiniteSetTheorems, TLAPS

-----------------------------------------------------------------------------
(* The credentials of a provider                                            *)

Tokens == [of : Accounts, place : Nat]

FlyingCalls ==
  [at : {"sent", "answered", "failed", "committed"}, forced : BOOLEAN, rounds : Nat, seq : Nat,
   epoch : Nat, token : Tokens, next : Tokens]
RestingCalls ==
  {Uncalled, Returned} \cup [at : {"enter"}, forced : BOOLEAN, rounds : Nat]
  \cup [at : {"waiting"}, forced : BOOLEAN, rounds : Nat, seq : Nat]

TokenTypes ==
  /\ token \in Tokens \cup {NoToken} /\ record \in Tokens \cup {NoToken}
  /\ served \in BOOLEAN /\ epoch \in Nat /\ undone \in Nat /\ refreshes \in Nat /\ refreshing \in Nat
  /\ signIns \in 0 .. MaxSignIns
  /\ newest \in [Accounts -> Nat] /\ excused \in [Accounts -> Int]
  /\ calls \in [Askers -> RestingCalls \cup FlyingCalls]
  /\ \/ flow \in {NoRun, [at |-> "browser"]}
     \/ flow \in [at : {"granted"}, token : Tokens]
     \/ flow \in [at : {"over"}, token : Tokens \cup {NoToken}]

\* A call between its request to the issuer and its last step.
Flying(c) == calls[c].at \in {"sent", "answered", "failed", "committed"}

\* A call whose outcome is not applied yet.
Pending(c) == calls[c].at \in {"sent", "answered"}

\* The account of the next sign-in is not granted to anybody yet.
Ungranted == flow.at \in {"browser", "granted"}

\* A token that can still be exchanged, or whose successor was lost.
Good(t) == t # NoToken => ~Exchanged(t) \/ Excused(t)

\* One refresh at a time.
OneFlight ==
  \A c \in Askers : Flying(c) => refreshing # NoFlight /\ \A d \in Askers : Flying(d) => c = d

\* What is not applied yet was asked for with the token in use, unless the
\* account is gone from memory and record; without an epoch of its own only if
\* every transition since was taken back.
Asked ==
  \A c \in Askers : Pending(c) =>
    /\ calls[c].epoch <= epoch
    /\ epoch = calls[c].epoch => token = calls[c].token
    /\ \/ token = calls[c].token /\ (epoch = calls[c].epoch \/ undone > calls[c].epoch)
       \/ token.of # calls[c].token.of /\ record.of # calls[c].token.of

\* The issuer's answer is the newest of its account.
Answered ==
  \A c \in Askers : calls[c].at = "answered" =>
    ~Exchanged(calls[c].next) /\ calls[c].next.of = calls[c].token.of

\* The tokens at hand can be sent, or are being exchanged.
Sendable ==
  /\ Good(token) \/ \E c \in Askers : calls[c].at = "answered" /\ calls[c].token = token
  /\ Good(record) \/ \E c \in Askers : calls[c].at = "answered" /\ calls[c].token = record
  /\ \A c \in Askers : calls[c].at = "sent" => Good(calls[c].token)
  /\ record # NoToken /\ record.of = token.of => record = token \/ Excused(record)

\* A sign-in brings an account nobody has seen.
Seen(a) == a <= signIns + 1 /\ (Ungranted => a # signIns + 1)
NewAccounts ==
  /\ flow.at = "granted" => flow.token = [of |-> signIns + 1, place |-> 1]
  /\ Seen(token.of) /\ Seen(record.of) /\ \A c \in Askers : Pending(c) => Seen(calls[c].token.of)
  /\ \A a \in Accounts : ~Seen(a) => newest[a] = 1

TokensIInv ==
  /\ TokenTypes /\ OneFlight /\ Asked /\ Answered /\ Sendable /\ NewAccounts
  /\ OwnerKept /\ RecordMatches

\* A step's effect, as far as these invariants can tell: no call in flight
\* moves,
Still ==
  /\ UNCHANGED <<token, epoch, record, calls, newest, excused, undone, refreshing, signIns, stray, unsynced>>
  /\ flow' \in {flow, NoRun}
  /\ \/ UNCHANGED <<owner, unwanted>>
     \/ unwanted' = token.of /\ token.of # NoAccount

\* a call rests, perhaps from the flight it ends,
Rests(c) ==
  /\ \E r \in RestingCalls : calls' = [calls EXCEPT ![c] = r]
  /\ refreshing' = refreshing \/ (Flying(c) /\ refreshing' = NoFlight)
  /\ ~Pending(c) /\ (Flying(c) => refreshing' = NoFlight)
  /\ UNCHANGED <<token, epoch, record, newest, excused, undone, flow, signIns, owner, unwanted, stray, unsynced>>

\* or asks the issuer.
Sends(c) ==
  /\ refreshing = NoFlight /\ refreshing' # NoFlight /\ token # NoToken /\ ~Flying(c)
  /\ \E r \in FlyingCalls : /\ r.at = "sent" /\ r.epoch = epoch /\ r.token = token
                            /\ calls' = [calls EXCEPT ![c] = r]
  /\ UNCHANGED <<token, epoch, record, newest, excused, undone, flow, signIns, owner, unwanted, stray, unsynced>>

LEMMA RestingFacts ==
  /\ \A r \in RestingCalls : r.at \in {"uncalled", "returned", "enter", "waiting"}
  /\ \A r \in FlyingCalls : r.at \in {"sent", "answered", "failed", "committed"}
  /\ \A r \in RestingCalls : r.at = "enter" => r \in [at : {"enter"}, forced : BOOLEAN, rounds : Nat]
  /\ \A r \in RestingCalls :
       r.at = "waiting" => r \in [at : {"waiting"}, forced : BOOLEAN, rounds : Nat, seq : Nat]
  /\ Uncalled \in RestingCalls /\ Uncalled.at = "uncalled"
  /\ Returned \in RestingCalls /\ Returned.at = "returned"
  BY DEF RestingCalls, FlyingCalls, Uncalled, Returned

LEMMA CallKind ==
  ASSUME TokenTypes, NEW c \in Askers
  PROVE  /\ calls[c] \in RestingCalls \/ calls[c] \in FlyingCalls
         /\ Flying(c) <=> calls[c] \in FlyingCalls
         /\ Pending(c) => Flying(c)
         /\ calls[c].at = "enter" => calls[c].forced \in BOOLEAN /\ calls[c].rounds \in Nat
         /\ calls[c].at = "waiting" =>
              calls[c].forced \in BOOLEAN /\ calls[c].rounds \in Nat /\ calls[c].seq \in Nat
<1>1. calls[c] \in RestingCalls \cup FlyingCalls
  BY DEF TokenTypes
<1> QED BY <1>1, RestingFacts DEF Flying, Pending

LEMMA LookEffect ==
  ASSUME TokenTypes, NEW c \in Askers, ~Flying(c), NEW anew \in BOOLEAN, NEW rounds \in Nat,
         Look(c, anew, rounds)
  PROVE  /\ refreshes' \in Nat /\ refreshing' \in Nat /\ served' = served
         /\ Rests(c) \/ Sends(c)
<1>1. ~Pending(c) /\ refreshes \in Nat /\ refreshing \in Nat
  BY CallKind DEF TokenTypes
<1>2. /\ UNCHANGED <<token, epoch, record, newest, excused, undone, flow, signIns, owner, unwanted, stray, unsynced>>
      /\ served' = served
  BY DEF Look, credentials, shell, history, choices
<1>3. CASE calls' = [calls EXCEPT ![c] = Returned] /\ UNCHANGED <<wait, refreshes>>
  BY <1>1, <1>2, <1>3, RestingFacts DEF Rests, wait
<1>4. CASE /\ UNCHANGED <<wait, refreshes>>
           /\ calls' = [calls EXCEPT ![c] =
                [at |-> "waiting", forced |-> anew, rounds |-> rounds, seq |-> refreshing]]
  <2>1. [at |-> "waiting", forced |-> anew, rounds |-> rounds, seq |-> refreshing] \in RestingCalls
    BY <1>1 DEF RestingCalls
  <2> QED BY <1>1, <1>2, <1>4, <2>1 DEF Rests, wait
<1>5. CASE /\ token # NoToken /\ refreshing = NoFlight /\ Refresher(c, anew, rounds)
  <2> DEFINE r == [at |-> "sent", forced |-> anew, rounds |-> rounds + 1, seq |-> refreshes + 1,
                   epoch |-> epoch, token |-> token, next |-> token]
  <2>1. r \in FlyingCalls /\ r.at = "sent" /\ r.epoch = epoch /\ r.token = token
    BY <1>1, <1>5 DEF FlyingCalls, TokenTypes
  <2>2. refreshing' # NoFlight /\ refreshing' \in Nat /\ refreshes' \in Nat
    BY <1>1, <1>5 DEF Refresher, NoFlight
  <2>3. calls' = [calls EXCEPT ![c] = r]
    BY <1>5 DEF Refresher
  <2> HIDE DEF r
  <2> QED BY <1>1, <1>2, <1>5, <2>1, <2>2, <2>3 DEF Sends
<1> QED BY <1>1, <1>3, <1>4, <1>5 DEF Look, wait

LEMMA WakeEffect ==
  ASSUME TokenTypes, NEW c \in Askers, WakeUp(c)
  PROVE  Rests(c)
<1>1. ~Flying(c) /\ ~Pending(c) /\ calls[c].forced \in BOOLEAN /\ calls[c].rounds \in Nat
  BY CallKind DEF WakeUp, Flying, Pending
<1>2. [at |-> "enter", forced |-> calls[c].forced, rounds |-> calls[c].rounds] \in RestingCalls
  BY <1>1 DEF RestingCalls
<1>3. \E r \in RestingCalls : calls' = [calls EXCEPT ![c] = r]
  BY <1>2, RestingFacts DEF WakeUp
<1> QED BY <1>1, <1>3 DEF WakeUp, Rests, credentials, wait, shell, counts, history, choices

LEMMA ShareEffect ==
  ASSUME TokenTypes, NEW c \in Askers, ShareOutcome(c)
  PROVE  Rests(c) /\ refreshing' = NoFlight
<1>1. Flying(c) /\ ~Pending(c)
  BY DEF ShareOutcome, Flying, Pending
<1>2. calls[c] \in FlyingCalls
  BY <1>1, CallKind
<1>3. [at |-> "enter", forced |-> calls[c].forced, rounds |-> calls[c].rounds] \in RestingCalls
  BY <1>2 DEF RestingCalls, FlyingCalls
<1>4. \E r \in RestingCalls : calls' = [calls EXCEPT ![c] = r]
  BY <1>3, RestingFacts DEF ShareOutcome
<1> QED BY <1>1, <1>4 DEF ShareOutcome, Rests, credentials, shell, counts, history, choices

LEMMA ExchangeEffect ==
  ASSUME TokenTypes, NEW c \in Askers, Exchange(c)
  PROVE  /\ calls[c] \in FlyingCalls /\ calls[c].at = "sent"
         /\ UNCHANGED <<token, served, epoch, record, undone, refreshes, refreshing, flow, signIns, owner, unwanted, stray, unsynced>>
         /\ \E r \in FlyingCalls :
              /\ calls' = [calls EXCEPT ![c] = r] /\ r.token = calls[c].token /\ r.epoch = calls[c].epoch
              /\ \/ r.at = "failed" /\ UNCHANGED <<newest, excused>>
                 \/ /\ r.at = "answered" /\ r.next = r.token /\ ~Exchanged(r.token)
                    /\ UNCHANGED <<newest, excused>>
                 \/ /\ ~Exchanged(r.token) /\ newest' = [newest EXCEPT ![r.token.of] = @ + 1]
                    /\ \/ r.at = "failed" /\ Excuse(r.token)
                       \/ /\ r.at = "answered" /\ r.next.of = r.token.of /\ r.next.place = r.token.place + 1
                          /\ excused' = excused
<1>1. calls[c] \in FlyingCalls /\ calls[c].at = "sent" /\ calls \in [Askers -> RestingCalls \cup FlyingCalls]
  BY CallKind DEF Exchange, Flying, TokenTypes
<1>2. UNCHANGED <<token, served, epoch, record, undone, refreshes, refreshing, flow, signIns, owner, unwanted, stray, unsynced>>
  BY DEF Exchange, credentials, wait, shell, counts, choices
<1> DEFINE t == calls[c].token
           next == [t EXCEPT !.place = @ + 1]
           Rec(at, got) == [calls[c] EXCEPT !.at = at, !.next = got]
<1>3. t \in Tokens /\ next \in Tokens /\ next.of = t.of /\ next.place = t.place + 1
  BY <1>1 DEF FlyingCalls, Tokens
<1>4. ASSUME NEW at \in {"answered", "failed"}, NEW got \in Tokens,
             calls' = [calls EXCEPT ![c].at = at, ![c].next = got]
      PROVE  /\ Rec(at, got) \in FlyingCalls /\ calls' = [calls EXCEPT ![c] = Rec(at, got)]
             /\ Rec(at, got).token = t /\ Rec(at, got).epoch = calls[c].epoch
             /\ Rec(at, got).at = at /\ Rec(at, got).next = got
  BY <1>1, <1>4 DEF FlyingCalls
<1>5. CASE calls' = [calls EXCEPT ![c].at = "failed", ![c].next = t] /\ UNCHANGED <<newest, excused>>
  <2> HIDE DEF t, Rec
  <2>1. PICK r \in FlyingCalls : /\ calls' = [calls EXCEPT ![c] = r] /\ r.token = t
                                 /\ r.epoch = calls[c].epoch /\ r.at = "failed" /\ r.next = t
    BY <1>3, <1>4, <1>5
  <2> QED BY <1>1, <1>2, <1>3, <1>5, <2>1 DEF t
<1>6. CASE /\ calls' = [calls EXCEPT ![c].at = "answered", ![c].next = t] /\ UNCHANGED <<newest, excused>>
           /\ ~Exchanged(t)
  <2> HIDE DEF t, Rec
  <2>1. PICK r \in FlyingCalls : /\ calls' = [calls EXCEPT ![c] = r] /\ r.token = t
                                 /\ r.epoch = calls[c].epoch /\ r.at = "answered" /\ r.next = t
    BY <1>3, <1>4, <1>6
  <2> QED BY <1>1, <1>2, <1>3, <1>6, <2>1 DEF t, Exchanged
<1>7. CASE /\ calls' = [calls EXCEPT ![c].at = "answered", ![c].next = next] /\ excused' = excused
           /\ ~Exchanged(t) /\ newest' = [newest EXCEPT ![t.of] = @ + 1]
  <2> HIDE DEF t, next, Rec
  <2>1. PICK r \in FlyingCalls : /\ calls' = [calls EXCEPT ![c] = r] /\ r.token = t
                                 /\ r.epoch = calls[c].epoch /\ r.at = "answered" /\ r.next = next
    BY <1>3, <1>4, <1>7
  <2> QED BY <1>1, <1>2, <1>3, <1>7, <2>1 DEF t, Exchanged
<1>8. CASE /\ calls' = [calls EXCEPT ![c].at = "failed", ![c].next = t] /\ Excuse(t)
           /\ ~Exchanged(t) /\ newest' = [newest EXCEPT ![t.of] = @ + 1]
  <2> HIDE DEF t, Rec
  <2>1. PICK r \in FlyingCalls : /\ calls' = [calls EXCEPT ![c] = r] /\ r.token = t
                                 /\ r.epoch = calls[c].epoch /\ r.at = "failed" /\ r.next = t
    BY <1>3, <1>4, <1>8
  <2> QED BY <1>1, <1>2, <1>3, <1>8, <2>1 DEF t, Exchanged, Excuse
<1> QED BY <1>5, <1>6, <1>7, <1>8 DEF Exchange

LEMMA CommitEffect ==
  ASSUME TokenTypes, NEW c \in Askers, CommitRefresh(c)
  PROVE  /\ calls[c] \in FlyingCalls /\ calls[c].at = "answered"
         /\ UNCHANGED <<epoch, newest, undone, flow, signIns, owner, unwanted, refreshing, refreshes>>
         /\ \E r \in FlyingCalls : r.at = "committed" /\ calls' = [calls EXCEPT ![c] = r]
<1>1. calls[c] \in FlyingCalls /\ calls[c].at = "answered" /\ calls \in [Askers -> RestingCalls \cup FlyingCalls]
  BY CallKind DEF CommitRefresh, Flying, TokenTypes
<1>2. [calls[c] EXCEPT !.at = "committed"] \in FlyingCalls /\ [calls[c] EXCEPT !.at = "committed"].at = "committed"
  BY <1>1 DEF FlyingCalls
<1>3. calls' = [calls EXCEPT ![c] = [calls[c] EXCEPT !.at = "committed"]]
  BY <1>1 DEF CommitRefresh
<1> QED BY <1>1, <1>2, <1>3 DEF CommitRefresh, wait, shell, counts, choices

LEMMA Moved ==
  ASSUME TokenTypes, NEW c \in Askers, NEW r, calls' = [calls EXCEPT ![c] = r]
  PROVE  calls'[c] = r /\ \A d \in Askers : d # c => calls'[d] = calls[d]
  BY DEF TokenTypes

LEMMA TokensInitial == TokensInit => TokensIInv
<1> SUFFICES ASSUME TokensInit PROVE TokensIInv
  OBVIOUS
<1>1. Original \in Tokens /\ Original.of = 1 /\ Original.place = 1 /\ NoToken.of = 0
  BY SignInsAssumption DEF Tokens, Accounts, Original, NoToken, NoAccount
<1>2. TokenTypes
  <2>1. calls \in [Askers -> RestingCalls \cup FlyingCalls]
    BY RestingFacts DEF TokensInit
  <2>2. token \in Tokens \cup {NoToken} /\ record \in Tokens \cup {NoToken}
    BY <1>1 DEF TokensInit
  <2>3. newest \in [Accounts -> Nat] /\ excused \in [Accounts -> Int]
    BY DEF TokensInit
  <2>4. /\ served \in BOOLEAN /\ epoch \in Nat /\ undone \in Nat /\ refreshes \in Nat /\ refreshing \in Nat
        /\ signIns \in 0 .. MaxSignIns
    <3>1. served = FALSE /\ epoch = 0 /\ undone = 0 /\ refreshes = 0 /\ refreshing = 0 /\ signIns = 0
      BY DEF TokensInit, NoFlight
    <3>2. 0 \in 0 .. MaxSignIns
      BY SignInsAssumption
    <3> QED BY <3>1, <3>2
  <2> QED BY <2>1, <2>2, <2>3, <2>4 DEF TokensInit, TokenTypes
<1>3. \A c \in Askers : ~Flying(c) /\ ~Pending(c)
  BY RestingFacts DEF TokensInit, Flying, Pending
<1>4. OneFlight /\ Asked /\ Answered
  BY <1>3 DEF OneFlight, Asked, Answered, Pending
<1>5. ~Ungranted /\ flow.at # "granted"
  BY DEF TokensInit, Ungranted, NoRun
<1>6. Seen(1) /\ Seen(0)
  BY <1>5 DEF Seen, TokensInit
<1>7. Sendable
  <2>1. token = Original => newest[token.of] = 1
    BY <1>1, SignInsAssumption DEF TokensInit, Accounts
  <2>2. Good(token) /\ Good(record)
    BY <1>1, <2>1 DEF TokensInit, Good, Exchanged
  <2> QED BY <1>3, <2>2 DEF Sendable, Pending, TokensInit
<1>8. NewAccounts
  BY <1>1, <1>3, <1>5, <1>6 DEF NewAccounts, TokensInit
<1>9. OwnerKept /\ RecordMatches
  BY DEF TokensInit, OwnerKept, RecordMatches
<1> QED BY <1>2, <1>4, <1>7, <1>8, <1>9 DEF TokensIInv

LEMMA TokenCases ==
  ASSUME TokensIInv, TokensNext \/ UNCHANGED authVars
  PROVE  \/ Still
         \/ \E c \in Askers : Rests(c) \/ Sends(c) \/ Exchange(c) \/ CommitRefresh(c)
         \/ StartSignIn \/ Grant \/ CommitSignIn \/ SignOut \/ Restart
<1>1. TokenTypes
  BY DEF TokensIInv
<1>2. ASSUME NEW c \in Askers, BeginToken(c) PROVE Rests(c) \/ Sends(c)
  BY <1>1, <1>2, LookEffect, RestingFacts DEF BeginToken, Flying
<1>3. ASSUME NEW c \in Askers, LookAgain(c) PROVE Rests(c) \/ Sends(c)
  BY <1>1, <1>3, LookEffect, CallKind DEF LookAgain, Flying
<1>4. ASSUME NEW c \in Askers, WakeUp(c) \/ ShareOutcome(c) PROVE Rests(c)
  BY <1>1, <1>4, WakeEffect, ShareEffect
<1>5. ExpireAccess \/ EndRun \/ UNCHANGED authVars => Still
  BY DEF ExpireAccess, EndRun, authVars, Still, credentials, wait, shell, counts, history, choices
<1>6. CancelSignIn \/ StartSignOut => Still
  <2>1. Accept => UNCHANGED <<owner, unwanted>> \/ (unwanted' = token.of /\ token.of # NoAccount)
    <3>1. token \in Tokens \cup {NoToken} /\ (flow.at = "over" => flow.token \in Tokens \cup {NoToken})
      BY <1>1 DEF TokenTypes, NoRun
    <3>2. \A t \in Tokens : t.of # NoAccount
      BY DEF Tokens, Accounts, NoAccount
    <3> QED BY <3>1, <3>2 DEF Accept, choices
  <2> QED BY <2>1 DEF CancelSignIn, StartSignOut, Still, credentials, wait, shell, counts
<1> QED BY <1>2, <1>3, <1>4, <1>5, <1>6 DEF TokensNext

LEMMA TokenTypesKept == TokensIInv /\ [TokensNext]_authVars => TokenTypes'
<1> SUFFICES ASSUME TokensIInv, TokensNext \/ UNCHANGED authVars PROVE TokenTypes'
  BY DEF authVars
<1>t. TokenTypes /\ NewAccounts /\ calls \in [Askers -> RestingCalls \cup FlyingCalls]
  BY DEF TokensIInv, TokenTypes
<1>m. ASSUME NEW c \in Askers, NEW r \in RestingCalls \cup FlyingCalls, calls' = [calls EXCEPT ![c] = r]
      PROVE  calls' \in [Askers -> RestingCalls \cup FlyingCalls]
  BY <1>t, <1>m
<1>1. ASSUME NEW c \in Askers, NEW anew \in BOOLEAN, NEW rounds \in Nat, Look(c, anew, rounds), ~Flying(c)
      PROVE  TokenTypes'
  <2>1. refreshes' \in Nat /\ refreshing' \in Nat /\ served' = served /\ (Rests(c) \/ Sends(c))
    BY <1>t, <1>1, LookEffect
  <2>2. calls' \in [Askers -> RestingCalls \cup FlyingCalls]
    BY <1>m, <2>1 DEF Rests, Sends
  <2>3. UNCHANGED <<token, epoch, record, newest, excused, undone, flow, signIns>>
    BY <2>1 DEF Rests, Sends
  <2> QED BY <1>t, <2>1, <2>2, <2>3 DEF TokenTypes
<1>2. ASSUME NEW c \in Askers, BeginToken(c) PROVE TokenTypes'
  BY <1>1, <1>2, RestingFacts DEF BeginToken, Flying
<1>3. ASSUME NEW c \in Askers, LookAgain(c) PROVE TokenTypes'
  BY <1>t, <1>1, <1>3, CallKind DEF LookAgain, Flying
<1>4. ASSUME NEW c \in Askers, WakeUp(c) PROVE TokenTypes'
  <2>1. Rests(c)
    BY <1>t, <1>4, WakeEffect
  <2>2. calls' \in [Askers -> RestingCalls \cup FlyingCalls]
    BY <1>m, <2>1 DEF Rests
  <2> QED BY <1>t, <1>4, <2>2 DEF WakeUp, credentials, wait, shell, counts, history, TokenTypes
<1>5. ASSUME NEW c \in Askers, ShareOutcome(c) PROVE TokenTypes'
  <2>1. Rests(c) /\ refreshing' = NoFlight /\ NoFlight \in Nat
    BY <1>t, <1>5, ShareEffect DEF NoFlight
  <2>2. calls' \in [Askers -> RestingCalls \cup FlyingCalls]
    BY <1>m, <2>1 DEF Rests
  <2> QED BY <1>t, <1>5, <2>1, <2>2 DEF ShareOutcome, credentials, shell, counts, history, TokenTypes
<1>6. ASSUME NEW c \in Askers, Exchange(c) PROVE TokenTypes'
  <2>1. /\ calls[c] \in FlyingCalls
        /\ UNCHANGED <<token, served, epoch, record, undone, refreshes, refreshing, flow, signIns>>
    BY <1>t, <1>6, ExchangeEffect
  <2>2. PICK r \in FlyingCalls : /\ calls' = [calls EXCEPT ![c] = r] /\ r.token = calls[c].token
             /\ \/ UNCHANGED <<newest, excused>>
                \/ /\ newest' = [newest EXCEPT ![r.token.of] = @ + 1]
                   /\ Excuse(r.token) \/ excused' = excused
    BY <1>t, <1>6, ExchangeEffect
  <2>3. calls' \in [Askers -> RestingCalls \cup FlyingCalls]
    BY <1>m, <2>2
  <2>4. r.token \in Tokens /\ r.token.of \in Accounts /\ r.token.place \in Nat
    BY DEF FlyingCalls, Tokens
  <2>5. newest' \in [Accounts -> Nat] /\ excused' \in [Accounts -> Int]
    BY <1>t, <2>2, <2>4 DEF TokenTypes, Excuse
  <2> QED BY <1>t, <2>1, <2>3, <2>5 DEF TokenTypes
<1>7. ASSUME NEW c \in Askers, CommitRefresh(c) PROVE TokenTypes'
  <2>1. /\ calls[c] \in FlyingCalls
        /\ UNCHANGED <<epoch, newest, undone, flow, signIns, refreshing, refreshes>>
        /\ \E r \in FlyingCalls : calls' = [calls EXCEPT ![c] = r]
    BY <1>t, <1>7, CommitEffect
  <2>2. calls' \in [Askers -> RestingCalls \cup FlyingCalls]
    BY <1>m, <2>1
  <2>3. calls[c].token \in Tokens /\ calls[c].next \in Tokens
    BY <2>1 DEF FlyingCalls
  <2>4. token' \in {token, calls[c].next} /\ record' \in {record, calls[c].next} /\ served' \in BOOLEAN
    BY <1>t, <1>7 DEF CommitRefresh, TokenTypes
  <2>5. \/ excused' = excused \/ Excuse(calls[c].token)
        \/ record # NoToken /\ Excuse(record)
    BY <1>7 DEF CommitRefresh
  <2>6. ASSUME NEW t \in Tokens, Excuse(t) PROVE excused' \in [Accounts -> Int]
    BY <1>t, <2>6 DEF TokenTypes, Excuse, Tokens
  <2>7. excused' \in [Accounts -> Int]
    BY <1>t, <2>3, <2>5, <2>6 DEF TokenTypes
  <2> QED BY <1>t, <2>1, <2>2, <2>3, <2>4, <2>7 DEF TokenTypes
<1>8. CASE ExpireAccess
  BY <1>t, <1>8 DEF ExpireAccess, wait, shell, counts, history, TokenTypes
<1>9. CASE StartSignIn
  BY <1>t, <1>9, SignInsAssumption DEF StartSignIn, credentials, wait, history, TokenTypes
<1>10. CASE Grant
  <2>1. signIns + 1 \in Accounts
    BY <1>t, SignInsAssumption DEF TokenTypes, Accounts
  <2>2. [of |-> signIns + 1, place |-> 1] \in Tokens
    BY <2>1 DEF Tokens
  <2>3. \/ flow' \in [at : {"granted"}, token : Tokens]
        \/ flow' \in [at : {"over"}, token : Tokens \cup {NoToken}]
    BY <1>10, <2>2 DEF Grant
  <2> QED BY <1>t, <1>10, <2>3 DEF Grant, credentials, wait, counts, history, TokenTypes
<1>11. CASE CommitSignIn
  <2>1. flow \in [at : {"granted"}, token : Tokens] /\ flow.token \in Tokens
    BY <1>t, <1>11 DEF CommitSignIn, TokenTypes, NoRun
  <2>2. flow' \in [at : {"over"}, token : Tokens \cup {NoToken}]
    BY <1>11, <2>1 DEF CommitSignIn
  <2>3. epoch' \in Nat /\ undone' \in Nat /\ token' \in {token, flow.token} /\ served' \in BOOLEAN
        /\ record' \in {token, record, flow.token}
    <3>1. epoch \in Nat /\ undone \in Nat /\ served \in BOOLEAN
      BY <1>t DEF TokenTypes
    <3>2. CASE TakeBack
      <4>1. record' \in {token, record, flow.token}
        BY <1>11, <3>2 DEF CommitSignIn, SignedIn, credentials
      <4> QED BY <3>1, <3>2, <4>1 DEF TakeBack
    <3>3. CASE SignedIn
      <4>1. /\ token' = flow.token /\ served' = TRUE /\ epoch' = epoch + 1 /\ record' = flow.token
            /\ undone' = undone
        BY <3>3 DEF SignedIn
      <4>2. served' \in BOOLEAN
        BY <4>1
      <4> QED BY <3>1, <4>1, <4>2
    <3>4. CASE UNCHANGED <<credentials, record, undone>>
      BY <3>1, <3>4 DEF credentials
    <3> QED BY <1>11, <3>2, <3>3, <3>4 DEF CommitSignIn
  <2>4. UNCHANGED <<refreshing, calls, refreshes, signIns, newest, excused>>
    BY <1>11 DEF CommitSignIn, wait, counts
  <2> QED BY <1>t, <2>1, <2>2, <2>3, <2>4 DEF TokenTypes
<1>12. CASE EndRun \/ CancelSignIn \/ StartSignOut
  BY <1>t, <1>12 DEF EndRun, CancelSignIn, StartSignOut, credentials, wait, counts, history, TokenTypes
<1>13. CASE SignOut
  <2>1. /\ UNCHANGED <<refreshing, calls, refreshes, signIns, newest, excused, flow>>
        /\ epoch' = epoch + 1 /\ undone' \in {undone, epoch + 1}
        /\ served' = served \/ served' = FALSE
        /\ token' \in {token, NoToken} /\ record' \in {record, NoToken}
    BY <1>13 DEF SignOut, wait, counts
  <2>2. epoch' \in Nat /\ undone' \in Nat
    <3>1. epoch \in Nat /\ undone \in Nat
      BY <1>t DEF TokenTypes
    <3> QED BY <2>1, <3>1
  <2>3. served' \in BOOLEAN
    BY <1>t, <2>1 DEF TokenTypes
  <2> QED BY <1>t, <2>1, <2>2, <2>3 DEF TokenTypes
<1>14. CASE Restart
  <2>1. calls' \in [Askers -> RestingCalls \cup FlyingCalls]
    BY <1>14, RestingFacts DEF Restart
  <2>2. excused' \in [Accounts -> Int]
    BY <1>t, <1>14 DEF Restart, TokenTypes
  <2> QED BY <1>t, <1>14, <2>1, <2>2 DEF Restart, TokenTypes, NoFlight
<1>15. CASE UNCHANGED authVars
  BY <1>t, <1>15 DEF authVars, credentials, wait, shell, counts, history, TokenTypes
<1> QED BY <1>2, <1>3, <1>4, <1>5, <1>6, <1>7, <1>8, <1>9, <1>10, <1>11, <1>12, <1>13, <1>14, <1>15
        DEF TokensNext

LEMMA OneFlightKept == TokensIInv /\ [TokensNext]_authVars => OneFlight'
<1> SUFFICES ASSUME TokensIInv, TokensNext \/ UNCHANGED authVars PROVE OneFlight'
  BY DEF authVars
<1>t. TokenTypes /\ OneFlight /\ Asked /\ Answered /\ Sendable /\ NewAccounts /\ OwnerKept /\ RecordMatches
  BY DEF TokensIInv
<1>k. \A c \in Askers : Pending(c) => Flying(c) /\ calls[c] \in FlyingCalls /\ calls[c].token \in Tokens
  BY <1>t, CallKind DEF FlyingCalls
<1>1. CASE Still
  BY <1>t, <1>1 DEF Still, OneFlight, Flying
<1>2. ASSUME NEW c \in Askers, Rests(c) PROVE OneFlight'
  <2>1. PICK r \in RestingCalls : calls' = [calls EXCEPT ![c] = r]
    BY <1>2 DEF Rests
  <2>2. calls'[c] = r /\ \A d \in Askers : d # c => calls'[d] = calls[d]
    BY <1>t, <2>1, Moved
  <2>3. ~Flying(c)' /\ \A d \in Askers : d # c => (Flying(d)' <=> Flying(d))
    BY <2>2, RestingFacts DEF Flying
  <2>4. Flying(c) \/ refreshing' = refreshing
    BY <1>2 DEF Rests
  <2> QED BY <1>t, <2>3, <2>4 DEF OneFlight
<1>3. ASSUME NEW c \in Askers, Sends(c) PROVE OneFlight'
  <2>1. PICK r \in FlyingCalls : calls' = [calls EXCEPT ![c] = r]
    BY <1>3 DEF Sends
  <2>2. calls'[c] = r /\ \A d \in Askers : d # c => calls'[d] = calls[d]
    BY <1>t, <2>1, Moved
  <2>3. \A d \in Askers : d # c => ~Flying(d)'
    BY <1>t, <1>3, <2>2 DEF Flying, Sends, OneFlight
  <2> QED BY <1>3, <2>3 DEF OneFlight, Sends
<1>4. ASSUME NEW c \in Askers, Exchange(c) \/ CommitRefresh(c) PROVE OneFlight'
  <2>1. refreshing' = refreshing /\ calls[c] \in FlyingCalls
        /\ \E r \in FlyingCalls : calls' = [calls EXCEPT ![c] = r]
    BY <1>t, <1>4, ExchangeEffect, CommitEffect
  <2>2. PICK r \in FlyingCalls : calls' = [calls EXCEPT ![c] = r]
    BY <2>1
  <2>3. calls'[c] = r /\ \A d \in Askers : d # c => calls'[d] = calls[d]
    BY <1>t, <2>2, Moved
  <2>4. \A d \in Askers : Flying(d)' => Flying(d)
    BY <2>1, <2>3, RestingFacts DEF Flying
  <2> QED BY <1>t, <2>1, <2>4 DEF OneFlight
<1>5. StartSignIn \/ Grant \/ CommitSignIn \/ SignOut => OneFlight'
  BY <1>t DEF StartSignIn, Grant, CommitSignIn, SignOut, wait, OneFlight, Flying
<1>6. Restart => OneFlight'
  BY RestingFacts DEF Restart, OneFlight, Flying
<1> QED BY TokenCases, <1>1, <1>2, <1>3, <1>4, <1>5, <1>6

\* What a restart leaves: nothing pending.
LEMMA RestartRests ==
  ASSUME Restart
  PROVE  /\ \A c \in Askers : ~Flying(c)' /\ ~Pending(c)'
         /\ token' = record /\ record' = record /\ newest' = newest /\ flow' = NoRun /\ signIns' = signIns
         /\ ~Ungranted'
  BY RestingFacts DEF Restart, Flying, Pending, Ungranted, NoRun

LEMMA AskedKept == TokensIInv /\ [TokensNext]_authVars => Asked'
<1> SUFFICES ASSUME TokensIInv, TokensNext \/ UNCHANGED authVars PROVE Asked'
  BY DEF authVars
<1>t. TokenTypes /\ OneFlight /\ Asked /\ Answered /\ Sendable /\ NewAccounts /\ OwnerKept /\ RecordMatches
  BY DEF TokensIInv
<1>k. \A c \in Askers : Pending(c) => Flying(c) /\ calls[c] \in FlyingCalls /\ calls[c].token \in Tokens
  BY <1>t, CallKind DEF FlyingCalls
<1>1. CASE Still
  BY <1>t, <1>1 DEF Still, Asked, Pending
<1>2. ASSUME NEW c \in Askers, Rests(c) PROVE Asked'
  <2>1. PICK r \in RestingCalls : calls' = [calls EXCEPT ![c] = r]
    BY <1>2 DEF Rests
  <2>2. calls'[c] = r /\ \A d \in Askers : d # c => calls'[d] = calls[d]
    BY <1>t, <2>1, Moved
  <2>3. ~Pending(c)' /\ \A d \in Askers : d # c => (Pending(d)' <=> Pending(d))
    BY <2>2, RestingFacts DEF Pending
  <2> QED BY <1>t, <1>2, <2>2, <2>3 DEF Asked, Rests
<1>3. ASSUME NEW c \in Askers, Sends(c) PROVE Asked'
  <2>1. PICK r \in FlyingCalls : r.at = "sent" /\ r.epoch = epoch /\ r.token = token /\ calls' = [calls EXCEPT ![c] = r]
    BY <1>3 DEF Sends
  <2>2. calls'[c] = r /\ \A d \in Askers : d # c => calls'[d] = calls[d]
    BY <1>t, <2>1, Moved
  <2>3. \A d \in Askers : d # c => ~Pending(d)'
    BY <1>t, <1>k, <1>3, <2>2 DEF Pending, Sends, OneFlight
  <2>4. epoch \in Nat /\ epoch' = epoch /\ token' = token
    BY <1>t, <1>3 DEF Sends, TokenTypes
  <2> QED BY <2>1, <2>2, <2>3, <2>4 DEF Asked
<1>4. ASSUME NEW c \in Askers, Exchange(c) \/ CommitRefresh(c) PROVE Asked'
  <2>1. CASE Exchange(c)
    <3>1. /\ calls[c].at = "sent" /\ calls[c] \in FlyingCalls
          /\ UNCHANGED <<token, epoch, record, undone>>
          /\ \E r \in FlyingCalls : /\ calls' = [calls EXCEPT ![c] = r]
                                    /\ r.token = calls[c].token /\ r.epoch = calls[c].epoch
      BY <1>t, <2>1, ExchangeEffect
    <3>2. PICK r \in FlyingCalls : /\ calls' = [calls EXCEPT ![c] = r]
                                   /\ r.token = calls[c].token /\ r.epoch = calls[c].epoch
      BY <3>1
    <3>3. calls'[c] = r /\ \A d \in Askers : d # c => calls'[d] = calls[d]
      BY <1>t, <3>2, Moved
    <3>4. Pending(c) /\ \A d \in Askers : d # c => (Pending(d)' <=> Pending(d))
      BY <3>1, <3>3 DEF Pending
    <3> QED BY <1>t, <3>1, <3>2, <3>3, <3>4 DEF Asked
  <2>2. CASE CommitRefresh(c)
    <3>1. calls[c].at = "answered" /\ \E r \in FlyingCalls : r.at = "committed" /\ calls' = [calls EXCEPT ![c] = r]
      BY <1>t, <2>2, CommitEffect
    <3>2. PICK r \in FlyingCalls : r.at = "committed" /\ calls' = [calls EXCEPT ![c] = r]
      BY <3>1
    <3>3. calls'[c] = r /\ \A d \in Askers : d # c => calls'[d] = calls[d]
      BY <1>t, <3>2, Moved
    <3>4. \A d \in Askers : ~Pending(d)'
      BY <1>t, <1>k, <3>1, <3>2, <3>3 DEF Pending, OneFlight, Flying
    <3> QED BY <3>4 DEF Asked
  <2> QED BY <1>4, <2>1, <2>2
<1>5. StartSignIn \/ Grant \/ CommitSignIn \/ SignOut => Asked'
  <2>1. StartSignIn \/ Grant => Asked'
    BY <1>t DEF StartSignIn, Grant, credentials, history, Asked, Pending
  <2>2. ASSUME NEW c \in Askers, Pending(c) PROVE calls[c].token.of # 0 /\ calls[c].epoch \in Nat /\ epoch \in Nat
    BY <1>t, <1>k, <2>2 DEF Tokens, Accounts, FlyingCalls, TokenTypes
  <2>3. CASE SignOut
    <3>1. calls' = calls /\ epoch' = epoch + 1
      BY <2>3 DEF SignOut
    <3>2. \/ token' = token /\ record' = record /\ undone' = epoch + 1
          \/ token'.of = 0 /\ record'.of = 0 /\ undone' = undone
      BY <2>3 DEF SignOut, NoToken, NoAccount
    <3> QED BY <1>t, <2>2, <3>1, <3>2 DEF Asked, Pending
  <2>4. CASE CommitSignIn
    <3>1. calls' = calls /\ flow.at = "granted"
      BY <2>4 DEF CommitSignIn
    <3>2. \A c \in Askers : Pending(c) => flow.token.of # calls[c].token.of
      BY <1>t, <3>1 DEF NewAccounts, Seen, Ungranted
    <3>3. \/ /\ token' = token /\ epoch' = epoch + 2 /\ undone' = epoch + 2
             /\ record' \in {record, token, flow.token}
          \/ token' = flow.token /\ record' = flow.token /\ epoch' = epoch + 1 /\ undone' = undone
          \/ UNCHANGED <<token, record, epoch, undone>>
      BY <2>4 DEF CommitSignIn, TakeBack, SignedIn, credentials
    <3>4. CASE token' = token /\ epoch' = epoch + 2 /\ undone' = epoch + 2 /\ record' \in {record, token, flow.token}
      BY <1>t, <2>2, <3>1, <3>2, <3>4 DEF Asked, Pending
    <3>5. CASE token' = flow.token /\ record' = flow.token /\ epoch' = epoch + 1 /\ undone' = undone
      BY <1>t, <2>2, <3>1, <3>2, <3>5 DEF Asked, Pending
    <3>6. CASE UNCHANGED <<token, record, epoch, undone>>
      BY <1>t, <3>1, <3>6 DEF Asked, Pending
    <3> QED BY <3>3, <3>4, <3>5, <3>6
  <2> QED BY <2>1, <2>3, <2>4
<1>6. Restart => Asked'
  BY RestartRests DEF Asked
<1> QED BY TokenCases, <1>1, <1>2, <1>3, <1>4, <1>5, <1>6

LEMMA AnsweredKept == TokensIInv /\ [TokensNext]_authVars => Answered'
<1> SUFFICES ASSUME TokensIInv, TokensNext \/ UNCHANGED authVars PROVE Answered'
  BY DEF authVars
<1>t. TokenTypes /\ OneFlight /\ Asked /\ Answered /\ Sendable /\ NewAccounts /\ OwnerKept /\ RecordMatches
  BY DEF TokensIInv
<1>k. \A c \in Askers : Pending(c) => Flying(c) /\ calls[c] \in FlyingCalls /\ calls[c].token \in Tokens
  BY <1>t, CallKind DEF FlyingCalls
<1>1. CASE Still
  BY <1>t, <1>1 DEF Still, Answered, Exchanged
<1>2. ASSUME NEW c \in Askers, Rests(c) PROVE Answered'
  <2>1. PICK r \in RestingCalls : calls' = [calls EXCEPT ![c] = r]
    BY <1>2 DEF Rests
  <2>2. calls'[c] = r /\ \A d \in Askers : d # c => calls'[d] = calls[d]
    BY <1>t, <2>1, Moved
  <2>3. newest' = newest /\ r.at # "answered"
    BY <1>2, RestingFacts DEF Rests
  <2> QED BY <1>t, <2>2, <2>3 DEF Answered, Exchanged
<1>3. ASSUME NEW c \in Askers, Sends(c) PROVE Answered'
  <2>1. PICK r \in FlyingCalls : r.at = "sent" /\ calls' = [calls EXCEPT ![c] = r]
    BY <1>3 DEF Sends
  <2>2. calls'[c] = r /\ \A d \in Askers : d # c => calls'[d] = calls[d]
    BY <1>t, <2>1, Moved
  <2>3. newest' = newest
    BY <1>3 DEF Sends
  <2> QED BY <1>t, <2>1, <2>2, <2>3 DEF Answered, Exchanged
<1>4. ASSUME NEW c \in Askers, Exchange(c) \/ CommitRefresh(c) PROVE Answered'
  <2>1. CASE Exchange(c)
    <3>1. calls[c].at = "sent" /\ calls[c].token \in Tokens /\ Good(calls[c].token)
      BY <1>t, <2>1, ExchangeEffect DEF FlyingCalls, Sendable
    <3>2. PICK r \in FlyingCalls :
              /\ calls' = [calls EXCEPT ![c] = r] /\ r.token = calls[c].token
              /\ \/ r.at = "failed"
                 \/ r.at = "answered" /\ r.next = r.token /\ ~Exchanged(r.token) /\ newest' = newest
                 \/ /\ ~Exchanged(r.token) /\ newest' = [newest EXCEPT ![r.token.of] = @ + 1]
                    /\ r.at = "answered" /\ r.next.of = r.token.of /\ r.next.place = r.token.place + 1
      BY <1>t, <2>1, ExchangeEffect
    <3>3. calls'[c] = r /\ \A d \in Askers : d # c => calls'[d] = calls[d]
      BY <1>t, <3>2, Moved
    <3>4. \A d \in Askers : d # c => ~Flying(d)
      BY <1>t, <1>k, <3>1 DEF OneFlight, Flying
    <3>5. \A d \in Askers : d # c => calls'[d].at # "answered"
      BY <3>3, <3>4 DEF Flying
    <3>6. r.token.of \in Accounts /\ r.token.place \in Nat /\ newest[r.token.of] \in Nat
      BY <1>t, <3>1, <3>2 DEF Tokens, TokenTypes
    <3>7. r.at = "answered" => ~(r.next.place < newest'[r.next.of]) /\ r.next.of = r.token.of
      BY <1>t, <3>2, <3>6 DEF TokenTypes, Exchanged
    <3> QED BY <3>3, <3>5, <3>7 DEF Answered, Exchanged
  <2>2. CASE CommitRefresh(c)
    <3>1. newest' = newest /\ \E r \in FlyingCalls : r.at = "committed" /\ calls' = [calls EXCEPT ![c] = r]
      BY <1>t, <2>2, CommitEffect
    <3>2. PICK r \in FlyingCalls : r.at = "committed" /\ calls' = [calls EXCEPT ![c] = r]
      BY <3>1
    <3>3. calls'[c] = r /\ \A d \in Askers : d # c => calls'[d] = calls[d]
      BY <1>t, <3>2, Moved
    <3> QED BY <1>t, <3>1, <3>2, <3>3 DEF Answered, Exchanged
  <2> QED BY <1>4, <2>1, <2>2
<1>5. StartSignIn \/ Grant \/ CommitSignIn \/ SignOut => Answered'
  BY <1>t DEF StartSignIn, Grant, CommitSignIn, SignOut, Answered, Exchanged
<1>6. Restart => Answered'
  BY RestartRests DEF Answered, Flying
<1> QED BY TokenCases, <1>1, <1>2, <1>3, <1>4, <1>5, <1>6

LEMMA NewAccountsKept == TokensIInv /\ [TokensNext]_authVars => NewAccounts'
<1> SUFFICES ASSUME TokensIInv, TokensNext \/ UNCHANGED authVars PROVE NewAccounts'
  BY DEF authVars
<1>t. TokenTypes /\ OneFlight /\ Asked /\ Answered /\ Sendable /\ NewAccounts /\ OwnerKept /\ RecordMatches
  BY DEF TokensIInv
<1>k. \A c \in Askers : Pending(c) => Flying(c) /\ calls[c] \in FlyingCalls /\ calls[c].token \in Tokens
  BY <1>t, CallKind DEF FlyingCalls
<1>s. signIns \in Nat
  BY <1>t DEF TokenTypes
<1>1. CASE Still
  BY <1>t, <1>1 DEF Still, NewAccounts, Seen, Ungranted, Pending, NoRun
<1>2. ASSUME NEW c \in Askers, Rests(c) PROVE NewAccounts'
  <2>1. PICK r \in RestingCalls : calls' = [calls EXCEPT ![c] = r]
    BY <1>2 DEF Rests
  <2>2. calls'[c] = r /\ \A d \in Askers : d # c => calls'[d] = calls[d]
    BY <1>t, <2>1, Moved
  <2>3. \A d \in Askers : Pending(d)' => Pending(d) /\ calls'[d] = calls[d]
    BY <2>2, RestingFacts DEF Pending
  <2> QED BY <1>t, <1>2, <2>3 DEF Rests, NewAccounts, Seen, Ungranted
<1>3. ASSUME NEW c \in Askers, Sends(c) PROVE NewAccounts'
  <2>1. PICK r \in FlyingCalls : r.token = token /\ calls' = [calls EXCEPT ![c] = r]
    BY <1>3 DEF Sends
  <2>2. calls'[c] = r /\ \A d \in Askers : d # c => calls'[d] = calls[d]
    BY <1>t, <2>1, Moved
  <2>3. \A d \in Askers : Pending(d)' => calls'[d].token = token \/ (Pending(d) /\ calls'[d] = calls[d])
    BY <2>1, <2>2 DEF Pending
  <2>4. UNCHANGED <<token, record, newest, flow, signIns>>
    BY <1>3 DEF Sends
  <2> QED BY <1>t, <2>3, <2>4 DEF NewAccounts, Seen, Ungranted
<1>4. ASSUME NEW c \in Askers, Exchange(c) \/ CommitRefresh(c) PROVE NewAccounts'
  <2>1. CASE Exchange(c)
    <3>1. /\ calls[c].at = "sent" /\ UNCHANGED <<token, record, flow, signIns>>
          /\ \E r \in FlyingCalls : /\ calls' = [calls EXCEPT ![c] = r] /\ r.token = calls[c].token
                                    /\ newest' \in {newest, [newest EXCEPT ![r.token.of] = @ + 1]}
      BY <1>t, <2>1, ExchangeEffect
    <3>2. PICK r \in FlyingCalls : /\ calls' = [calls EXCEPT ![c] = r] /\ r.token = calls[c].token
                                   /\ newest' \in {newest, [newest EXCEPT ![r.token.of] = @ + 1]}
      BY <3>1
    <3>3. calls'[c] = r /\ \A d \in Askers : d # c => calls'[d] = calls[d]
      BY <1>t, <3>2, Moved
    <3>4. \A d \in Askers : Pending(d)' => Pending(d) /\ calls'[d].token = calls[d].token
      BY <3>1, <3>2, <3>3 DEF Pending
    <3>5. Seen(r.token.of)
      BY <1>t, <3>1, <3>2 DEF NewAccounts, Pending
    <3>6. \A a \in Accounts : a # r.token.of => newest'[a] = newest[a]
      BY <1>t, <3>2 DEF TokenTypes
    <3> QED BY <1>t, <3>1, <3>4, <3>5, <3>6 DEF NewAccounts, Seen, Ungranted
  <2>2. CASE CommitRefresh(c)
    <3>1. /\ calls[c].at = "answered" /\ UNCHANGED <<newest, flow, signIns>>
          /\ \E r \in FlyingCalls : r.at = "committed" /\ calls' = [calls EXCEPT ![c] = r]
      BY <1>t, <2>2, CommitEffect
    <3>2. PICK r \in FlyingCalls : r.at = "committed" /\ calls' = [calls EXCEPT ![c] = r]
      BY <3>1
    <3>3. calls'[c] = r /\ \A d \in Askers : d # c => calls'[d] = calls[d]
      BY <1>t, <3>2, Moved
    <3>4. \A d \in Askers : Pending(d)' => Pending(d) /\ calls'[d] = calls[d]
      BY <3>2, <3>3 DEF Pending
    <3>5. Seen(calls[c].token.of) /\ calls[c].next.of = calls[c].token.of
      BY <1>t, <3>1 DEF NewAccounts, Pending, Answered
    <3>6. token' \in {token, calls[c].next} /\ record' \in {record, calls[c].next}
      BY <2>2 DEF CommitRefresh
    <3>7. Seen(token'.of) /\ Seen(record'.of)
      BY <1>t, <3>5, <3>6 DEF NewAccounts
    <3> QED BY <1>t, <3>1, <3>4, <3>7 DEF NewAccounts, Seen, Ungranted
  <2> QED BY <1>4, <2>1, <2>2
<1>5. StartSignIn \/ Grant \/ CommitSignIn \/ SignOut => NewAccounts'
  <2>1. CASE StartSignIn
    <3>1. UNCHANGED <<token, record, calls, newest>> /\ signIns' = signIns + 1 /\ flow'.at = "browser" /\ flow = NoRun
      BY <2>1 DEF StartSignIn, credentials
    <3>2. ~Ungranted /\ Ungranted' /\ flow'.at # "granted"
      BY <3>1 DEF Ungranted, NoRun
    <3>3. Seen(token.of) /\ Seen(record.of) /\ \A c \in Askers : Pending(c) => Seen(calls[c].token.of)
      BY <1>t DEF NewAccounts
    <3>4. \A c \in Askers : Pending(c) => calls[c].token.of \in Int
      BY <1>k DEF Tokens, Accounts
    <3>5. token.of \in Int /\ record.of \in Int
      BY <1>t DEF TokenTypes, Tokens, Accounts, NoToken, NoAccount
    <3>6. \A a \in Int : Seen(a) => Seen(a)'
      BY <1>s, <3>1, <3>2 DEF Seen
    <3>7. \A a \in Accounts : ~Seen(a)' => newest[a] = 1
      <4> TAKE a \in Accounts
      <4>1. a \in Int
        BY DEF Accounts
      <4> QED BY <1>t, <3>6, <4>1 DEF NewAccounts
    <3> QED BY <3>1, <3>2, <3>3, <3>4, <3>5, <3>6, <3>7 DEF NewAccounts, Pending
  <2>2. CASE Grant
    <3>1. UNCHANGED <<token, record, calls, newest, signIns>> /\ flow.at = "browser"
          /\ flow'.at \in {"granted", "over"}
          /\ (flow'.at = "granted" => flow'.token = [of |-> signIns + 1, place |-> 1])
      BY <2>2 DEF Grant, credentials, history, counts
    <3> QED BY <1>t, <3>1 DEF NewAccounts, Seen, Ungranted, Pending
  <2>3. CASE CommitSignIn
    <3>1. UNCHANGED <<calls, newest, signIns>> /\ flow.at = "granted"
          /\ token' \in {token, flow.token} /\ record' \in {token, record, flow.token}
      BY <2>3 DEF CommitSignIn, TakeBack, SignedIn, credentials, counts
    <3>2. flow'.at = "over"
      BY <1>t, <2>3, <3>1 DEF CommitSignIn, TokenTypes, NoRun
    <3>3. flow.token.of = signIns + 1
      BY <1>t, <3>1 DEF NewAccounts
    <3>4. Ungranted /\ ~Ungranted'
      BY <3>1, <3>2 DEF Ungranted
    <3>5. \A a \in Int : Seen(a) \/ a = signIns + 1 => Seen(a)'
      BY <1>s, <3>1, <3>4 DEF Seen
    <3>6. \A c \in Askers : Pending(c) => calls[c].token.of \in Int
      BY <1>k DEF Tokens, Accounts
    <3>7. token.of \in Int /\ record.of \in Int
      BY <1>t DEF TokenTypes, Tokens, Accounts, NoToken, NoAccount
    <3>8. Seen(token.of)' /\ Seen(record.of)'
      <4>1. token'.of \in Int /\ record'.of \in Int /\ (Seen(token'.of) \/ token'.of = signIns + 1)
            /\ (Seen(record'.of) \/ record'.of = signIns + 1)
        BY <1>t, <1>s, <3>1, <3>3, <3>7 DEF NewAccounts
      <4> QED BY <3>1, <3>4, <4>1 DEF Seen
    <3>9. \A a \in Accounts : ~Seen(a)' => newest[a] = 1
      <4> TAKE a \in Accounts
      <4>1. a \in Int
        BY DEF Accounts
      <4> QED BY <1>t, <3>5, <4>1 DEF NewAccounts
    <3> QED BY <1>t, <3>1, <3>2, <3>5, <3>6, <3>8, <3>9 DEF NewAccounts, Pending
  <2>4. CASE SignOut
    <3>1. UNCHANGED <<calls, newest, signIns, flow>>
          /\ token' \in {token, NoToken} /\ record' \in {record, NoToken}
      BY <2>4 DEF SignOut, counts
    <3>2. Seen(NoToken.of)
      BY <1>s DEF Seen, NoToken, NoAccount
    <3>3. Seen(token'.of) /\ Seen(record'.of)
      BY <1>t, <3>1, <3>2 DEF NewAccounts
    <3> QED BY <1>t, <3>1, <3>3 DEF NewAccounts, Seen, Ungranted, Pending
  <2> QED BY <2>1, <2>2, <2>3, <2>4
<1>6. Restart => NewAccounts'
  <2> SUFFICES ASSUME Restart PROVE NewAccounts'
    OBVIOUS
  <2>1. \A a \in Int : Seen(a) => Seen(a)'
    BY RestartRests DEF Seen
  <2>2. record.of \in Int
    BY <1>t DEF TokenTypes, Tokens, Accounts, NoToken, NoAccount
  <2>3. Seen(record.of)' /\ record' = record /\ token' = record /\ newest' = newest
    BY <1>t, <2>1, <2>2, RestartRests DEF NewAccounts
  <2>4. \A a \in Accounts : ~Seen(a)' => newest[a] = 1
    <3> TAKE a \in Accounts
    <3>1. a \in Int
      BY DEF Accounts
    <3> QED BY <1>t, <2>1, <3>1 DEF NewAccounts
  <2> QED BY <2>3, <2>4, RestartRests DEF NewAccounts, Seen, NoRun
<1> QED BY TokenCases, <1>1, <1>2, <1>3, <1>4, <1>5, <1>6

LEMMA OwnerSteps == TokensIInv /\ [TokensNext]_authVars => OwnerKept' /\ RecordMatches'
<1> SUFFICES ASSUME TokensIInv, TokensNext \/ UNCHANGED authVars PROVE OwnerKept' /\ RecordMatches'
  BY DEF authVars
<1>t. TokenTypes /\ OneFlight /\ Asked /\ Answered /\ Sendable /\ NewAccounts /\ OwnerKept /\ RecordMatches
  BY DEF TokensIInv
<1>1. CASE Still
  BY <1>t, <1>1 DEF Still, OwnerKept, RecordMatches
<1>2. ASSUME NEW c \in Askers, Rests(c) \/ Sends(c) \/ Exchange(c) PROVE OwnerKept' /\ RecordMatches'
  <2>1. UNCHANGED <<token, owner, unwanted, record, stray, unsynced>>
    BY <1>t, <1>2, ExchangeEffect DEF Rests, Sends
  <2> QED BY <1>t, <2>1 DEF OwnerKept, RecordMatches
<1>3. ASSUME NEW c \in Askers, CommitRefresh(c) PROVE OwnerKept' /\ RecordMatches'
  <2>1. calls[c].at = "answered" /\ owner' = owner /\ unwanted' = unwanted
    BY <1>t, <1>3, CommitEffect
  <2>2. CASE Supersedes(c)
    BY <1>t, <1>3, <2>1, <2>2 DEF CommitRefresh, OwnerKept, RecordMatches
  <2>3. CASE ~Supersedes(c)
    <3>1. token = calls[c].token /\ calls[c].next.of = token.of
      BY <1>t, <2>1, <2>3 DEF Asked, Answered, Pending, Supersedes
    <3>2. /\ token' = calls[c].next
          /\ \/ unsynced' = TRUE /\ UNCHANGED <<record, stray>>
             \/ record' = calls[c].next /\ stray' = NoAccount
      BY <1>3, <2>3 DEF CommitRefresh, Synced
    <3> QED BY <1>t, <2>1, <3>1, <3>2 DEF OwnerKept, RecordMatches
  <2> QED BY <2>2, <2>3
<1>4. StartSignIn \/ Grant => OwnerKept' /\ RecordMatches'
  BY <1>t DEF StartSignIn, Grant, credentials, history, choices, OwnerKept, RecordMatches
<1>5. CommitSignIn \/ SignOut => OwnerKept' /\ RecordMatches'
  <2>1. CASE SignOut
    <3>1. \/ UNCHANGED <<token, owner, unwanted, record, stray, unsynced>>
          \/ /\ token' = NoToken /\ record' = NoToken /\ owner' = NoAccount
             /\ unwanted' = NoAccount /\ stray' = NoAccount
      BY <2>1 DEF SignOut, Choose, Synced, choices
    <3> QED BY <1>t, <3>1 DEF OwnerKept, RecordMatches, NoToken
  <2>2. CASE CommitSignIn
    <3>1. flow.token.of # NoAccount
      <4>1. flow.token \in Tokens
        BY <1>t, <2>2 DEF CommitSignIn, TokenTypes, NoRun
      <4> QED BY <4>1 DEF Tokens, Accounts, NoAccount
    <3>2. CASE UNCHANGED <<token, choices>>
      <4>1. \/ UNCHANGED <<record, stray, unsynced>>
            \/ record' = token /\ stray' = NoAccount
            \/ record' = flow.token /\ stray' = flow.token.of /\ unsynced' = TRUE
        BY <2>2, <3>2 DEF CommitSignIn, SignedIn, Synced
      <4> QED BY <1>t, <3>1, <3>2, <4>1 DEF choices, OwnerKept, RecordMatches
    <3>3. CASE SignedIn /\ Choose(flow.token.of)
      BY <3>3 DEF SignedIn, Choose, Synced, OwnerKept, RecordMatches
    <3> QED BY <2>2, <3>2, <3>3 DEF CommitSignIn, TakeBack, credentials
  <2> QED BY <2>1, <2>2
<1>6. Restart => OwnerKept' /\ RecordMatches'
  BY <1>t DEF Restart, Synced, OwnerKept, RecordMatches
<1> QED BY TokenCases, <1>1, <1>2, <1>3, <1>4, <1>5, <1>6

LEMMA ExcuseGrows ==
  ASSUME TokenTypes, NEW t \in Tokens, Excuse(t)
  PROVE  excused'[t.of] >= t.place /\ \A a \in Accounts : excused'[a] >= excused[a]
<1>1. t.of \in Accounts /\ t.place \in Nat /\ \A a \in Accounts : excused[a] \in Int
  BY DEF Tokens, TokenTypes
<1>2. excused'[t.of] = IF excused[t.of] < t.place THEN t.place ELSE excused[t.of]
  BY <1>1 DEF Excuse, TokenTypes
<1>3. \A a \in Accounts : a # t.of => excused'[a] = excused[a]
  BY DEF Excuse, TokenTypes
<1> QED BY <1>1, <1>2, <1>3

\* A token stays good while nothing is exchanged.
LEMMA GoodStays ==
  ASSUME TokenTypes, newest' = newest, NEW t \in Tokens \cup {NoToken},
         \A a \in Accounts : excused'[a] \in Int /\ excused'[a] >= excused[a]
  PROVE  /\ Good(t) => (t # NoToken => ~(t.place < newest'[t.of]) \/ t.place <= excused'[t.of])
         /\ t # NoToken /\ Excused(t) => t.place <= excused'[t.of]
<1>1. t # NoToken => t.of \in Accounts /\ t.place \in Nat /\ excused[t.of] \in Int
  BY DEF Tokens, TokenTypes
<1>2. t # NoToken => excused'[t.of] >= excused[t.of] /\ excused'[t.of] \in Int
  BY <1>1
<1>3. (t # NoToken /\ Excused(t)) => t.place <= excused[t.of]
  BY DEF Excused
<1>4. (t # NoToken /\ Excused(t)) => t.place <= excused'[t.of]
  BY <1>1, <1>2, <1>3
<1> QED BY <1>4 DEF Good, Exchanged

LEMMA SendableNext ==
  ASSUME \/ (token' # NoToken => ~(token'.place < newest'[token'.of]) \/ token'.place <= excused'[token'.of])
         \/ \E c \in Askers : calls'[c].at = "answered" /\ calls'[c].token = token',
         \/ (record' # NoToken => ~(record'.place < newest'[record'.of]) \/ record'.place <= excused'[record'.of])
         \/ \E c \in Askers : calls'[c].at = "answered" /\ calls'[c].token = record',
         \A c \in Askers : calls'[c].at = "sent" =>
           (calls'[c].token # NoToken => \/ ~(calls'[c].token.place < newest'[calls'[c].token.of])
                                         \/ calls'[c].token.place <= excused'[calls'[c].token.of]),
         record' # NoToken /\ record'.of = token'.of => record' = token' \/ record'.place <= excused'[record'.of]
  PROVE  Sendable'
  BY DEF Sendable, Good, Exchanged, Excused

LEMMA SendableKept == TokensIInv /\ [TokensNext]_authVars => Sendable'
<1> SUFFICES ASSUME TokensIInv, TokensNext \/ UNCHANGED authVars PROVE Sendable'
  BY DEF authVars
<1>t. TokenTypes /\ OneFlight /\ Asked /\ Answered /\ Sendable /\ NewAccounts /\ OwnerKept /\ RecordMatches
  BY DEF TokensIInv
<1>k. \A c \in Askers : Pending(c) => Flying(c) /\ calls[c] \in FlyingCalls /\ calls[c].token \in Tokens
  BY <1>t, CallKind DEF FlyingCalls
<1>y. /\ token \in Tokens \cup {NoToken} /\ record \in Tokens \cup {NoToken} /\ NoToken \notin Tokens
      /\ \A a \in Accounts : excused'[a] \in Int /\ excused[a] \in Int /\ newest[a] \in Nat
      /\ \A t \in Tokens : t.of \in Accounts /\ t.place \in Nat
  <2>1. TokenTypes'
    BY TokenTypesKept
  <2>2. NoToken \notin Tokens
    BY DEF NoToken, NoAccount, Tokens, Accounts
  <2>3. \A t \in Tokens : t.of \in Accounts /\ t.place \in Nat
    BY DEF Tokens
  <2> QED BY <1>t, <2>1, <2>2, <2>3 DEF TokenTypes
<1>1. CASE Still
  BY <1>t, <1>1 DEF Still, Sendable, Good, Exchanged, Excused
<1>2. ASSUME NEW c \in Askers, Rests(c) PROVE Sendable'
  <2>1. PICK r \in RestingCalls : calls' = [calls EXCEPT ![c] = r]
    BY <1>2 DEF Rests
  <2>2. calls'[c] = r /\ \A d \in Askers : d # c => calls'[d] = calls[d]
    BY <1>t, <2>1, Moved
  <2>3. \A d \in Askers : Pending(d) => d # c /\ calls'[d] = calls[d]
    BY <1>2, <2>2 DEF Rests
  <2>4. \A d \in Askers : calls'[d].at = "sent" => calls'[d] = calls[d]
    BY <2>2, RestingFacts
  <2>5. UNCHANGED <<token, record, newest, excused>>
    BY <1>2 DEF Rests
  <2> QED BY <1>t, <2>3, <2>4, <2>5, SendableNext DEF Sendable, Pending, Good, Exchanged, Excused
<1>3. ASSUME NEW c \in Askers, Sends(c) PROVE Sendable'
  <2>1. PICK r \in FlyingCalls : r.at = "sent" /\ r.token = token /\ calls' = [calls EXCEPT ![c] = r]
    BY <1>3 DEF Sends
  <2>2. calls'[c] = r /\ \A d \in Askers : d # c => calls'[d] = calls[d]
    BY <1>t, <2>1, Moved
  <2>3. \A d \in Askers : ~Flying(d)
    BY <1>t, <1>3 DEF Sends, OneFlight
  <2>4. Good(token) /\ Good(record)
    BY <1>t, <2>3 DEF Sendable, Flying
  <2>5. \A d \in Askers : calls'[d].at = "sent" => calls'[d].token = token
    BY <2>1, <2>2, <2>3 DEF Flying
  <2>6. UNCHANGED <<token, record, newest, excused>>
    BY <1>3 DEF Sends
  <2> QED BY <1>t, <2>4, <2>5, <2>6, SendableNext DEF Sendable, Good, Exchanged, Excused
<1>4. ASSUME NEW c \in Askers, Exchange(c) \/ CommitRefresh(c) PROVE Sendable'
  <2> DEFINE t == calls[c].token
  <2>1. CASE Exchange(c)
    <3>1. /\ calls[c].at = "sent" /\ t \in Tokens /\ UNCHANGED <<token, record>>
      BY <1>t, <2>1, ExchangeEffect DEF FlyingCalls
    <3>2. PICK r \in FlyingCalls :
              /\ calls' = [calls EXCEPT ![c] = r] /\ r.token = t
              /\ \/ r.at \in {"failed", "answered"} /\ UNCHANGED <<newest, excused>>
                 \/ /\ newest' = [newest EXCEPT ![r.token.of] = @ + 1]
                    /\ \/ r.at = "failed" /\ Excuse(r.token)
                       \/ r.at = "answered" /\ excused' = excused
      BY <1>t, <2>1, ExchangeEffect
    <3>3. calls'[c] = r /\ \A d \in Askers : d # c => calls'[d] = calls[d]
      BY <1>t, <3>2, Moved
    <3>4. \A d \in Askers : Flying(d) => d = c
      BY <1>t, <1>k, <3>1 DEF OneFlight, Flying
    <3>5. Good(token) /\ Good(record) /\ \A d \in Askers : calls'[d].at # "sent"
      BY <1>t, <3>1, <3>2, <3>3, <3>4 DEF Sendable, Flying
    <3>6. /\ token.of = t.of => token = t
          /\ record.of = t.of => record = t \/ Excused(record)
      <4>1. token.of = t.of => token = t
        BY <1>t, <3>1 DEF Asked, Pending
      <4>2. record.of = t.of => token = t
        BY <1>t, <3>1 DEF Asked, Pending
      <4> QED BY <1>t, <1>y, <3>1, <4>1, <4>2 DEF Sendable, NoToken, NoAccount, Tokens, Accounts
    <3> HIDE DEF t
    <3>7. CASE UNCHANGED <<newest, excused>>
      BY <1>t, <3>1, <3>5, <3>7, SendableNext DEF Sendable, Good, Exchanged, Excused
    <3>8. CASE newest' = [newest EXCEPT ![t.of] = @ + 1] /\ r.at = "failed" /\ Excuse(t)
      <4>1. excused'[t.of] >= t.place /\ \A a \in Accounts : excused'[a] >= excused[a]
        BY <1>t, <3>1, <3>8, ExcuseGrows
      <4>2. \A a \in Accounts : a # t.of => newest'[a] = newest[a]
        BY <1>t, <3>8 DEF TokenTypes
      <4>3. ASSUME NEW u \in Tokens, Good(u), u.of = t.of => u = t \/ Excused(u)
            PROVE  ~(u.place < newest'[u.of]) \/ u.place <= excused'[u.of]
        BY <1>y, <3>1, <4>1, <4>2, <4>3 DEF Good, Exchanged, Excused
      <4>4. ASSUME NEW u \in Tokens, Excused(u) PROVE u.place <= excused'[u.of]
        BY <1>y, <4>1, <4>4 DEF Excused
      <4> QED BY <1>t, <1>y, <3>1, <3>5, <3>6, <4>3, <4>4, SendableNext DEF Sendable
    <3>9. CASE newest' = [newest EXCEPT ![t.of] = @ + 1] /\ r.at = "answered" /\ excused' = excused
      <4>1. calls'[c].at = "answered" /\ calls'[c].token = t
        BY <3>2, <3>3, <3>9
      <4>2. \A a \in Accounts : a # t.of => newest'[a] = newest[a]
        BY <1>t, <3>9 DEF TokenTypes
      <4>3. ASSUME NEW u \in Tokens, Good(u), u.of = t.of => u = t \/ Excused(u)
            PROVE  u = t \/ ~(u.place < newest'[u.of]) \/ u.place <= excused'[u.of]
        BY <1>y, <3>1, <3>9, <4>2, <4>3 DEF Good, Exchanged, Excused
      <4>4. ASSUME NEW u \in Tokens, Excused(u) PROVE u.place <= excused'[u.of]
        BY <3>9, <4>4 DEF Excused
      <4> QED BY <1>t, <1>y, <3>1, <3>5, <3>6, <4>1, <4>3, <4>4, SendableNext DEF Sendable
    <3> QED BY <3>2, <3>7, <3>8, <3>9
  <2>2. CASE CommitRefresh(c)
    <3>1. /\ calls[c].at = "answered" /\ newest' = newest /\ epoch' = epoch /\ t \in Tokens /\ calls[c].next \in Tokens
          /\ ~Exchanged(calls[c].next)
          /\ \E r \in FlyingCalls : r.at = "committed" /\ calls' = [calls EXCEPT ![c] = r]
      BY <1>t, <2>2, CommitEffect DEF FlyingCalls, Answered
    <3>2. PICK r \in FlyingCalls : r.at = "committed" /\ calls' = [calls EXCEPT ![c] = r]
      BY <3>1
    <3>3. calls'[c] = r /\ \A d \in Askers : d # c => calls'[d] = calls[d]
      BY <1>t, <3>2, Moved
    <3>4. \A d \in Askers : Flying(d) => d = c
      BY <1>t, <1>k, <3>1 DEF OneFlight, Flying
    <3>5. \A d \in Askers : calls'[d].at # "sent"
      BY <3>2, <3>3, <3>4 DEF Flying
    <3>6. (Good(token) \/ token = t) /\ (Good(record) \/ record = t)
      BY <1>t, <3>4 DEF Sendable, Flying
    <3>7. CASE Supersedes(c)
      <4>1. UNCHANGED <<token, record>>
        BY <2>2, <3>7 DEF CommitRefresh
      <4>2. \/ excused' = excused
            \/ Excuse(t)
        BY <2>2, <3>7 DEF CommitRefresh
      <4>3. \A a \in Accounts : excused'[a] \in Int /\ excused'[a] >= excused[a]
        BY <1>t, <1>y, <3>1, <4>2, ExcuseGrows
      <4>4. token = t \/ record = t => ~Exchanged(t) \/ Excuse(t)
        <5>1. record = t => token = t
          BY <1>t, <3>1 DEF Asked, Pending
        <5>2. token = t => epoch = calls[c].epoch \/ undone > calls[c].epoch
          BY <1>t, <3>1 DEF Asked, Pending
        <5>3. token = t => epoch # calls[c].epoch
          BY <1>y, <3>1, <3>7 DEF Supersedes
        <5>4. undone > calls[c].epoch /\ Exchanged(t) => Excuse(t)
          BY <2>2, <3>7 DEF CommitRefresh
        <5> QED BY <5>1, <5>2, <5>3, <5>4
      <4> HIDE DEF t
      <4>5. ASSUME NEW u \in {token, record}, u # NoToken
            PROVE  ~(u.place < newest'[u.of]) \/ u.place <= excused'[u.of]
        <5>1. CASE Good(u)
          BY <1>t, <1>y, <3>1, <4>3, <4>5, <5>1, GoodStays
        <5>2. CASE u = t /\ ~Exchanged(t)
          BY <3>1, <5>2 DEF Exchanged
        <5>3. CASE u = t /\ Excuse(t)
          BY <1>t, <1>y, <3>1, <5>3, ExcuseGrows
        <5> QED BY <3>6, <4>4, <5>1, <5>2, <5>3
      <4>6. record # NoToken /\ Excused(record) => record.place <= excused'[record.of]
        BY <1>t, <1>y, <3>1, <4>3, GoodStays
      <4> QED BY <1>t, <3>5, <4>1, <4>5, <4>6, SendableNext DEF Sendable
    <3>8. CASE ~Supersedes(c)
      <4>1. token' = calls[c].next
        BY <2>2, <3>8 DEF CommitRefresh
      <4>2. ~(token'.place < newest'[token'.of])
        BY <3>1, <4>1 DEF Exchanged
      <4>3. \/ record' = token'
            \/ record' = record /\ (record # NoToken => Excuse(record))
        BY <2>2, <3>8, <4>1 DEF CommitRefresh
      <4>4. record # NoToken /\ Excuse(record) => record.place <= excused'[record.of]
        BY <1>t, <1>y, ExcuseGrows
      <4> QED BY <3>5, <4>2, <4>3, <4>4, SendableNext
    <3> QED BY <3>7, <3>8
  <2> QED BY <1>4, <2>1, <2>2
<1>5. StartSignIn \/ Grant \/ CommitSignIn \/ SignOut => Sendable'
  <2>1. StartSignIn \/ Grant => Sendable'
    BY <1>t DEF StartSignIn, Grant, credentials, history, Sendable, Good, Exchanged, Excused
  <2>2. CASE SignOut
    <3>1. UNCHANGED <<calls, newest, excused>> /\ (UNCHANGED <<token, record>> \/ (token' = NoToken /\ record' = NoToken))
      BY <2>2 DEF SignOut
    <3> QED BY <1>t, <3>1, SendableNext DEF Sendable, Good, Exchanged, Excused
  <2>3. CASE CommitSignIn
    <3>1. UNCHANGED <<calls, newest, excused>> /\ flow.at = "granted"
          /\ \/ token' = token /\ record' \in {record, token, flow.token}
             \/ token' = flow.token /\ record' = flow.token
      BY <2>3 DEF CommitSignIn, TakeBack, SignedIn, credentials
    <3>2. flow.token.place = 1 /\ flow.token.of = signIns + 1 /\ newest[signIns + 1] = 1 /\ Seen(token.of)
      <4>1. flow.token = [of |-> signIns + 1, place |-> 1] /\ ~Seen(signIns + 1) /\ Seen(token.of)
        BY <1>t, <3>1 DEF NewAccounts, Seen, Ungranted
      <4>2. signIns + 1 \in Accounts
        BY <1>t, SignInsAssumption DEF TokenTypes, Accounts
      <4> QED BY <1>t, <4>1, <4>2 DEF NewAccounts
    <3>3. ~(flow.token.place < newest'[flow.token.of]) /\ token.of # flow.token.of
      BY <3>1, <3>2 DEF Seen, Ungranted
    <3> QED BY <1>t, <3>1, <3>3, SendableNext DEF Sendable, Good, Exchanged, Excused
  <2> QED BY <2>1, <2>2, <2>3
<1>6. Restart => Sendable'
  <2> SUFFICES ASSUME Restart PROVE Sendable'
    OBVIOUS
  <2>1. /\ token' = record /\ record' = record /\ newest' = newest /\ \A c \in Askers : ~Pending(c)'
    BY RestartRests
  <2>2. ASSUME record # NoToken
        PROVE  ~(record.place < newest[record.of]) \/ record.place <= excused'[record.of]
    <3>1. record.of \in Accounts /\ record.place \in Nat /\ newest[record.of] \in Nat
      BY <1>y, <2>2
    <3>2. excused'[record.of] = IF \E c \in Askers : calls[c].at = "answered" /\ calls[c].token.of = record.of
                                THEN newest[record.of] - 1 ELSE excused[record.of]
      BY <3>1 DEF Restart
    <3>3. CASE \E c \in Askers : calls[c].at = "answered" /\ calls[c].token.of = record.of
      BY <3>1, <3>2, <3>3
    <3>4. CASE ~\E c \in Askers : calls[c].at = "answered" /\ calls[c].token.of = record.of
      <4>1. Good(record)
        BY <1>t, <3>4 DEF Sendable
      <4> QED BY <2>2, <3>2, <3>4, <4>1 DEF Good, Exchanged, Excused
    <3> QED BY <3>3, <3>4
  <2>3. \A c \in Askers : calls'[c].at # "sent"
    BY <2>1 DEF Pending
  <2> QED BY <2>1, <2>2, <2>3, SendableNext
<1> QED BY TokenCases, <1>1, <1>2, <1>3, <1>4, <1>5, <1>6

LEMMA TokensStep == TokensIInv /\ [TokensNext]_authVars => TokensIInv'
  BY TokenTypesKept, OneFlightKept, AskedKept, AnsweredKept, SendableKept, NewAccountsKept, OwnerSteps
     DEF TokensIInv

LEMMA TokensImply == TokensIInv => CredentialsAgree
<1> SUFFICES ASSUME TokensIInv PROVE CredentialsAgree
  OBVIOUS
<1>1. ASSUME NEW c \in Askers, calls[c].at = "sent"
      PROVE  ~Exchanged(calls[c].token) \/ Excused(calls[c].token)
  <2>1. calls[c].token \in Tokens
    BY <1>1, CallKind DEF TokensIInv, FlyingCalls, Flying
  <2>2. calls[c].token # NoToken
    BY <2>1 DEF Tokens, Accounts, NoToken, NoAccount
  <2> QED BY <1>1, <2>2 DEF TokensIInv, Sendable, Good
<1> QED BY <1>1 DEF CredentialsAgree, TokensIInv, NeverRespent

\* The credentials of a provider, for any number of calls, sign-ins and restarts:
\* the ones in use are of the account the user chose last, unless a run was
\* cancelled after its commit or a restart found what a cancelled run had left on
\* record; the ones on record are those in use, or older ones of the account where
\* the keychain refused a refresh, or those of a cancelled run where it refused
\* the rollback; no call sends a refresh token the issuer has exchanged, but for
\* the losses that NeverRespent excuses.
THEOREM CredentialsAgreeHolds == TokensSpec => []CredentialsAgree
<1> QED BY TokensInitial, TokensStep, TokensImply, PTL DEF TokensSpec

-----------------------------------------------------------------------------
(* The vector indexes of the roots                                          *)

MapTypes ==
  /\ life \in [Managers -> {"none", "open", "draining", "closed", "stuck"}]
  /\ rootOf \in [Managers -> Roots]
  /\ live \in [Roots -> Managers \cup {Nothing}] /\ closing \in [Roots -> Managers \cup {Nothing}]

SwitchTypes ==
  /\ MapTypes
  /\ focus \in Roots \cup {Nowhere}
  /\ off \in BOOLEAN /\ down \in BOOLEAN /\ wanted \in BOOLEAN /\ missed \in BOOLEAN
  /\ launchEpoch \in Nat \ {0}
  /\ \A l \in launches : l \in [epoch : Nat \ {Nothing}, at : {"start", "load", "park", "wire"}]
  /\ \A c \in closers : c.by \in {"saver", "launch", "quit"}
  /\ saver.at \in {"idle", "disable", "closing", "reload"} /\ (saver.at = "idle" => saver = AtRest0)
  /\ saver.at = "reload" => saver.root \in Roots \cup {Nowhere}
  /\ \A s \in Searchers : searches[s].at \in {"idle", "waiting"}
  /\ \A s \in Searchers : searches[s].at = "waiting" => searches[s].root \in Roots

\* The managers at work are those of the map, each under its root; a root that
\* closes has none and waits for its own manager.
MapAgrees ==
  /\ \A m \in Managers : life[m] = "open" <=> live[rootOf[m]] = m
  /\ \A r \in Roots : live[r] # Nothing => rootOf[live[r]] = r
  /\ \A r \in Roots : closing[r] # Nothing =>
       live[r] = Nothing /\ rootOf[closing[r]] = r /\ life[closing[r]] = "draining"
  /\ Refused => \A r \in Roots : live[r] = Nothing

\* A draining manager is waited for by its root or by a Disable or ShutdownAll.
DrainsWaited ==
  \A m \in Managers : life[m] = "draining" =>
    closing[rootOf[m]] = m \/ \E c \in closers : m \in c.drains

\* A user's Disable keeps the registry parked until it ends, a quit for good.
ClosersAgree ==
  /\ \A c \in closers : /\ c.by = "quit" => down
                        /\ c.by = "saver" => saver.at = "closing"
                        /\ \A d \in closers : c.by = "saver" /\ d.by = "saver" => c = d
  /\ saver.at = "closing" => off

\* A launch of the current epoch has read the switch as it is; none is current
\* while the user's Disable is on its way.
LaunchAgrees ==
  /\ \A l \in launches :
       /\ l.epoch <= launchEpoch
       /\ \A k \in launches : k.epoch = l.epoch => k = l
       /\ l.at # "wire" => l.epoch \notin embedders
       /\ Current(l) /\ l.at \in {"load", "wire"} => wanted
       /\ Current(l) /\ l.at = "park" => ~wanted
       /\ Current(l) /\ ~down => factory = Nothing
  /\ \A e \in embedders : e \in Nat \ {Nothing} /\ e <= launchEpoch
  /\ saver.at \in {"disable", "closing"} => ~wanted /\ \A l \in launches : ~Current(l)

\* What the registry is while nothing of the current switch is in flight.
Settled ==
  /\ off => factory = Nothing
  /\ ~down /\ ~wanted /\ saver.at # "disable" => factory = Nothing /\ (off \/ \E l \in launches : Current(l))
  /\ ~down /\ wanted => ~off \/ missed \/ \E l \in launches : Current(l)

SwitchIInv == SwitchTypes /\ MapAgrees /\ DrainsWaited /\ ClosersAgree /\ LaunchAgrees /\ Settled /\ EmbeddersAccounted

\* What a step leaves of the map of managers and of the roots that close.
MapNext ==
  /\ \A m \in Managers : life'[m] = "open" <=> live'[rootOf'[m]] = m
  /\ \A r \in Roots : live'[r] # Nothing => rootOf'[live'[r]] = r
  /\ \A r \in Roots : closing'[r] # Nothing =>
       live'[r] = Nothing /\ rootOf'[closing'[r]] = r /\ life'[closing'[r]] = "draining"
  /\ \A m \in Managers : life'[m] = "draining" =>
       \/ closing'[rootOf'[m]] = m
       \/ life[m] = "draining" /\ rootOf'[m] = rootOf[m] /\ closing[rootOf[m]] # m

LEMMA NumberedManagers == Nothing \notin Managers /\ Managers \subseteq Nat
  BY BuiltAssumption DEF Managers, Nothing

LEMMA ParkKeeps ==
  ASSUME MapTypes, NEW map \in [Roots -> Managers \cup {Nothing}], NEW ms \in SUBSET Managers,
         rootOf' \in [Managers -> Roots], ms \subseteq {map[q] : q \in Roots}, Park(ms, map),
         \A q \in Roots : map[q] # Nothing => rootOf'[map[q]] = q,
         \A m \in Managers : life[m] = "open" => map[rootOf'[m]] = m,
         \A q \in Roots : closing[q] # Nothing =>
           map[q] = Nothing /\ rootOf'[closing[q]] = q /\ life[closing[q]] = "draining",
         \A m \in Managers : life[m] = "draining" => map[rootOf'[m]] # m /\ rootOf'[m] = rootOf[m]
  PROVE  MapTypes' /\ MapNext
<1> USE NumberedManagers
<1>1. /\ \A m \in Managers : life'[m] = IF m \in ms THEN "draining" ELSE
                               IF m \in {map[r] : r \in Roots} THEN "open" ELSE life[m]
      /\ \A r \in Roots : live'[r] = IF map[r] \in ms THEN Nothing ELSE map[r]
      /\ \A r \in Roots : closing'[r] = IF map[r] \in ms THEN map[r] ELSE closing[r]
  BY DEF Park
<1>2. MapTypes'
  BY DEF Park, MapTypes
<1>3. \A m \in Managers : m \in {map[r] : r \in Roots} <=> map[rootOf'[m]] = m
  OBVIOUS
<1>4. \A m \in Managers : life'[m] = "open" <=> live'[rootOf'[m]] = m
  <2> TAKE m \in Managers
  <2>1. rootOf'[m] \in Roots
    OBVIOUS
  <2>2. life'[m] = "open" <=> m \notin ms /\ map[rootOf'[m]] = m
    BY <1>1, <1>3
  <2>3. live'[rootOf'[m]] = m <=> map[rootOf'[m]] = m /\ m \notin ms
    BY <1>1, <2>1
  <2> QED BY <2>2, <2>3
<1>5. \A r \in Roots : live'[r] # Nothing => rootOf'[live'[r]] = r
  BY <1>1
<1>6. \A r \in Roots : closing'[r] # Nothing =>
        live'[r] = Nothing /\ rootOf'[closing'[r]] = r /\ life'[closing'[r]] = "draining"
  <2> SUFFICES ASSUME NEW r \in Roots, closing'[r] # Nothing
               PROVE  live'[r] = Nothing /\ rootOf'[closing'[r]] = r /\ life'[closing'[r]] = "draining"
    OBVIOUS
  <2>1. CASE map[r] \in ms
    BY ZenonT(30), <1>1, <2>1
  <2>2. CASE map[r] \notin ms
    <3>1. closing[r] # Nothing /\ closing'[r] = closing[r] /\ closing[r] \in Managers
      BY <1>1, <2>2 DEF MapTypes
    <3>2. live'[r] = Nothing /\ rootOf'[closing[r]] = r /\ life[closing[r]] = "draining"
      BY <1>1, <2>2, <3>1
    <3>3. map[rootOf'[closing[r]]] # closing[r]
      BY <3>1, <3>2
    <3>4. life'[closing[r]] = "draining"
      BY <1>1, <1>3, <3>1, <3>2, <3>3
    <3> QED BY <3>1, <3>2, <3>4
  <2> QED BY <2>1, <2>2
<1>7. \A m \in Managers : life'[m] = "draining" =>
        \/ closing'[rootOf'[m]] = m
        \/ life[m] = "draining" /\ rootOf'[m] = rootOf[m] /\ closing[rootOf[m]] # m
  <2> SUFFICES ASSUME NEW m \in Managers, life'[m] = "draining", closing'[rootOf'[m]] # m
               PROVE  life[m] = "draining" /\ rootOf'[m] = rootOf[m] /\ closing[rootOf[m]] # m
    OBVIOUS
  <2>1. rootOf'[m] \in Roots
    OBVIOUS
  <2>2. m \notin ms
    BY <1>1, <1>3, <2>1
  <2>3. life[m] = "draining" /\ rootOf'[m] = rootOf[m]
    BY <1>1, <2>2
  <2>4. ASSUME closing[rootOf[m]] = m PROVE FALSE
    <3>1. rootOf[m] \in Roots /\ m # Nothing
      BY <2>1, <2>3
    <3>2. map[rootOf[m]] = Nothing
      BY <2>4, <3>1
    <3>3. closing'[rootOf[m]] = closing[rootOf[m]]
      BY <1>1, <3>1, <3>2
    <3> QED BY <2>3, <2>4, <3>3
  <2> QED BY <2>3, <2>4
<1> QED BY <1>2, <1>4, <1>5, <1>6, <1>7 DEF MapNext

LEMMA StillKeeps ==
  ASSUME MapTypes, MapAgrees, UNCHANGED <<life, rootOf, live, closing>>
  PROVE  MapTypes' /\ MapNext
  BY DEF MapTypes, MapAgrees, MapNext

LEMMA ReleaseKeeps ==
  ASSUME MapTypes, MapAgrees, NEW ms \in SUBSET Managers, ms \subseteq {live[r] : r \in Roots}, Park(ms, live),
         rootOf' = rootOf
  PROVE  MapTypes' /\ MapNext
<1>1. /\ live \in [Roots -> Managers \cup {Nothing}] /\ rootOf' \in [Managers -> Roots]
      /\ \A q \in Roots : live[q] # Nothing => rootOf'[live[q]] = q
      /\ \A m \in Managers : life[m] = "open" => live[rootOf'[m]] = m
      /\ \A q \in Roots : closing[q] # Nothing =>
           live[q] = Nothing /\ rootOf'[closing[q]] = q /\ life[closing[q]] = "draining"
      /\ \A m \in Managers : life[m] = "draining" => live[rootOf'[m]] # m /\ rootOf'[m] = rootOf[m]
  BY DEF MapTypes, MapAgrees
<1> QED BY <1>1, ParkKeeps

LEMMA BuildKeeps ==
  ASSUME MapTypes, MapAgrees, NEW r \in Roots, live[r] = Nothing, closing[r] = Nothing, BuildManager(r)
  PROVE  MapTypes' /\ MapNext
<1> USE NumberedManagers
<1>1. PICK m \in Managers : life[m] = "none" /\ InsertManager(r, m) /\ rootOf' = [rootOf EXCEPT ![m] = r]
  BY DEF BuildManager
<1> DEFINE map == [live EXCEPT ![r] = m]
<1>2. /\ map \in [Roots -> Managers \cup {Nothing}] /\ map[r] = m
      /\ \A q \in Roots : q # r => map[q] = live[q]
      /\ rootOf' \in [Managers -> Roots] /\ rootOf'[m] = r
      /\ \A n \in Managers : n # m => rootOf'[n] = rootOf[n]
  BY <1>1 DEF MapTypes
<1>3. \E ms \in SUBSET Managers : ms \subseteq {map[q] : q \in Roots} /\ Park(ms, map)
  <2>1. \/ \E v \in {map[q] : q \in Roots} \ {Nothing} : Park({v}, map)
        \/ Park({}, map)
    BY <1>1 DEF InsertManager
  <2>2. \A v \in {map[q] : q \in Roots} \ {Nothing} : v \in Managers
    BY <1>2
  <2> HIDE DEF map
  <2> QED BY <2>1, <2>2
<1> HIDE DEF map
<1>4. PICK ms \in SUBSET Managers : ms \subseteq {map[q] : q \in Roots} /\ Park(ms, map)
  BY <1>3
<1>5. \A q \in Roots : q # r => live[q] # m
  BY <1>1 DEF MapAgrees, MapTypes
<1>6. \A q \in Roots : map[q] # Nothing => rootOf'[map[q]] = q
  <2> TAKE q \in Roots
  <2>1. q # r /\ live[q] # Nothing => live[q] \in Managers /\ rootOf[live[q]] = q /\ live[q] # m
    BY <1>5 DEF MapAgrees, MapTypes
  <2> QED BY <1>2, <2>1
<1>7. \A n \in Managers : life[n] = "open" => map[rootOf'[n]] = n
  <2> SUFFICES ASSUME NEW n \in Managers, life[n] = "open" PROVE map[rootOf'[n]] = n
    OBVIOUS
  <2>1. n # m /\ live[rootOf[n]] = n /\ rootOf[n] # r
    BY <1>1 DEF MapAgrees
  <2>2. rootOf[n] \in Roots
    BY DEF MapTypes
  <2> QED BY <1>2, <2>1, <2>2
<1>8. \A q \in Roots : closing[q] # Nothing =>
        map[q] = Nothing /\ rootOf'[closing[q]] = q /\ life[closing[q]] = "draining"
  <2> SUFFICES ASSUME NEW q \in Roots, closing[q] # Nothing
               PROVE  map[q] = Nothing /\ rootOf'[closing[q]] = q /\ life[closing[q]] = "draining"
    OBVIOUS
  <2>1. live[q] = Nothing /\ rootOf[closing[q]] = q /\ life[closing[q]] = "draining" /\ q # r
        /\ closing[q] \in Managers
    BY DEF MapAgrees, MapTypes
  <2> QED BY <1>1, <1>2, <2>1
<1>9. \A n \in Managers : life[n] = "draining" => map[rootOf'[n]] # n /\ rootOf'[n] = rootOf[n]
  <2> SUFFICES ASSUME NEW n \in Managers, life[n] = "draining"
               PROVE  map[rootOf'[n]] # n /\ rootOf'[n] = rootOf[n]
    OBVIOUS
  <2>1. n # m /\ live[rootOf[n]] # n /\ rootOf[n] \in Roots
    BY <1>1 DEF MapAgrees, MapTypes
  <2> QED BY <1>2, <2>1
<1> QED BY <1>2, <1>4, <1>6, <1>7, <1>8, <1>9, ParkKeeps

LEMMA ResolveKeeps ==
  ASSUME MapTypes, MapAgrees, NEW r \in Roots, closing[r] = Nothing, Resolve(r)
  PROVE  /\ MapTypes' /\ MapNext
         /\ Refused => live' = live
<1>1. CASE UNCHANGED <<life, rootOf, uses, live, closing>>
  BY <1>1, StillKeeps
<1>2. CASE ~Refused /\ live[r] = Nothing /\ BuildManager(r)
  BY <1>2, BuildKeeps
<1> QED BY <1>1, <1>2 DEF Resolve

LEMMA MapFromNext ==
  ASSUME MapTypes', MapNext, DrainsWaited, closers' = closers, Refused' => \A r \in Roots : live'[r] = Nothing
  PROVE  MapTypes' /\ MapAgrees' /\ DrainsWaited'
<1>1. MapAgrees'
  BY DEF MapNext, MapAgrees
<1>2. DrainsWaited'
  BY DEF MapNext, DrainsWaited
<1> QED BY <1>1, <1>2

LEMMA EmptyKeeps ==
  ASSUME MapTypes, MapAgrees, DrainsWaited, NEW by, NEW e, EmptyRegistry(by, e), UNCHANGED <<rootOf, closing>>
  PROVE  MapTypes' /\ MapAgrees' /\ DrainsWaited'
<1> USE NumberedManagers
<1>1. /\ \A m \in Managers : life'[m] = IF m \in Living THEN "draining" ELSE life[m]
      /\ \A r \in Roots : live'[r] = Nothing
      /\ \A c \in closers : c \in closers'
      /\ [by |-> by, drains |-> Living, embedder |-> e] \in closers'
  BY DEF EmptyRegistry
<1>2. MapTypes'
  BY DEF EmptyRegistry, MapTypes
<1>3. \A m \in Managers : life[m] = "open" => m \in Living
  <2> TAKE m \in Managers
  <2>1. rootOf[m] \in Roots
    BY DEF MapTypes
  <2>2. life[m] = "open" => live[rootOf[m]] = m
    BY DEF MapAgrees
  <2> QED BY <2>1, <2>2 DEF Living
<1>4. \A m \in Managers : life'[m] # "open" /\ rootOf'[m] \in Roots
  BY <1>1, <1>2, <1>3 DEF MapTypes
<1>5. \A r \in Roots : closing'[r] # Nothing => rootOf'[closing'[r]] = r /\ life'[closing'[r]] = "draining"
  <2> SUFFICES ASSUME NEW r \in Roots, closing'[r] # Nothing
               PROVE  rootOf'[closing'[r]] = r /\ life'[closing'[r]] = "draining"
    OBVIOUS
  <2>1. closing[r] \in Managers /\ closing[r] # Nothing /\ closing' = closing /\ rootOf' = rootOf
    BY DEF MapTypes
  <2>2. rootOf[closing[r]] = r /\ life[closing[r]] = "draining"
    BY <2>1 DEF MapAgrees
  <2> QED BY <1>1, <2>1, <2>2
<1>6. MapAgrees'
  BY <1>1, <1>4, <1>5 DEF MapAgrees
<1>7. DrainsWaited'
  BY <1>1 DEF DrainsWaited
<1> QED BY <1>2, <1>6, <1>7

LEMMA DownKeeps ==
  ASSUME MapTypes, MapAgrees, DrainsWaited, NEW m \in Managers, ManagerDown(m)
  PROVE  MapTypes' /\ MapAgrees' /\ DrainsWaited'
<1> USE NumberedManagers
<1>1. /\ life[m] = "draining" /\ life'[m] \in {"closed", "stuck"}
      /\ \A n \in Managers : n # m => life'[n] = life[n]
      /\ \A r \in Roots : closing'[r] = IF closing[r] = m THEN Nothing ELSE closing[r]
      /\ UNCHANGED <<rootOf, live, off, down, closers>>
  BY DEF ManagerDown, MapTypes
<1>2. MapTypes'
  BY DEF ManagerDown, MapTypes
<1>3. MapAgrees'
  <2>1. \A n \in Managers : life'[n] = "open" <=> life[n] = "open"
    BY <1>1
  <2>2. \A r \in Roots : closing'[r] # Nothing =>
          closing'[r] = closing[r] /\ closing[r] # m /\ closing[r] \in Managers /\ closing[r] # Nothing
    BY <1>1 DEF MapTypes
  <2>3. \A r \in Roots : closing'[r] # Nothing =>
          live[r] = Nothing /\ rootOf[closing[r]] = r /\ life'[closing[r]] = "draining"
    <3> SUFFICES ASSUME NEW r \in Roots, closing'[r] # Nothing
                 PROVE  live[r] = Nothing /\ rootOf[closing[r]] = r /\ life'[closing[r]] = "draining"
      OBVIOUS
    <3>1. closing[r] # m /\ closing[r] \in Managers /\ closing[r] # Nothing
      BY <2>2
    <3>2. live[r] = Nothing /\ rootOf[closing[r]] = r /\ life[closing[r]] = "draining"
      BY <3>1 DEF MapAgrees
    <3> QED BY <1>1, <3>1, <3>2
  <2>4. Refused' = Refused
    BY <1>1 DEF Refused
  <2>5. \A n \in Managers : life'[n] = "open" <=> live[rootOf[n]] = n
    BY <2>1 DEF MapAgrees
  <2> QED BY <1>1, <2>2, <2>3, <2>4, <2>5 DEF MapAgrees
<1>4. DrainsWaited'
  BY <1>1 DEF DrainsWaited, MapTypes
<1> QED BY <1>2, <1>3, <1>4

LEMMA MapKept == SwitchIInv /\ [RootsNext]_rootsVars => MapTypes' /\ MapAgrees' /\ DrainsWaited'
<1> SUFFICES ASSUME SwitchIInv, RootsNext \/ UNCHANGED rootsVars
             PROVE  MapTypes' /\ MapAgrees' /\ DrainsWaited'
  BY DEF rootsVars
<1> USE NumberedManagers
<1>t. SwitchTypes /\ MapTypes /\ MapAgrees /\ DrainsWaited
  BY DEF SwitchIInv, SwitchTypes
<1>s. ASSUME UNCHANGED <<life, rootOf, live, closing, closers>>, Refused' => Refused
      PROVE  MapTypes' /\ MapAgrees' /\ DrainsWaited'
  BY <1>t, <1>s, StillKeeps, MapFromNext DEF MapAgrees
<1>r. ASSUME NEW r \in Roots, closing[r] = Nothing, Resolve(r), UNCHANGED <<closers, off, down>>
      PROVE  MapTypes' /\ MapAgrees' /\ DrainsWaited'
  <2>1. MapTypes' /\ MapNext /\ (Refused => live' = live)
    BY <1>t, <1>r, ResolveKeeps
  <2>2. Refused' => \A q \in Roots : live'[q] = Nothing
    BY <1>t, <1>r, <2>1 DEF Refused, MapAgrees
  <2> QED BY <1>t, <1>r, <2>1, <2>2, MapFromNext
<1>d. ASSUME NEW by, Disable(by), UNCHANGED <<rootOf, closing, down>>
      PROVE  MapTypes' /\ MapAgrees' /\ DrainsWaited'
  <2>1. CASE down
    BY <1>s, <1>d, <2>1 DEF Disable, Refused
  <2>2. CASE ~down
    BY <1>t, <1>d, <2>2, EmptyKeeps DEF Disable
  <2> QED BY <2>1, <2>2
<1>1. ASSUME NEW s \in Searchers, NEW r \in Roots, Search(s, r) PROVE MapTypes' /\ MapAgrees' /\ DrainsWaited'
  <2>1. CASE UNCHANGED rootsState
    BY <1>s, <1>1, <2>1 DEF Search, rootsState, Refused
  <2>2. CASE closing[r] = Nothing /\ Resolve(r)
    BY <1>r, <1>1, <2>2 DEF Search
  <2> QED BY <1>1, <2>1, <2>2 DEF Search
<1>2. ASSUME NEW s \in Searchers, ResolveAgain(s) PROVE MapTypes' /\ MapAgrees' /\ DrainsWaited'
  <2>1. searches[s].root \in Roots
    BY <1>t, <1>2 DEF ResolveAgain, SwitchTypes
  <2>2. CASE UNCHANGED <<life, rootOf, uses, live, closing>>
    BY <1>s, <1>2, <2>2 DEF ResolveAgain, Refused
  <2>3. CASE closing[searches[s].root] = Nothing /\ Resolve(searches[s].root)
    BY <1>r, <1>2, <2>1, <2>3 DEF ResolveAgain
  <2> QED BY <1>2, <2>2, <2>3 DEF ResolveAgain
<1>3. ASSUME NEW m \in Managers, ManagerDown(m) PROVE MapTypes' /\ MapAgrees' /\ DrainsWaited'
  BY <1>t, <1>3, DownKeeps
<1>4. ASSUME NEW r \in Roots, ReleaseRoot(r) PROVE MapTypes' /\ MapAgrees' /\ DrainsWaited'
  <2>1. live[r] \in Managers /\ live[r] # Nothing /\ Park({live[r]}, live) /\ rootOf' = rootOf
    BY <1>t, <1>4 DEF ReleaseRoot, MapTypes
  <2>2. MapTypes' /\ MapNext
    <3>1. {live[r]} \in SUBSET Managers /\ {live[r]} \subseteq {live[q] : q \in Roots}
      BY <2>1
    <3> QED BY <1>t, <2>1, <3>1, ReleaseKeeps
  <2>3. ~Refused' /\ closers' = closers
    BY <1>t, <1>4, <2>1 DEF ReleaseRoot, Refused, MapAgrees
  <2> QED BY <1>t, <2>2, <2>3, MapFromNext
<1>5. CASE ShutdownAll
  BY <1>t, <1>5, EmptyKeeps DEF ShutdownAll
<1>6. ASSUME NEW c \in closers, CloserEnds(c) PROVE MapTypes' /\ MapAgrees' /\ DrainsWaited'
  <2>1. MapTypes' /\ MapAgrees'
    <3>1. UNCHANGED <<life, rootOf, live, closing, off, down>>
      BY <1>6 DEF CloserEnds, rootsState
    <3>2. MapTypes'
      BY <1>t, <3>1 DEF MapTypes
    <3> QED BY <1>t, <3>1, <3>2 DEF MapAgrees, Refused
  <2>2. \A m \in c.drains : life[m] # "draining"
    BY <1>6 DEF CloserEnds, Drained
  <2> QED BY <1>t, <1>6, <2>1, <2>2 DEF CloserEnds, DrainsWaited, rootsState
<1>7. CASE ReloadPolicy
  <2>1. MapTypes' /\ MapNext
    <3>1. Living \in SUBSET Managers /\ Living \subseteq {live[q] : q \in Roots}
      BY <1>t DEF Living, MapTypes
    <3> QED BY <1>t, <1>7, <3>1, ReleaseKeeps DEF ReloadPolicy
  <2>2. ~Refused' /\ closers' = closers
    BY <1>7 DEF ReloadPolicy, Refused
  <2> QED BY <1>t, <2>1, <2>2, MapFromNext
<1>8. CASE RebuildFocus
  <2>1. UNCHANGED <<closers, off, down>> /\ saver.root \in Roots \cup {Nowhere}
    BY <1>t, <1>8 DEF RebuildFocus, SwitchTypes
  <2>2. CASE UNCHANGED rootsState
    BY <1>s, <2>1, <2>2 DEF rootsState, Refused
  <2>3. CASE saver.root # Nowhere /\ closing[saver.root] = Nothing /\ Resolve(saver.root)
    BY <1>r, <2>1, <2>3
  <2>4. CASE UNCHANGED <<life, rootOf, uses, live, closing>>
    BY <1>s, <2>1, <2>4 DEF Refused
  <2> QED BY <1>8, <2>2, <2>3, <2>4 DEF RebuildFocus
<1>9. CASE SaverDisables
  BY <1>9, <1>d DEF SaverDisables
<1>10. ASSUME NEW l \in launches, ParkOff(l) PROVE MapTypes' /\ MapAgrees' /\ DrainsWaited'
  BY <1>10, <1>d DEF ParkOff
<1>11. CASE MoveFocus \/ SaveSwitch \/ UNCHANGED rootsVars
  BY <1>s, <1>11 DEF MoveFocus, SaveSwitch, rootsVars, rootsState, Refused
<1>12. ASSUME NEW l \in launches, ReadSwitch(l) \/ LoadEmbedder(l) \/ Wire(l)
       PROVE  MapTypes' /\ MapAgrees' /\ DrainsWaited'
  BY <1>s, <1>12 DEF ReadSwitch, LoadEmbedder, Wire, rootsState, Refused
<1> QED BY <1>1, <1>2, <1>3, <1>4, <1>5, <1>6, <1>7, <1>8, <1>9, <1>10, <1>11, <1>12 DEF RootsNext

\* What Disable does: nothing once the registry is shut down.
LEMMA DisableDoes ==
  ASSUME NEW by, Disable(by)
  PROVE  \/ down /\ UNCHANGED <<closers, factory, off>>
         \/ /\ ~down /\ off' = TRUE /\ factory' = Nothing
            /\ \E d : d.by = by /\ d.embedder = factory /\ d.drains = Living /\ closers' = closers \cup {d}
<1>1. CASE down
  BY <1>1 DEF Disable
<1>2. CASE ~down
  <2> DEFINE d == [by |-> by, drains |-> Living, embedder |-> factory]
  <2>1. off' = TRUE /\ factory' = Nothing /\ closers' = closers \cup {d}
    BY <1>2 DEF Disable, EmptyRegistry
  <2>2. d.by = by /\ d.embedder = factory /\ d.drains = Living
    OBVIOUS
  <2> HIDE DEF d
  <2> QED BY <1>2, <2>1, <2>2
<1> QED BY <1>1, <1>2

LEMMA DisableAdds ==
  ASSUME NEW by, Disable(by)
  PROVE  \E d : d.by = by /\ \A c \in closers' : c \in closers \/ c = d
<1>1. CASE closers' = closers
  <2>1. [by |-> by].by = by
    OBVIOUS
  <2> QED BY <1>1, <2>1
<1>2. CASE \E d : d.by = by /\ closers' = closers \cup {d}
  BY <1>2
<1> QED BY <1>1, <1>2, DisableDoes

LEMMA SwitchTypesKept == SwitchIInv /\ [RootsNext]_rootsVars => SwitchTypes'
<1> SUFFICES ASSUME SwitchIInv, RootsNext \/ UNCHANGED rootsVars PROVE SwitchTypes'
  BY DEF rootsVars
<1>t. SwitchTypes /\ MapTypes' /\ AtRest0.at = "idle"
  BY MapKept DEF SwitchIInv, AtRest0
<1>c. ASSUME NEW by \in {"saver", "launch", "quit"}, Disable(by)
      PROVE  off' \in BOOLEAN /\ \A c \in closers' : c.by \in {"saver", "launch", "quit"}
  <2>1. off' = TRUE \/ off' = off
    BY <1>c DEF Disable
  <2>2. off \in BOOLEAN /\ \A c \in closers : c.by \in {"saver", "launch", "quit"}
    BY <1>t DEF SwitchTypes
  <2>3. PICK d : d.by = by /\ \A c \in closers' : c \in closers \/ c = d
    BY <1>c, DisableAdds
  <2> QED BY <2>1, <2>2, <2>3
<1>1. ASSUME NEW s \in Searchers, NEW r \in Roots, Search(s, r) PROVE SwitchTypes'
  <2>1. CASE searches' = searches
    BY <1>t, <1>1, <2>1 DEF Search, switch, rootsState, SwitchTypes
  <2>2. CASE searches' = [searches EXCEPT ![s] = [at |-> "waiting", root |-> r, for |-> closing[r]]]
    <3>1. \A q \in Searchers : searches'[q] = searches[q] \/ (searches'[q].at = "waiting" /\ searches'[q].root = r)
      BY <2>2
    <3>2. focus' = focus
      BY <1>1 DEF Search, rootsState
    <3> QED BY <1>t, <1>1, <3>1, <3>2 DEF Search, switch, SwitchTypes
  <2> QED BY <1>1, <2>1, <2>2 DEF Search
<1>2. ASSUME NEW s \in Searchers, ResolveAgain(s) PROVE SwitchTypes'
  <2>1. \A q \in Searchers : searches'[q] = searches[q] \/ searches'[q] = AtRest0
    BY <1>2 DEF ResolveAgain
  <2> QED BY <1>t, <1>2, <2>1 DEF ResolveAgain, switch, SwitchTypes
<1>3. ASSUME NEW m \in Managers, ManagerDown(m) PROVE SwitchTypes'
  BY <1>t, <1>3 DEF ManagerDown, switch, SwitchTypes
<1>4. ASSUME NEW r \in Roots, ReleaseRoot(r) PROVE SwitchTypes'
  BY <1>t, <1>4 DEF ReleaseRoot, switch, SwitchTypes
<1>5. CASE ShutdownAll
  BY <1>t, <1>5 DEF ShutdownAll, EmptyRegistry, switch, SwitchTypes
<1>6. ASSUME NEW c \in closers, CloserEnds(c) PROVE SwitchTypes'
  BY <1>t, <1>6 DEF CloserEnds, rootsState, SwitchTypes
<1>7. CASE MoveFocus
  BY <1>t, <1>7 DEF MoveFocus, switch, SwitchTypes
<1>8. CASE SaveSwitch
  <2>1. /\ launchEpoch' = launchEpoch + 1 /\ launchEpoch \in Nat /\ wanted' = ~wanted /\ missed' = FALSE
        /\ UNCHANGED <<focus, off, down, closers, searches>>
        /\ saver' = [at |-> "disable"] \/ saver' = saver
        /\ launches' \subseteq launches \cup {[epoch |-> launchEpoch + 1, at |-> "start"]}
    BY <1>t, <1>8 DEF SaveSwitch, Launch, rootsState, SwitchTypes
  <2>2. [epoch |-> launchEpoch + 1, at |-> "start"] \in [epoch : Nat \ {Nothing}, at : {"start", "load", "park", "wire"}]
    BY <2>1 DEF Nothing
  <2>3. wanted' \in BOOLEAN /\ missed' \in BOOLEAN /\ off \in BOOLEAN /\ down \in BOOLEAN
    BY <1>t, <2>1 DEF SwitchTypes
  <2>4. launchEpoch' \in Nat \ {0}
    BY <2>1
  <2>5. \A l \in launches' : l \in [epoch : Nat \ {Nothing}, at : {"start", "load", "park", "wire"}]
    BY <1>t, <2>1, <2>2 DEF SwitchTypes
  <2>6. /\ saver'.at \in {"idle", "disable", "closing", "reload"} /\ (saver'.at = "idle" => saver' = AtRest0)
        /\ (saver'.at = "reload" => saver'.root \in Roots \cup {Nowhere})
    BY <1>t, <2>1 DEF SwitchTypes
  <2> QED BY <1>t, <2>1, <2>3, <2>4, <2>5, <2>6 DEF SwitchTypes
<1>9. CASE SaverDisables
  <2>1. saver' = AtRest0 \/ saver' = [at |-> "closing"]
    BY <1>9 DEF SaverDisables
  <2> QED BY <1>t, <1>c, <1>9, <2>1 DEF SaverDisables, SwitchTypes
<1>10. CASE ReloadPolicy
  <2>1. saver' = [at |-> "reload", drains |-> Living, root |-> focus]
    BY <1>10 DEF ReloadPolicy
  <2>2. saver'.at = "reload" /\ saver'.root = focus
    BY <2>1
  <2> QED BY <1>t, <1>10, <2>2 DEF ReloadPolicy, SwitchTypes
<1>11. CASE RebuildFocus
  <2>1. focus' \in Roots \cup {Nowhere} /\ saver' = AtRest0
    BY <1>t, <1>11 DEF RebuildFocus, rootsState, SwitchTypes
  <2> QED BY <1>t, <1>11, <2>1 DEF RebuildFocus, SwitchTypes
<1>12. ASSUME NEW l \in launches, ParkOff(l) PROVE SwitchTypes'
  <2>1. missed' \in BOOLEAN
    BY <1>t, <1>12 DEF ParkOff, SwitchTypes
  <2> QED BY <1>t, <1>c, <1>12, <2>1 DEF ParkOff, SwitchTypes
<1>13. ASSUME NEW l \in launches, ReadSwitch(l) \/ LoadEmbedder(l) \/ Wire(l) PROVE SwitchTypes'
  <2>1. l \in [epoch : Nat \ {Nothing}, at : {"start", "load", "park", "wire"}]
    BY <1>t DEF SwitchTypes
  <2>2. \A k \in launches' : k \in [epoch : Nat \ {Nothing}, at : {"start", "load", "park", "wire"}]
    BY <1>t, <1>13, <2>1 DEF SwitchTypes, ReadSwitch, LoadEmbedder, Wire
  <2>3. off' \in BOOLEAN /\ missed' \in BOOLEAN
    BY <1>t, <1>13 DEF SwitchTypes, ReadSwitch, LoadEmbedder, Wire
  <2>4. UNCHANGED <<focus, down, closers, wanted, saver, launchEpoch, searches>>
    BY <1>13 DEF ReadSwitch, LoadEmbedder, Wire, rootsState
  <2> QED BY <1>t, <2>2, <2>3, <2>4 DEF SwitchTypes
<1>14. CASE UNCHANGED rootsVars
  BY <1>t, <1>14 DEF rootsVars, rootsState, switch, SwitchTypes
<1> QED BY <1>1, <1>2, <1>3, <1>4, <1>5, <1>6, <1>7, <1>8, <1>9, <1>10, <1>11, <1>12, <1>13,
       <1>14 DEF RootsNext

\* A step that touches neither the switch nor what is open.
Aside ==
  UNCHANGED <<factory, off, down, closers, wanted, launchEpoch, launches, embedders, missed>>

LEMMA SwitchCases ==
  ASSUME RootsNext \/ UNCHANGED rootsVars
  PROVE  \/ Aside /\ \/ saver' = saver
                     \/ saver' = AtRest0 /\ saver.at = "reload"
                     \/ saver'.at = "reload" /\ saver = AtRest0
         \/ ShutdownAll \/ SaveSwitch \/ SaverDisables
         \/ \E c \in closers : CloserEnds(c)
         \/ \E l \in launches : ReadSwitch(l) \/ ParkOff(l) \/ LoadEmbedder(l) \/ Wire(l)
<1>1. ASSUME NEW s \in Searchers, NEW r \in Roots, Search(s, r) PROVE Aside /\ saver' = saver
  BY <1>1 DEF Search, Aside, switch
<1>2. ASSUME NEW s \in Searchers, ResolveAgain(s) PROVE Aside /\ saver' = saver
  BY <1>2 DEF ResolveAgain, Aside, switch
<1>3. ASSUME NEW m \in Managers, ManagerDown(m) PROVE Aside /\ saver' = saver
  BY <1>3 DEF ManagerDown, Aside, switch
<1>4. ASSUME NEW r \in Roots, ReleaseRoot(r) PROVE Aside /\ saver' = saver
  BY <1>4 DEF ReleaseRoot, Aside, switch
<1>5. MoveFocus \/ UNCHANGED rootsVars => Aside /\ saver' = saver
  BY DEF MoveFocus, Aside, switch, rootsVars
<1>6. ReloadPolicy => Aside /\ saver'.at = "reload" /\ saver = AtRest0
  BY DEF ReloadPolicy, Aside
<1>7. RebuildFocus => Aside /\ saver' = AtRest0 /\ saver.at = "reload"
  BY DEF RebuildFocus, Aside
<1> QED BY <1>1, <1>2, <1>3, <1>4, <1>5, <1>6, <1>7 DEF RootsNext

LEMMA ClosersKept == SwitchIInv /\ [RootsNext]_rootsVars => ClosersAgree'
<1> SUFFICES ASSUME SwitchIInv, RootsNext \/ UNCHANGED rootsVars PROVE ClosersAgree'
  BY DEF rootsVars
<1>t. SwitchTypes /\ ClosersAgree /\ LaunchAgrees /\ AtRest0.at = "idle"
  BY DEF SwitchIInv, AtRest0
<1>s. ASSUME closers' \subseteq closers, off' = off, down' = down, saver'.at = saver.at PROVE ClosersAgree'
  BY <1>t, <1>s DEF ClosersAgree
<1>1. ASSUME Aside, \/ saver' = saver
                    \/ saver' = AtRest0 /\ saver.at = "reload"
                    \/ saver'.at = "reload" /\ saver = AtRest0
      PROVE  ClosersAgree'
  <2>1. saver'.at = "closing" <=> saver.at = "closing"
    BY <1>t, <1>1
  <2> QED BY <1>t, <1>1, <2>1 DEF Aside, ClosersAgree
<1>2. CASE ShutdownAll
  <2> DEFINE d == [by |-> "quit", drains |-> Living, embedder |-> factory]
  <2>1. d.by = "quit" /\ closers' = closers \cup {d} /\ down' = TRUE /\ saver' = saver /\ off' = off
    BY <1>2 DEF ShutdownAll, EmptyRegistry, switch
  <2> HIDE DEF d
  <2> QED BY <1>t, <2>1 DEF ClosersAgree
<1>3. CASE SaveSwitch
  <2>1. saver.at = "idle" /\ (saver' = saver \/ saver' = [at |-> "disable"]) /\ UNCHANGED <<closers, off, down>>
    BY <1>t, <1>3 DEF SaveSwitch
  <2>2. saver'.at # "closing"
    BY <2>1
  <2> QED BY <1>t, <2>1, <2>2 DEF ClosersAgree
<1>4. CASE SaverDisables
  <2>1. saver.at = "disable" /\ Disable("saver") /\ down' = down
    BY <1>4 DEF SaverDisables
  <2>2. \A c \in closers : c.by # "saver"
    BY <1>t, <2>1 DEF ClosersAgree
  <2>3. CASE down
    <3>1. UNCHANGED <<closers, off, down>> /\ saver' = AtRest0
      BY <1>4, <2>1, <2>3 DEF SaverDisables, Disable
    <3> QED BY <1>t, <2>2, <3>1 DEF ClosersAgree
  <2>4. CASE ~down
    <3>1. saver' = [at |-> "closing"]
      BY <1>4, <2>4 DEF SaverDisables
    <3>2. saver'.at = "closing"
      BY <3>1
    <3>3. PICK d : off' = TRUE /\ d.by = "saver" /\ closers' = closers \cup {d}
      BY <2>1, <2>4, DisableDoes
    <3> QED BY <1>t, <2>1, <2>2, <3>2, <3>3 DEF ClosersAgree
  <2> QED BY <2>3, <2>4
<1>5. ASSUME NEW c \in closers, CloserEnds(c) PROVE ClosersAgree'
  <2>1. closers' = closers \ {c} /\ UNCHANGED <<off, down>> /\ (c.by = "saver" => saver' = AtRest0)
        /\ (c.by # "saver" => saver' = saver)
    BY <1>5 DEF CloserEnds
  <2>2. CASE c.by # "saver"
    BY <1>s, <2>1, <2>2
  <2>3. CASE c.by = "saver"
    <3>1. \A d \in closers' : d.by # "saver"
      BY <1>t, <2>1, <2>3 DEF ClosersAgree
    <3> QED BY <1>t, <2>1, <2>3, <3>1 DEF ClosersAgree
  <2> QED BY <2>2, <2>3
<1>6. ASSUME NEW l \in launches, ParkOff(l) PROVE ClosersAgree'
  <2>1. Disable("launch") /\ down' = down /\ saver' = saver
    BY <1>6 DEF ParkOff
  <2>2. CASE UNCHANGED <<closers, off>>
    BY <1>s, <2>1, <2>2
  <2>3. ASSUME NEW d, d.by = "launch", closers' = closers \cup {d}, off' = TRUE PROVE ClosersAgree'
    BY <1>t, <2>1, <2>3 DEF ClosersAgree
  <2> QED BY <2>1, <2>2, <2>3, DisableDoes
<1>7. ASSUME NEW l \in launches, ReadSwitch(l) \/ LoadEmbedder(l) PROVE ClosersAgree'
  BY <1>s, <1>7 DEF ReadSwitch, LoadEmbedder
<1>8. ASSUME NEW l \in launches, Wire(l) PROVE ClosersAgree'
  <2>1. UNCHANGED <<closers, down, saver>>
    BY <1>8 DEF Wire
  <2>2. CASE Current(l)
    <3>1. saver.at # "closing"
      BY <1>t, <2>2 DEF LaunchAgrees
    <3> QED BY <1>t, <2>1, <3>1 DEF ClosersAgree
  <2>3. CASE ~Current(l)
    BY <1>s, <1>8, <2>1, <2>3 DEF Wire
  <2> QED BY <2>2, <2>3
<1> QED BY <1>1, <1>2, <1>3, <1>4, <1>5, <1>6, <1>7, <1>8, SwitchCases

\* What a step may do to the launches, the embedders and the wiring, when no
\* launch is added and the epoch stays.
LEMMA FewerLaunches ==
  ASSUME LaunchAgrees, launches' \subseteq launches, embedders' \subseteq embedders,
         launchEpoch' = launchEpoch, wanted' = wanted,
         \A l \in launches' : Current(l) /\ ~down' => factory' = Nothing,
         saver'.at \in {"disable", "closing"} => saver.at \in {"disable", "closing"}
  PROVE  LaunchAgrees'
  BY DEF LaunchAgrees, Current

\* A launch that moves on keeps its epoch.
LEMMA LaunchMoves ==
  ASSUME SwitchTypes, LaunchAgrees, NEW l \in launches, NEW at,
         launches' = (launches \ {l}) \cup {[l EXCEPT !.at = at]},
         UNCHANGED <<launchEpoch, wanted, down, factory, saver>>,
         (at # "wire" /\ embedders' = embedders /\ l.at # "wire")
           \/ (at = "wire" /\ embedders' = embedders \cup {l.epoch}),
         Current(l) /\ at \in {"load", "wire"} => wanted,
         Current(l) /\ at = "park" => ~wanted
  PROVE  LaunchAgrees'
<1> DEFINE n == [l EXCEPT !.at = at]
<1>1. n.epoch = l.epoch /\ n.at = at /\ launches' = (launches \ {l}) \cup {n}
  BY DEF SwitchTypes
<1> HIDE DEF n
<1>2. \A k \in launches' : k = n \/ (k \in launches /\ k.epoch # l.epoch)
  BY <1>1 DEF LaunchAgrees
<1>3. \A k \in launches' : k.at # "wire" => k.epoch \notin embedders'
  BY <1>1, <1>2 DEF LaunchAgrees
<1>4. \A k \in launches' : \A j \in launches' : j.epoch = k.epoch => j = k
  BY <1>1, <1>2 DEF LaunchAgrees
<1>5. \A k \in launches' : /\ k.epoch <= launchEpoch'
                           /\ k.epoch = launchEpoch' /\ k.at \in {"load", "wire"} => wanted'
                           /\ k.epoch = launchEpoch' /\ k.at = "park" => ~wanted'
                           /\ k.epoch = launchEpoch' /\ ~down' => factory' = Nothing
  BY <1>1, <1>2 DEF LaunchAgrees, Current
<1>6. \A e \in embedders' : e \in Nat \ {Nothing} /\ e <= launchEpoch'
  BY DEF LaunchAgrees, SwitchTypes, Nothing
<1>7. saver'.at \in {"disable", "closing"} => ~wanted' /\ \A k \in launches' : k.epoch # launchEpoch'
  BY <1>1, <1>2 DEF LaunchAgrees, Current
<1> QED BY <1>3, <1>4, <1>5, <1>6, <1>7 DEF LaunchAgrees, Current

LEMMA LaunchKept == SwitchIInv /\ [RootsNext]_rootsVars => LaunchAgrees'
<1> SUFFICES ASSUME SwitchIInv, RootsNext \/ UNCHANGED rootsVars PROVE LaunchAgrees'
  BY DEF rootsVars
<1>t. SwitchTypes /\ ClosersAgree /\ LaunchAgrees /\ Settled /\ AtRest0.at = "idle"
  BY DEF SwitchIInv, AtRest0
<1>f. \A l \in launches : Current(l) /\ ~down => factory = Nothing
  BY <1>t DEF LaunchAgrees
<1>1. ASSUME Aside, \/ saver' = saver
                    \/ saver' = AtRest0 /\ saver.at = "reload"
                    \/ saver'.at = "reload" /\ saver = AtRest0
      PROVE  LaunchAgrees'
  BY <1>t, <1>f, <1>1, FewerLaunches DEF Aside
<1>2. CASE ShutdownAll
  BY <1>t, <1>2, FewerLaunches DEF ShutdownAll, switch
<1>3. CASE SaveSwitch
  <2>1. /\ saver = AtRest0 /\ launchEpoch' = launchEpoch + 1 /\ launchEpoch \in Nat /\ wanted' = ~wanted
        /\ UNCHANGED <<factory, down, embedders>>
    BY <1>t, <1>3 DEF SaveSwitch, SwitchTypes
  <2>2. /\ \A l \in launches : l.epoch \in Nat /\ l.epoch <= launchEpoch /\ l.epoch # launchEpoch + 1
        /\ \A e \in embedders : e \in Nat \ {Nothing} /\ e <= launchEpoch
    BY <1>t, <2>1 DEF SwitchTypes, LaunchAgrees
  <2>3. \A e \in embedders' : e \in Nat \ {Nothing} /\ e <= launchEpoch'
    <3> TAKE e \in embedders'
    <3>1. e \in Nat \ {Nothing} /\ e <= launchEpoch
      BY <2>1, <2>2
    <3> QED BY <2>1, <3>1
  <2>4. CASE wanted
    <3>1. launches' = launches /\ saver' = [at |-> "disable"] /\ ~wanted'
      BY <1>3, <2>1, <2>4 DEF SaveSwitch
    <3>2. \A l \in launches' : l.epoch <= launchEpoch' /\ l.epoch # launchEpoch'
      BY <2>1, <2>2, <3>1
    <3> QED BY <1>t, <2>1, <2>3, <3>1, <3>2 DEF LaunchAgrees, Current
  <2>5. CASE ~wanted
    <3> DEFINE n == [epoch |-> launchEpoch + 1, at |-> "start"]
    <3>1. n.epoch = launchEpoch + 1 /\ n.at = "start" /\ launches' = launches \cup {n} /\ saver' = saver /\ wanted'
      BY <1>3, <2>1, <2>5 DEF SaveSwitch, Launch
    <3> HIDE DEF n
    <3>2. ~down => factory = Nothing
      BY <1>t, <2>1, <2>5 DEF Settled
    <3>3. \A l \in launches' : l.epoch <= launchEpoch' /\ (l = n \/ (l \in launches /\ l.epoch # launchEpoch'))
      BY <2>1, <2>2, <3>1
    <3>4. n.epoch \notin embedders
      <4> SUFFICES ASSUME n.epoch \in embedders PROVE FALSE
        OBVIOUS
      <4> QED BY <2>1, <2>2, <3>1
    <3>5. \A l \in launches' : \A k \in launches' : k.epoch = l.epoch => k = l
      BY <1>t, <2>1, <3>1, <3>3 DEF LaunchAgrees
    <3>6. \A l \in launches' : l.at # "wire" => l.epoch \notin embedders'
      BY <1>t, <2>1, <3>3, <3>4 DEF LaunchAgrees
    <3>7. \A l \in launches' : l.epoch = launchEpoch' => l.at = "start" /\ (~down' => factory' = Nothing)
      BY <2>1, <3>1, <3>2, <3>3
    <3>8. saver'.at = "idle"
      BY <1>t, <2>1, <3>1
    <3> QED BY <2>3, <3>3, <3>5, <3>6, <3>7, <3>8 DEF LaunchAgrees, Current
  <2> QED BY <2>4, <2>5
<1>4. CASE SaverDisables
  <2>1. saver.at = "disable" /\ \A l \in launches : ~Current(l)
    BY <1>t, <1>4 DEF SaverDisables, LaunchAgrees
  <2> QED BY <1>t, <1>4, <2>1, FewerLaunches DEF SaverDisables
<1>5. ASSUME NEW c \in closers, CloserEnds(c) PROVE LaunchAgrees'
  BY <1>t, <1>f, <1>5, FewerLaunches DEF CloserEnds
<1>6. ASSUME NEW l \in launches, ParkOff(l) PROVE LaunchAgrees'
  <2>1. down' = down /\ (~down => factory' = Nothing)
    BY <1>6 DEF ParkOff, Disable
  <2> QED BY <1>t, <1>6, <2>1, FewerLaunches DEF ParkOff
<1>7. ASSUME NEW l \in launches, ReadSwitch(l) PROVE LaunchAgrees'
  <2> DEFINE at == IF wanted THEN "load" ELSE "park"
  <2>1. launches' = (launches \ {l}) \cup {[l EXCEPT !.at = at]} /\ embedders' = embedders /\ l.at = "start"
    BY <1>7 DEF ReadSwitch
  <2>2. at # "wire" /\ (at = "load" => wanted) /\ (at = "park" => ~wanted)
    OBVIOUS
  <2>3. UNCHANGED <<launchEpoch, wanted, down, factory, saver>>
    BY <1>7 DEF ReadSwitch
  <2> HIDE DEF at
  <2> QED BY <1>t, <2>1, <2>2, <2>3, LaunchMoves
<1>8. ASSUME NEW l \in launches, LoadEmbedder(l) PROVE LaunchAgrees'
  <2>1. UNCHANGED <<launchEpoch, wanted, down, factory, saver>> /\ l.at = "load"
    BY <1>8 DEF LoadEmbedder
  <2>2. CASE launches' = launches \ {l} /\ embedders' = embedders
    BY <1>t, <1>f, <2>1, <2>2, FewerLaunches
  <2>3. CASE launches' = (launches \ {l}) \cup {[l EXCEPT !.at = "wire"]} /\ embedders' = embedders \cup {l.epoch}
    <3>1. Current(l) => wanted
      BY <1>t, <2>1 DEF LaunchAgrees
    <3> QED BY <1>t, <2>1, <2>3, <3>1, LaunchMoves
  <2> QED BY <1>8, <2>2, <2>3 DEF LoadEmbedder
<1>9. ASSUME NEW l \in launches, Wire(l) PROVE LaunchAgrees'
  <2>1. /\ UNCHANGED <<launchEpoch, wanted, down, saver>> /\ launches' = launches \ {l}
        /\ embedders' \subseteq embedders /\ (factory' = factory \/ Current(l))
    BY <1>9 DEF Wire
  <2>2. \A k \in launches' : Current(k) /\ ~down' => factory' = Nothing
    BY <1>t, <1>f, <2>1 DEF LaunchAgrees, Current
  <2> QED BY <1>t, <2>1, <2>2, FewerLaunches
<1> QED BY <1>1, <1>2, <1>3, <1>4, <1>5, <1>6, <1>7, <1>8, <1>9, SwitchCases

LEMMA SettledKept == SwitchIInv /\ [RootsNext]_rootsVars => Settled'
<1> SUFFICES ASSUME SwitchIInv, RootsNext \/ UNCHANGED rootsVars PROVE Settled'
  BY DEF rootsVars
<1>t. SwitchTypes /\ LaunchAgrees /\ Settled /\ AtRest0.at = "idle"
  BY DEF SwitchIInv, AtRest0
<1>s. ASSUME UNCHANGED <<factory, off, wanted, launchEpoch, launches, missed>>, down' = down \/ down',
             saver.at = "disable" => saver'.at = "disable"
      PROVE  Settled'
  BY <1>t, <1>s DEF Settled, Current
<1>p. ASSUME NEW by, Disable(by), UNCHANGED <<down, wanted, launchEpoch>>,
             down \/ ~wanted \/ missed',
             down => UNCHANGED <<factory, off>>
      PROVE  Settled'
  <2>1. CASE down
    BY <1>t, <1>p, <2>1 DEF Settled
  <2>2. CASE ~down
    <3>1. off' = TRUE /\ factory' = Nothing
      BY <1>p, <2>2 DEF Disable
    <3> QED BY <1>p, <2>2, <3>1 DEF Settled
  <2> QED BY <2>1, <2>2
<1>1. ASSUME Aside, \/ saver' = saver
                    \/ saver' = AtRest0 /\ saver.at = "reload"
                    \/ saver'.at = "reload" /\ saver = AtRest0
      PROVE  Settled'
  <2>1. saver.at = "disable" => saver'.at = "disable"
    BY <1>t, <1>1
  <2> QED BY <1>1, <1>s, <2>1 DEF Aside
<1>2. CASE ShutdownAll
  BY <1>2, <1>s DEF ShutdownAll, switch
<1>3. CASE SaveSwitch
  <2>1. wanted' = ~wanted /\ launchEpoch' = launchEpoch + 1 /\ UNCHANGED <<factory, off, down>>
    BY <1>3 DEF SaveSwitch
  <2>2. CASE wanted
    <3>1. saver' = [at |-> "disable"] /\ ~wanted'
      BY <1>3, <2>1, <2>2 DEF SaveSwitch
    <3>2. saver'.at = "disable"
      BY <3>1
    <3> QED BY <1>t, <2>1, <3>1, <3>2 DEF Settled
  <2>3. CASE ~wanted
    <3> DEFINE n == [epoch |-> launchEpoch + 1, at |-> "start"]
    <3>1. n \in launches' /\ n.epoch = launchEpoch'
      BY <1>3, <2>1, <2>3 DEF SaveSwitch, Launch
    <3> HIDE DEF n
    <3> QED BY <1>t, <2>1, <2>3, <3>1 DEF Settled, Current
  <2> QED BY <2>2, <2>3
<1>4. CASE SaverDisables
  <2>1. ~wanted /\ Disable("saver") /\ UNCHANGED <<down, wanted, launchEpoch>>
    BY <1>t, <1>4 DEF SaverDisables, LaunchAgrees
  <2> QED BY <1>p, <2>1 DEF Disable
<1>5. ASSUME NEW c \in closers, CloserEnds(c) PROVE Settled'
  <2>1. c.by = "saver" => saver.at = "closing"
    BY DEF SwitchIInv, ClosersAgree
  <2> QED BY <1>5, <1>s, <2>1 DEF CloserEnds
<1>6. ASSUME NEW l \in launches, ParkOff(l) PROVE Settled'
  BY <1>p, <1>6 DEF ParkOff, Disable
<1>7. ASSUME NEW l \in launches, NEW n, n.epoch = l.epoch, launches' = (launches \ {l}) \cup {n},
             UNCHANGED <<factory, off, down, wanted, saver, launchEpoch, missed>>
      PROVE  Settled'
  <2>1. (\E k \in launches : k.epoch = launchEpoch) => \E k \in launches' : k.epoch = launchEpoch
    BY <1>7
  <2> QED BY <1>t, <1>7, <2>1 DEF Settled, Current
<1>8. ASSUME NEW l \in launches, ReadSwitch(l) PROVE Settled'
  <2> DEFINE n == [l EXCEPT !.at = IF wanted THEN "load" ELSE "park"]
  <2>1. n.epoch = l.epoch
    BY <1>t DEF SwitchTypes
  <2>2. launches' = (launches \ {l}) \cup {n}
    BY <1>8 DEF ReadSwitch
  <2> HIDE DEF n
  <2> QED BY <1>7, <1>8, <2>1, <2>2 DEF ReadSwitch
<1>9. ASSUME NEW l \in launches, LoadEmbedder(l) PROVE Settled'
  <2>1. UNCHANGED <<factory, off, down, wanted, saver, launchEpoch>> /\ l.at = "load"
    BY <1>9 DEF LoadEmbedder
  <2>2. CASE launches' = launches \ {l} /\ missed' = (missed \/ Current(l))
    <3>1. Current(l) => wanted
      BY <1>t, <2>1 DEF LaunchAgrees
    <3>2. \A k \in launches : k \in launches' \/ k = l
      BY <2>2
    <3>3. ~wanted => \A k \in launches : Current(k) => k \in launches'
      BY <3>1, <3>2
    <3>4. wanted /\ ~missed' => \A k \in launches : Current(k) => k \in launches'
      BY <2>2, <3>2
    <3>5. missed => missed'
      BY <2>2
    <3> QED BY <1>t, <2>1, <3>3, <3>4, <3>5 DEF Settled, Current
  <2>3. CASE launches' = (launches \ {l}) \cup {[l EXCEPT !.at = "wire"]} /\ missed' = missed
    <3> DEFINE n == [l EXCEPT !.at = "wire"]
    <3>1. n.epoch = l.epoch
      BY <1>t DEF SwitchTypes
    <3>2. launches' = (launches \ {l}) \cup {n}
      BY <2>3
    <3> HIDE DEF n
    <3> QED BY <1>7, <2>1, <2>3, <3>1, <3>2
  <2> QED BY <1>9, <2>2, <2>3 DEF LoadEmbedder
<1>10. ASSUME NEW l \in launches, Wire(l) PROVE Settled'
  <2>1. UNCHANGED <<launchEpoch, wanted, down, saver, missed>> /\ launches' = launches \ {l} /\ l.at = "wire"
    BY <1>10 DEF Wire
  <2>2. CASE Current(l) /\ ~down
    <3>1. off' = FALSE /\ wanted
      BY <1>t, <1>10, <2>1, <2>2 DEF Wire, LaunchAgrees
    <3> QED BY <2>1, <3>1 DEF Settled
  <2>3. CASE ~Current(l) \/ down
    <3>1. UNCHANGED <<factory, off>>
      BY <1>10, <2>3 DEF Wire
    <3>2. ~down => \A k \in launches : Current(k) => k \in launches'
      BY <2>1, <2>3
    <3> QED BY <1>t, <2>1, <3>1, <3>2 DEF Settled, Current
  <2> QED BY <2>2, <2>3
<1> QED BY <1>1, <1>2, <1>3, <1>4, <1>5, <1>6, <1>8, <1>9, <1>10, SwitchCases

LEMMA EmbeddersNext ==
  ASSUME \A e \in embedders' : \/ e = factory' \/ \E c \in closers' : c.embedder = e
                               \/ \E l \in launches' : l.epoch = e
  PROVE  EmbeddersAccounted'
  BY DEF EmbeddersAccounted

LEMMA EmbeddersKept == SwitchIInv /\ [RootsNext]_rootsVars => EmbeddersAccounted'
<1> SUFFICES ASSUME SwitchIInv, RootsNext \/ UNCHANGED rootsVars PROVE EmbeddersAccounted'
  BY DEF rootsVars
<1>t. SwitchTypes /\ LaunchAgrees
  BY DEF SwitchIInv
<1>e. \A e \in embedders : e = factory \/ (\E c \in closers : c.embedder = e) \/ \E l \in launches : l.epoch = e
  BY DEF SwitchIInv, EmbeddersAccounted
<1>s. ASSUME UNCHANGED factory, embedders' \subseteq embedders, closers \subseteq closers', launches \subseteq launches'
      PROVE  EmbeddersAccounted'
  BY <1>e, <1>s, EmbeddersNext
<1>d. ASSUME NEW by, Disable(by), embedders' \subseteq embedders,
             \A l \in launches : l \in launches' \/ l.epoch \notin embedders
      PROVE  EmbeddersAccounted'
  <2>1. closers \subseteq closers' /\ (factory' = factory \/ \E c \in closers' : c.embedder = factory)
    BY <1>d, DisableDoes
  <2> QED BY <1>d, <1>e, <2>1, EmbeddersNext
<1>m. ASSUME NEW l \in launches, NEW n, n.epoch = l.epoch, launches' = (launches \ {l}) \cup {n},
             embedders' \subseteq embedders \cup {l.epoch}, UNCHANGED <<factory, closers>>
      PROVE  EmbeddersAccounted'
  <2>1. \A k \in launches : \E j \in launches' : j.epoch = k.epoch
    BY <1>m
  <2> QED BY <1>e, <1>m, <2>1, EmbeddersNext
<1>1. CASE Aside
  BY <1>s, <1>1 DEF Aside
<1>2. CASE ShutdownAll
  BY <1>s, <1>2 DEF ShutdownAll, EmptyRegistry, switch
<1>3. CASE SaveSwitch
  BY <1>s, <1>3 DEF SaveSwitch, Launch
<1>4. CASE SaverDisables
  BY <1>d, <1>4 DEF SaverDisables
<1>5. ASSUME NEW c \in closers, CloserEnds(c) PROVE EmbeddersAccounted'
  <2>1. closers' = closers \ {c} /\ embedders' = embedders \ {c.embedder} /\ UNCHANGED <<factory, launches>>
    BY <1>5 DEF CloserEnds
  <2> QED BY <1>e, <2>1, EmbeddersNext
<1>6. ASSUME NEW l \in launches, ParkOff(l) PROVE EmbeddersAccounted'
  <2>1. l.epoch \notin embedders
    BY <1>t, <1>6 DEF ParkOff, LaunchAgrees
  <2> QED BY <1>d, <1>6, <2>1 DEF ParkOff
<1>7. ASSUME NEW l \in launches, ReadSwitch(l) PROVE EmbeddersAccounted'
  <2> DEFINE n == [l EXCEPT !.at = IF wanted THEN "load" ELSE "park"]
  <2>1. n.epoch = l.epoch
    BY <1>t DEF SwitchTypes
  <2>2. launches' = (launches \ {l}) \cup {n}
    BY <1>7 DEF ReadSwitch
  <2> HIDE DEF n
  <2> QED BY <1>m, <1>7, <2>1, <2>2 DEF ReadSwitch
<1>8. ASSUME NEW l \in launches, LoadEmbedder(l) PROVE EmbeddersAccounted'
  <2>1. UNCHANGED <<factory, closers>> /\ l.epoch \notin embedders
    BY <1>t, <1>8 DEF LoadEmbedder, LaunchAgrees
  <2>2. CASE launches' = launches \ {l} /\ embedders' = embedders
    BY <1>e, <2>1, <2>2, EmbeddersNext
  <2>3. CASE launches' = (launches \ {l}) \cup {[l EXCEPT !.at = "wire"]} /\ embedders' = embedders \cup {l.epoch}
    <3> DEFINE n == [l EXCEPT !.at = "wire"]
    <3>1. n.epoch = l.epoch
      BY <1>t DEF SwitchTypes
    <3>2. launches' = (launches \ {l}) \cup {n}
      BY <2>3
    <3> HIDE DEF n
    <3> QED BY <1>m, <2>1, <2>3, <3>1, <3>2
  <2> QED BY <1>8, <2>2, <2>3 DEF LoadEmbedder
<1>9. ASSUME NEW l \in launches, Wire(l) PROVE EmbeddersAccounted'
  <2>1. launches' = launches \ {l} /\ closers' = closers
    BY <1>9 DEF Wire
  <2>2. CASE Current(l) /\ ~down
    <3>1. factory' = l.epoch /\ embedders' = embedders /\ factory = Nothing
      BY <1>t, <1>9, <2>2 DEF Wire, LaunchAgrees
    <3>2. \A e \in embedders : e # Nothing
      BY <1>t DEF LaunchAgrees
    <3> QED BY <1>e, <2>1, <3>1, <3>2, EmbeddersNext
  <2>3. CASE ~Current(l) \/ down
    <3>1. factory' = factory /\ embedders' = embedders \ {l.epoch}
      BY <1>9, <2>3 DEF Wire
    <3> QED BY <1>e, <2>1, <3>1, EmbeddersNext
  <2> QED BY <2>2, <2>3
<1> QED BY <1>1, <1>2, <1>3, <1>4, <1>5, <1>6, <1>7, <1>8, <1>9, SwitchCases

LEMMA SwitchStarts == RootsInit => SwitchIInv
<1> SUFFICES ASSUME RootsInit PROVE SwitchIInv
  OBVIOUS
<1> USE NumberedManagers DEF RootsInit, AtRest0
<1>1. (CHOOSE r \in Roots : TRUE) \in Roots
  BY RootsAssumption
<1>2. MapTypes
  BY <1>1 DEF MapTypes
<1>3. saver.at = "idle" /\ \A s \in Searchers : searches[s].at = "idle"
  OBVIOUS
<1> DEFINE first == [epoch |-> 1, at |-> "start"]
<1>4. launches = {first} /\ first.epoch = 1 /\ first.at = "start"
      /\ first \in [epoch : Nat \ {Nothing}, at : {"start", "load", "park", "wire"}]
  BY DEF Nothing
<1> HIDE DEF first
<1>5. SwitchTypes
  BY <1>2, <1>3, <1>4 DEF SwitchTypes, Nothing
<1>6. MapAgrees /\ DrainsWaited
  <2>1. \A m \in Managers : life[m] = "none" /\ live[rootOf[m]] # m
    BY <1>2 DEF MapTypes
  <2> QED BY <2>1 DEF MapAgrees, DrainsWaited
<1>7. ClosersAgree
  BY <1>3 DEF ClosersAgree
<1>8. LaunchAgrees
  BY <1>3, <1>4 DEF LaunchAgrees, Current
<1>9. Settled
  BY <1>4 DEF Settled, Current
<1>10. EmbeddersAccounted
  BY DEF EmbeddersAccounted
<1> QED BY <1>5, <1>6, <1>7, <1>8, <1>9, <1>10 DEF SwitchIInv

LEMMA SwitchStep == SwitchIInv /\ [RootsNext]_rootsVars => SwitchIInv'
  BY MapKept, SwitchTypesKept, ClosersKept, LaunchKept, SettledKept, EmbeddersKept DEF SwitchIInv

\* Only a launch's Disable may be draining a manager whose root has another at
\* work: a quit never ends, a user's Disable keeps the registry parked.
LEMMA OnlyLaunchesOverlap == SwitchIInv => OneOpener
<1> SUFFICES ASSUME SwitchIInv, NEW m \in Managers, NEW n \in Managers,
                    m # n, rootOf[m] = rootOf[n], life[m] = "open", life[n] \in {"open", "draining"}
             PROVE  \E c \in closers : c.by = "launch" /\ n \in c.drains
  BY DEF OneOpener
<1> USE NumberedManagers DEF SwitchIInv, SwitchTypes
<1>1. rootOf[m] \in Roots /\ live[rootOf[m]] = m /\ ~Refused
  BY DEF MapAgrees, MapTypes
<1>2. life[n] = "draining" /\ closing[rootOf[n]] # n
  BY <1>1 DEF MapAgrees
<1>3. PICK c \in closers : n \in c.drains
  BY <1>2 DEF DrainsWaited
<1>4. c.by \notin {"quit", "saver"}
  BY <1>1, <1>3 DEF ClosersAgree, Refused
<1> QED BY <1>3, <1>4

LEMMA NoneAtWorkWhenOff == SwitchIInv => NoneWhenOff
<1> SUFFICES ASSUME SwitchIInv PROVE NoneWhenOff
  OBVIOUS
<1> USE NumberedManagers DEF SwitchIInv, SwitchTypes
<1>1. \A m \in Managers : life[m] = "open" <=> m \in Living
  <2> TAKE m \in Managers
  <2>1. rootOf[m] \in Roots /\ m # Nothing
    BY DEF MapTypes
  <2>2. \A r \in Roots : live[r] = m => rootOf[m] = r
    BY <2>1 DEF MapAgrees
  <2> QED BY <2>1, <2>2 DEF MapAgrees, Living
<1>2. Refused => Living = {}
  BY DEF MapAgrees, Living
<1> QED BY <1>1, <1>2 DEF NoneWhenOff

(* However slow launches, searches, drains and settings calls interleave    *)
(* (vector_roots.go, vectorIndexLauncher, UpdateIndexingSettings): a root    *)
(* has one index manager at work but for the one a launch's Disable still    *)
(* drains, none once the registry is parked, every open embedder has         *)
(* somebody to close it, and the switch settles where the user set it.       *)
THEOREM SwitchAlwaysHolds == RootsSpec => []SwitchHolds
<1>1. SwitchIInv => SwitchSettles
  <2> SUFFICES ASSUME SwitchIInv, saver = AtRest0, launches = {}, closers = {}, ~down
               PROVE  off = ~wanted \/ (wanted /\ missed)
    BY DEF SwitchSettles
  <2>1. off \in BOOLEAN /\ wanted \in BOOLEAN /\ saver.at # "disable"
    BY DEF SwitchIInv, SwitchTypes, AtRest0
  <2>2. ~wanted => off
    BY <2>1 DEF SwitchIInv, Settled
  <2>3. wanted => ~off \/ missed
    BY DEF SwitchIInv, Settled
  <2> QED BY <2>1, <2>2, <2>3
<1>2. SwitchIInv => SwitchHolds
  BY <1>1, OnlyLaunchesOverlap, NoneAtWorkWhenOff DEF SwitchHolds, SwitchIInv
<1> QED BY <1>2, SwitchStarts, SwitchStep, PTL DEF RootsSpec

-----------------------------------------------------------------------------
(* The embedded server                                                      *)

Unloaders == EmbedCalls \ Loaders
LoadPlaces ==
  {"enter", "discard", "discarding", "prepare", "spawn", "publish", "ready", "claim", "failed",
   "failing", "readback", "leave"}
StopPlaces == {"check", "mark", "term", "hard"}
ForcePlaces == {"force", "fterm", "fhard"}
FreePlaces == {"off", "gate", "take", "expired", "count", "defer", "apply", "record", "endop"}

\* Where a call may be.
Places(c) == IF c \in Loaders THEN LoadPlaces \cup {"off", "gate"}
                              ELSE StopPlaces \cup ForcePlaces \cup FreePlaces

EmbedTypes ==
  /\ handle \in Servers \cup {NoChild}
  /\ child \in [Servers -> {"none", "alive", "exited", "died"}]
  /\ asked \in [Servers -> SUBSET {"killed", "supervised", "abandoned", "expected"}]
  /\ step \in [EmbedCalls -> LoadPlaces \cup StopPlaces \cup ForcePlaces \cup FreePlaces]
  /\ \A c \in EmbedCalls : step[c] \in Places(c)
  /\ mine \in [EmbedCalls -> Servers \cup {NoChild}]
  /\ request \in [Requests -> {"off", "wait", "go", "sent", "done"}]

\* The gate is held by the call that works behind it.
GateHeld == \A c \in EmbedCalls : step[c] \in LoadPlaces \cup StopPlaces <=> gate = c

\* What a call knows of the process it has in hand.
InHand ==
  /\ \A p \in Servers : child[p] = "none" =>
       asked[p] = {} /\ handle # p /\ \A c \in EmbedCalls : mine[c] # p
  /\ \A c \in EmbedCalls :
       /\ step[c] \in {"discard", "publish", "ready", "claim", "failed", "term", "hard"} \cup ForcePlaces =>
            mine[c] # NoChild
       /\ step[c] \in {"hard", "fhard"} => "killed" \in asked[mine[c]]
       /\ step[c] = "publish" =>
            "supervised" \notin asked[mine[c]] /\ child[mine[c]] \in {"alive", "exited"}
       /\ step[c] \in {"publish", "ready", "claim"} => "abandoned" \notin asked[mine[c]]

\* A server nobody has killed is the published one, or a call has it in hand
\* that publishes or kills it in its next step.
InCharge == \A p \in Servers : Running(p) =>
  \/ handle = p
  \/ \E c \in EmbedCalls : mine[c] = p /\ step[c] \in {"publish", "discard", "failed", "force", "fterm"}

\* A new server is not published over another that nobody has killed.
PublishClear == \A c \in EmbedCalls :
  step[c] \in {"discard", "discarding", "prepare", "spawn", "publish"} =>
    handle = NoChild \/ "killed" \in asked[handle]

\* The handle is touched from behind the gate only, unless a stop is forced.
HandleOwned == ~forced =>
  /\ handle # NoChild => child[handle] \in {"alive", "exited"}
  /\ \A c \in EmbedCalls :
       /\ step[c] \notin ForcePlaces
       /\ step[c] \in {"discard", "discarding", "prepare", "spawn", "publish"} => handle = NoChild
       /\ step[c] \in {"ready", "claim", "failed", "failing", "term", "hard"} =>
            handle \in {mine[c], NoChild}

\* What the state says of the handle and of the call at work.
StateTold == ~forced =>
  /\ state = "loading" =>
       \E c \in Loaders : step[c] \in {"spawn", "publish", "ready", "claim", "failed", "failing"}
  /\ state = "loading" =>
       \A c \in EmbedCalls : step[c] \in {"ready", "claim"} => handle = mine[c]
  /\ state = "unloading" => \E c \in EmbedCalls : step[c] \in {"term", "hard"}
  /\ state = "loaded" =>
       /\ handle # NoChild /\ "abandoned" \notin asked[handle]
       /\ \A c \in Loaders : step[c] \in {"off", "gate", "enter", "readback", "leave"}
  /\ state \in {"installed", "not_installed"} /\ handle # NoChild =>
       \E c \in Loaders : step[c] \in {"ready", "claim", "failed", "failing"}

\* A request about to be sent has been stamped as activity: the expiry that
\* does not know of it is not the one that decides.
Stamped ==
  /\ step[IdleTick] = "expired" /\ BetweenStampAndCount => fresh
  /\ step[IdleTick] \in {"count", "gate", "check"} /\ ~moved /\ ~leaked => ~BetweenStampAndCount
  /\ step[IdleTick] \in {"gate", "check"} /\ ~moved /\ ~leaked =>
       \A r \in Requests : request[r] # "sent"
  /\ step[IdleTick] = "mark" /\ ~leaked => \A r \in Requests : request[r] \notin {"go", "sent"}

EmbedIInv ==
  EmbedTypes /\ GateHeld /\ InHand /\ InCharge /\ PublishClear /\ HandleOwned /\ StateTold /\ Stamped

LEMMA EmbedNames ==
  /\ Transport \in Loaders /\ Rpc \in Loaders /\ Transport # Rpc
  /\ IdleTick \in Unloaders /\ Operator \in Unloaders /\ IdleTick # Operator
  /\ \A u \in Stoppers : u \in Unloaders /\ u # IdleTick /\ u # Operator
  /\ \A c \in EmbedCalls : c \in Loaders \/ c \in Unloaders
  /\ \A c \in Unloaders : c \in EmbedCalls /\ c \notin Loaders
  /\ \A l \in Loaders : l \in EmbedCalls /\ (l = Transport \/ l = Rpc)
  /\ "free" \notin EmbedCalls /\ NoChild \notin Servers
  BY StoppersAssumption, SpawnsAssumption
     DEF Loaders, Unloaders, EmbedCalls, Transport, Rpc, IdleTick, Operator, NoChild, Servers

LEMMA EmbedStarts == EmbedInit => EmbedIInv
<1> SUFFICES ASSUME EmbedInit PROVE EmbedIInv
  OBVIOUS
<1> USE EmbedNames DEF EmbedInit
<1>1. EmbedTypes
  BY DEF EmbedTypes, Places, LoadPlaces, StopPlaces, ForcePlaces, FreePlaces
<1>2. GateHeld /\ InHand /\ InCharge
  BY DEF GateHeld, InHand, InCharge, Running, LoadPlaces, StopPlaces, ForcePlaces
<1>3. PublishClear /\ HandleOwned
  BY DEF PublishClear, HandleOwned, ForcePlaces
<1>4. StateTold
  BY DEF StateTold
<1>5. Stamped
  BY DEF Stamped
<1> QED BY <1>1, <1>2, <1>3, <1>4, <1>5 DEF EmbedIInv

\* What the operator does when its stop has returned, what the requests and the
\* idle expiry do, and calls that wait for the gate or leave it: no server and
\* no state changes, and who moves stays out of the gate.
Outside ==
  \/ \E r \in Requests : Request(r) \/ RequestGivesUp(r) \/ Begin(r) \/ Complete(r) \/ End(r)
  \/ LoadCall \/ SetAutoUnload \/ Expire \/ TickStep \/ Apply \/ EndOperation
  \/ \E u \in Unloaders : GateExpires(u)
  \/ \E u \in Stoppers : StopCall(u)
  \/ \E kind \in {"install", "remove"} : Operate(kind)

LEMMA EmbedCases ==
  ASSUME EmbedNext
  PROVE  \/ Outside \/ RecordChange
         \/ \E c \in EmbedCalls : Acquire(c, Enters(c))
         \/ \E l \in Loaders : LoadStep(l)
         \/ \E u \in Unloaders : StopperStep(u)
         \/ \E p \in Servers : Exit(p) \/ Supervise(p)
  BY DEF EmbedNext, EmbedGo, Outside, OperatorStep, Unloaders

LEMMA OutsideKeeps ==
  ASSUME EmbedTypes, Outside
  PROVE  /\ UNCHANGED <<state, handle, child, asked, gate, mine, forced>>
         /\ step' \in [EmbedCalls -> LoadPlaces \cup StopPlaces \cup ForcePlaces \cup FreePlaces]
         /\ request' \in [Requests -> {"off", "wait", "go", "sent", "done"}]
         /\ \A c \in EmbedCalls : step'[c] = step[c]
              \/ (step[c] \in FreePlaces /\ step'[c] \in FreePlaces /\ step'[c] \in Places(c))
<1> USE EmbedNames DEF EmbedTypes, Go, restVars, FreePlaces, Places
<1>1. CASE \E r \in Requests : Request(r)
  BY <1>1 DEF Request
<1>2. CASE \E r \in Requests : RequestGivesUp(r) \/ Begin(r) \/ Complete(r) \/ End(r)
  BY <1>2 DEF RequestGivesUp, Begin, Complete, End
<1>3. CASE LoadCall \/ SetAutoUnload \/ Expire
  BY <1>3 DEF LoadCall, SetAutoUnload, Expire
<1>4. CASE TickStep
  BY <1>4 DEF TickStep, Decide, CountRead, Defer
<1>5. CASE Apply \/ EndOperation
  BY <1>5 DEF Apply, EndOperation
<1>6. CASE \E u \in Unloaders : GateExpires(u)
  BY <1>6 DEF GateExpires
<1>7. CASE (\E u \in Stoppers : StopCall(u)) \/ \E kind \in {"install", "remove"} : Operate(kind)
  BY <1>7 DEF StopCall, Operate
<1> QED BY <1>1, <1>2, <1>3, <1>4, <1>5, <1>6, <1>7 DEF Outside


\* A call returns: it is out, with nothing in hand and without the gate.
Back(c) ==
  /\ \E to \in Places(c) \cap {"off", "apply", "endop"} : Go(c, to)
  /\ mine' = [mine EXCEPT ![c] = NoChild]
  /\ gate' = IF gate = c THEN "free" ELSE gate
  /\ request' \in [Requests -> {"off", "wait", "go", "sent", "done"}]

LEMMA ReturnsBack ==
  ASSUME EmbedTypes, NEW c \in EmbedCalls, NEW ok, Returns(c, ok)
  PROVE  Back(c)
<1>1. CASE c = Operator
  <2>1. AfterReturn(c, ok) \in Places(c) \cap {"off", "apply", "endop"}
    BY <1>1, EmbedNames DEF AfterReturn, Places, FreePlaces
  <2> QED BY <1>1, <2>1, EmbedNames DEF Returns, Back, EmbedTypes
<1>2. CASE c # Operator
  <2>1. AfterReturn(c, ok) = "off" /\ "off" \in Places(c)
    BY <1>2 DEF AfterReturn, Places, FreePlaces
  <2>2. Released(ok) \in [Requests -> {"off", "wait", "go", "sent", "done"}]
    BY DEF Released, EmbedTypes
  <2> QED BY <2>1, <2>2 DEF Returns, Back, EmbedTypes
<1> QED BY <1>1, <1>2

LEMMA EnterCases ==
  ASSUME EmbedTypes, NEW l \in Loaders, LoadEnter(l)
  PROVE  /\ step[l] = "enter" /\ UNCHANGED <<state, child, asked, forced>>
         /\ \/ state = "loaded" /\ Back(l) /\ handle' = handle
            \/ /\ state # "loaded" /\ handle' = NoChild /\ mine' = [mine EXCEPT ![l] = handle]
               /\ Go(l, IF handle = NoChild THEN "prepare" ELSE "discard")
               /\ UNCHANGED <<gate, request>>
<1>1. CASE state = "loaded"
  BY <1>1, ReturnsBack, EmbedNames DEF LoadEnter
<1>2. CASE state # "loaded"
  BY <1>2 DEF LoadEnter
<1> QED BY <1>1, <1>2

LEMMA ClaimCases ==
  ASSUME NEW l \in Loaders, Claim(l)
  PROVE  /\ step[l] = "claim" /\ UNCHANGED <<handle, child, asked, gate, mine, request, forced>>
         /\ \/ handle = mine[l] /\ state' = "loaded" /\ Go(l, "readback")
            \/ /\ handle # mine[l] /\ Go(l, "leave")
               /\ state' = state \/ state' = "installed"
<1>1. CASE handle = mine[l]
  BY <1>1 DEF Claim
<1>2. CASE handle # mine[l]
  BY <1>2 DEF Claim, Transition, Stay
<1> QED BY <1>1, <1>2

LEMMA UnloadCheckCases ==
  ASSUME EmbedTypes, NEW u \in Unloaders, UnloadCheck(u)
  PROVE  /\ step[u] = "check" /\ UNCHANGED <<state, handle, child, asked, forced>>
         /\ Back(u) \/ (Go(u, "mark") /\ UNCHANGED <<gate, mine, request>>)
<1>1. CASE u = IdleTick /\ moved
  BY <1>1, ReturnsBack, EmbedNames DEF UnloadCheck, idleVars
<1>2. CASE ~(u = IdleTick /\ moved)
  BY <1>2 DEF UnloadCheck
<1> QED BY <1>1, <1>2 DEF UnloadCheck

LEMMA UnloadMarkCases ==
  ASSUME EmbedTypes, NEW u \in Unloaders, UnloadMark(u)
  PROVE  /\ step[u] = "mark" /\ UNCHANGED <<handle, child, forced>>
         /\ \/ /\ handle = NoChild /\ Back(u) /\ asked' = asked
               /\ state' \in {"installed", "not_installed"}
            \/ /\ handle # NoChild /\ Mark(handle, "expected") /\ state' = "unloading"
               /\ mine' = [mine EXCEPT ![u] = handle] /\ Go(u, "term") /\ UNCHANGED <<gate, request>>
<1>1. CASE handle = NoChild
  BY <1>1, ReturnsBack, EmbedNames DEF UnloadMark, Transition, Stay
<1>2. CASE handle # NoChild
  BY <1>2 DEF UnloadMark, Transition
<1> QED BY <1>1, <1>2

LEMMA ForceTakeCases ==
  ASSUME EmbedTypes, NEW u \in Unloaders, ForceTake(u)
  PROVE  /\ step[u] = "take" /\ handle' = NoChild /\ UNCHANGED <<state, child, asked>>
         /\ \/ handle = NoChild /\ Back(u) /\ forced' = forced
            \/ /\ handle # NoChild /\ mine' = [mine EXCEPT ![u] = handle] /\ forced'
               /\ Go(u, "force") /\ UNCHANGED <<gate, request>>
<1>1. CASE handle = NoChild
  BY <1>1, ReturnsBack, EmbedNames DEF ForceTake
<1>2. CASE handle # NoChild
  BY <1>2 DEF ForceTake
<1> QED BY <1>1, <1>2 DEF ForceTake

LEMMA ForceEndCases ==
  ASSUME EmbedTypes, NEW u \in Unloaders, ForceEnd(u)
  PROVE  /\ step[u] \in {"fterm", "fhard"} /\ (step[u] = "fterm" => child[mine[u]] = "died")
         /\ Back(u) /\ UNCHANGED <<child, asked, forced>>
         /\ \/ handle' = handle /\ child[mine[u]] = "died"
            \/ step[u] = "fhard" /\ handle' = IF handle = NoChild THEN mine[u] ELSE handle
<1>1. CASE Ended(u) /\ Returns(u, TRUE) /\ handle' = handle
  BY <1>1, ReturnsBack, EmbedNames DEF ForceEnd, Ended
<1>2. CASE step[u] = "fhard" /\ handle' = (IF handle = NoChild THEN mine[u] ELSE handle) /\ Returns(u, FALSE)
  BY <1>2, ReturnsBack, EmbedNames DEF ForceEnd
<1> QED BY <1>1, <1>2 DEF ForceEnd

LEMMA EmbedTypesKept == EmbedIInv /\ [EmbedNext]_embedVars => EmbedTypes'
<1> SUFFICES ASSUME EmbedIInv, EmbedNext \/ UNCHANGED embedVars PROVE EmbedTypes'
  BY DEF embedVars
<1> USE EmbedNames DEF EmbedIInv, EmbedTypes, Places, LoadPlaces, StopPlaces, ForcePlaces, FreePlaces
<1>1. CASE UNCHANGED embedVars
  BY <1>1 DEF embedVars, restVars, idleVars, Released
<1>2. CASE Outside
  BY <1>2, OutsideKeeps DEF Released
<1>3. ASSUME NEW c \in EmbedCalls, Acquire(c, Enters(c)) PROVE EmbedTypes'
  BY <1>3 DEF Acquire, Enters, Go, restVars, Released
<1>4. ASSUME NEW l \in Loaders, LoadStep(l) PROVE EmbedTypes'
  <2>1. CASE LoadEnter(l)
    BY <2>1, EnterCases DEF Back, Go, Mark, Released
  <2>2. CASE Discarded(l)
    BY <2>2 DEF Discarded, Mark, Go, restVars, Released
  <2>3. CASE DiscardedWait(l)
    BY <2>3 DEF DiscardedWait, Go, restVars, Released
  <2>4. CASE Prepare(l)
    BY <2>4 DEF Prepare, Transition, Go, restVars, Released
  <2>5. CASE SpawnServer(l)
    BY <2>5 DEF SpawnServer, Transition, Stay, Go, restVars, Released
  <2>6. CASE Publish(l)
    BY <2>6 DEF Publish, Mark, Go, restVars, Released
  <2>7. CASE WaitReady(l)
    BY <2>7 DEF WaitReady, Mark, Go, restVars, Released
  <2>8. CASE LoadFailed(l)
    BY <2>8 DEF LoadFailed, Transition, Go, restVars, Released
  <2>9. CASE Claim(l)
    BY <2>9, ClaimCases DEF Back, Go, Mark, Released
  <2>10. CASE LeaveLoad(l)
    BY <2>10 DEF LeaveLoad, Returns, AfterReturn, Go, restVars, Released
  <2> QED BY <1>4, <2>1, <2>2, <2>3, <2>4, <2>5, <2>6, <2>7, <2>8, <2>9, <2>10 DEF LoadStep
<1>5. ASSUME NEW u \in Unloaders, StopperStep(u) PROVE EmbedTypes'
  <2>1. CASE UnloadCheck(u)
    BY <2>1, UnloadCheckCases DEF Back, Go, Mark, Released
  <2>2. CASE UnloadMark(u)
    BY <2>2, UnloadMarkCases DEF Back, Go, Mark, Released
  <2>3. CASE TermKill(u)
    BY <2>3 DEF TermKill, Ended, Mark, Go, restVars, Released
  <2>4. CASE TermEnd(u)
    BY <2>4 DEF TermEnd, Ended, Transition, Returns, AfterReturn, Go, restVars, Released
  <2>5. CASE ForceTake(u)
    BY <2>5, ForceTakeCases DEF Back, Go, Mark, Released
  <2>6. CASE ForceMark(u)
    BY <2>6 DEF ForceMark, Mark, Transition, Go, restVars, Released
  <2>7. CASE ForceEnd(u)
    BY <2>7, ForceEndCases DEF Back, Go, Mark, Released
  <2> QED BY <1>5, <2>1, <2>2, <2>3, <2>4, <2>5, <2>6, <2>7 DEF StopperStep
<1>6. CASE RecordChange
  BY <1>6 DEF RecordChange, Transition, Stay, Go, Released
<1>7. ASSUME NEW p \in Servers, Exit(p) PROVE EmbedTypes'
  BY <1>7 DEF Exit, restVars, Released
<1>8. ASSUME NEW p \in Servers, Supervise(p) PROVE EmbedTypes'
  BY <1>8 DEF Supervise, Transition, Stay, Released
<1> QED BY <1>1, <1>2, <1>3, <1>4, <1>5, <1>6, <1>7, <1>8, EmbedCases

LEMMA GateStaysHeld == EmbedIInv /\ [EmbedNext]_embedVars => GateHeld'
<1> SUFFICES ASSUME EmbedIInv, EmbedNext \/ UNCHANGED embedVars PROVE GateHeld'
  BY DEF embedVars
<1> USE EmbedNames DEF EmbedIInv, EmbedTypes, GateHeld, Places, LoadPlaces, StopPlaces,
       ForcePlaces, FreePlaces
<1>1. CASE UNCHANGED embedVars
  BY <1>1 DEF embedVars, restVars, idleVars, Enters
<1>2. CASE Outside
  BY <1>2, OutsideKeeps DEF Enters
<1>3. ASSUME NEW c \in EmbedCalls, Acquire(c, Enters(c)) PROVE GateHeld'
  BY <1>3 DEF Acquire, Enters, Go, restVars, Enters
<1>4. ASSUME NEW l \in Loaders, LoadStep(l) PROVE GateHeld'
  <2>1. CASE LoadEnter(l)
    BY <2>1, EnterCases DEF Back, Go, Mark, Enters
  <2>2. CASE Discarded(l)
    BY <2>2 DEF Discarded, Mark, Go, restVars, Enters
  <2>3. CASE DiscardedWait(l)
    BY <2>3 DEF DiscardedWait, Go, restVars, Enters
  <2>4. CASE Prepare(l)
    BY <2>4 DEF Prepare, Transition, Go, restVars, Enters
  <2>5. CASE SpawnServer(l)
    BY <2>5 DEF SpawnServer, Transition, Stay, Go, restVars, Enters
  <2>6. CASE Publish(l)
    BY <2>6 DEF Publish, Mark, Go, restVars, Enters
  <2>7. CASE WaitReady(l)
    BY <2>7 DEF WaitReady, Mark, Go, restVars, Enters
  <2>8. CASE LoadFailed(l)
    BY <2>8 DEF LoadFailed, Transition, Go, restVars, Enters
  <2>9. CASE Claim(l)
    BY <2>9, ClaimCases DEF Back, Go, Mark, Enters
  <2>10. CASE LeaveLoad(l)
    BY <2>10 DEF LeaveLoad, Returns, AfterReturn, Go, restVars, Enters
  <2> QED BY <1>4, <2>1, <2>2, <2>3, <2>4, <2>5, <2>6, <2>7, <2>8, <2>9, <2>10 DEF LoadStep
<1>5. ASSUME NEW u \in Unloaders, StopperStep(u) PROVE GateHeld'
  <2>1. CASE UnloadCheck(u)
    BY <2>1, UnloadCheckCases DEF Back, Go, Mark, Enters
  <2>2. CASE UnloadMark(u)
    BY <2>2, UnloadMarkCases DEF Back, Go, Mark, Enters
  <2>3. CASE TermKill(u)
    BY <2>3 DEF TermKill, Ended, Mark, Go, restVars, Enters
  <2>4. CASE TermEnd(u)
    BY <2>4 DEF TermEnd, Ended, Transition, Returns, AfterReturn, Go, restVars, Enters
  <2>5. CASE ForceTake(u)
    BY <2>5, ForceTakeCases DEF Back, Go, Mark, Enters
  <2>6. CASE ForceMark(u)
    BY <2>6 DEF ForceMark, Mark, Transition, Go, restVars, Enters
  <2>7. CASE ForceEnd(u)
    BY <2>7, ForceEndCases DEF Back, Go, Mark, Enters
  <2> QED BY <1>5, <2>1, <2>2, <2>3, <2>4, <2>5, <2>6, <2>7 DEF StopperStep
<1>6. CASE RecordChange
  BY <1>6 DEF RecordChange, Transition, Stay, Go, Enters
<1>7. ASSUME NEW p \in Servers, Exit(p) PROVE GateHeld'
  BY <1>7 DEF Exit, restVars, Enters
<1>8. ASSUME NEW p \in Servers, Supervise(p) PROVE GateHeld'
  BY <1>8 DEF Supervise, Transition, Stay, Enters
<1> QED BY <1>1, <1>2, <1>3, <1>4, <1>5, <1>6, <1>7, <1>8, EmbedCases

LEMMA InHandKept == EmbedIInv /\ [EmbedNext]_embedVars => InHand'
<1> SUFFICES ASSUME EmbedIInv, EmbedNext \/ UNCHANGED embedVars PROVE InHand'
  BY DEF embedVars
<1> USE EmbedNames DEF EmbedIInv, EmbedTypes, GateHeld, InHand, LoadPlaces, StopPlaces,
       ForcePlaces, FreePlaces
<1>1. CASE UNCHANGED embedVars
  BY <1>1 DEF embedVars, restVars, idleVars, Places
<1>2. CASE Outside
  BY <1>2, OutsideKeeps DEF Places
<1>3. ASSUME NEW c \in EmbedCalls, Acquire(c, Enters(c)) PROVE InHand'
  BY <1>3 DEF Acquire, Enters, Go, restVars, Places
<1>4. ASSUME NEW l \in Loaders, LoadStep(l) PROVE InHand'
  <2>1. CASE LoadEnter(l)
    BY <2>1, EnterCases DEF Back, Go, Mark, Places
  <2>2. CASE Discarded(l)
    BY <2>2 DEF Discarded, Mark, Go, restVars, Places
  <2>3. CASE DiscardedWait(l)
    BY <2>3 DEF DiscardedWait, Go, restVars, Places
  <2>4. CASE Prepare(l)
    BY <2>4 DEF Prepare, Transition, Go, restVars, Places
  <2>5. CASE SpawnServer(l)
    BY <2>5 DEF SpawnServer, Transition, Stay, Go, restVars, Places
  <2>6. CASE Publish(l)
    BY <2>6 DEF Publish, Mark, Go, restVars, Places
  <2>7. CASE WaitReady(l)
    BY <2>7 DEF WaitReady, Mark, Go, restVars, Places
  <2>8. CASE LoadFailed(l)
    BY <2>8 DEF LoadFailed, Transition, Go, restVars, Places
  <2>9. CASE Claim(l)
    BY <2>9, ClaimCases DEF Back, Go, Mark, Places
  <2>10. CASE LeaveLoad(l)
    BY <2>10 DEF LeaveLoad, Returns, AfterReturn, Go, restVars, Places
  <2> QED BY <1>4, <2>1, <2>2, <2>3, <2>4, <2>5, <2>6, <2>7, <2>8, <2>9, <2>10 DEF LoadStep
<1>5. ASSUME NEW u \in Unloaders, StopperStep(u) PROVE InHand'
  <2>1. CASE UnloadCheck(u)
    BY <2>1, UnloadCheckCases DEF Back, Go, Mark, Places
  <2>2. CASE UnloadMark(u)
    BY <2>2, UnloadMarkCases DEF Back, Go, Mark, Places
  <2>3. CASE TermKill(u)
    BY <2>3 DEF TermKill, Ended, Mark, Go, restVars, Places
  <2>4. CASE TermEnd(u)
    BY <2>4 DEF TermEnd, Ended, Transition, Returns, AfterReturn, Go, restVars, Places
  <2>5. CASE ForceTake(u)
    BY <2>5, ForceTakeCases DEF Back, Go, Mark, Places
  <2>6. CASE ForceMark(u)
    BY <2>6 DEF ForceMark, Mark, Transition, Go, restVars, Places
  <2>7. CASE ForceEnd(u)
    BY <2>7, ForceEndCases DEF Back, Go, Mark, Places
  <2> QED BY <1>5, <2>1, <2>2, <2>3, <2>4, <2>5, <2>6, <2>7 DEF StopperStep
<1>6. CASE RecordChange
  BY <1>6 DEF RecordChange, Transition, Stay, Go, Places
<1>7. ASSUME NEW p \in Servers, Exit(p) PROVE InHand'
  BY <1>7 DEF Exit, restVars, Places
<1>8. ASSUME NEW p \in Servers, Supervise(p) PROVE InHand'
  BY <1>8 DEF Supervise, Transition, Stay, Places
<1> QED BY <1>1, <1>2, <1>3, <1>4, <1>5, <1>6, <1>7, <1>8, EmbedCases

LEMMA InChargeKept == EmbedIInv /\ [EmbedNext]_embedVars => InCharge'
<1> SUFFICES ASSUME EmbedIInv, EmbedNext \/ UNCHANGED embedVars PROVE InCharge'
  BY DEF embedVars
<1> USE EmbedNames DEF EmbedIInv, EmbedTypes, InHand, PublishClear, LoadPlaces, StopPlaces,
       ForcePlaces, FreePlaces
<1>1. CASE UNCHANGED embedVars
  BY <1>1 DEF embedVars, restVars, idleVars, InCharge, Running
<1>2. CASE Outside
  BY <1>2, OutsideKeeps DEF InCharge, Running
<1>3. ASSUME NEW c \in EmbedCalls, Acquire(c, Enters(c)) PROVE InCharge'
  BY <1>3 DEF Acquire, Enters, Go, restVars, InCharge, Running
<1>4. ASSUME NEW l \in Loaders, LoadStep(l) PROVE InCharge'
  <2>1. CASE LoadEnter(l)
    BY <2>1, EnterCases DEF Back, Go, Mark, InCharge, Running
  <2>2. CASE Discarded(l)
    BY <2>2 DEF Discarded, Mark, Go, restVars, InCharge, Running
  <2>3. CASE DiscardedWait(l)
    BY <2>3 DEF DiscardedWait, Go, restVars, InCharge, Running
  <2>4. CASE Prepare(l)
    BY <2>4 DEF Prepare, Transition, Go, restVars, InCharge, Running
  <2>5. CASE SpawnServer(l)
    BY <2>5 DEF SpawnServer, Transition, Stay, Go, restVars, InCharge, Running
  <2>6. CASE Publish(l)
    BY <2>6 DEF Publish, Mark, Go, restVars, InCharge, Running
  <2>7. CASE WaitReady(l)
    BY <2>7 DEF WaitReady, Mark, Go, restVars, InCharge, Running
  <2>8. CASE LoadFailed(l)
    BY <2>8 DEF LoadFailed, Transition, Go, restVars, InCharge, Running
  <2>9. CASE Claim(l)
    BY <2>9, ClaimCases DEF Back, Go, Mark, InCharge, Running
  <2>10. CASE LeaveLoad(l)
    BY <2>10 DEF LeaveLoad, Returns, AfterReturn, Go, restVars, InCharge, Running
  <2> QED BY <1>4, <2>1, <2>2, <2>3, <2>4, <2>5, <2>6, <2>7, <2>8, <2>9, <2>10 DEF LoadStep
<1>5. ASSUME NEW u \in Unloaders, StopperStep(u) PROVE InCharge'
  <2>1. CASE UnloadCheck(u)
    BY <2>1, UnloadCheckCases DEF Back, Go, Mark, InCharge, Running
  <2>2. CASE UnloadMark(u)
    BY <2>2, UnloadMarkCases DEF Back, Go, Mark, InCharge, Running
  <2>3. CASE TermKill(u)
    BY <2>3 DEF TermKill, Ended, Mark, Go, restVars, InCharge, Running
  <2>4. CASE TermEnd(u)
    BY <2>4 DEF TermEnd, Ended, Transition, Returns, AfterReturn, Go, restVars, InCharge, Running
  <2>5. CASE ForceTake(u)
    BY <2>5, ForceTakeCases DEF Back, Go, Mark, InCharge, Running
  <2>6. CASE ForceMark(u)
    BY <2>6 DEF ForceMark, Mark, Transition, Go, restVars, InCharge, Running
  <2>7. CASE ForceEnd(u)
    BY <2>7, ForceEndCases DEF Back, Go, Mark, InCharge, Running
  <2> QED BY <1>5, <2>1, <2>2, <2>3, <2>4, <2>5, <2>6, <2>7 DEF StopperStep
<1>6. CASE RecordChange
  BY <1>6 DEF RecordChange, Transition, Stay, Go, InCharge, Running
<1>7. ASSUME NEW p \in Servers, Exit(p) PROVE InCharge'
  BY <1>7 DEF Exit, restVars, InCharge, Running
<1>8. ASSUME NEW p \in Servers, Supervise(p) PROVE InCharge'
  BY <1>8 DEF Supervise, Transition, Stay, InCharge, Running
<1> QED BY <1>1, <1>2, <1>3, <1>4, <1>5, <1>6, <1>7, <1>8, EmbedCases

LEMMA PublishStaysClear == EmbedIInv /\ [EmbedNext]_embedVars => PublishClear'
<1> SUFFICES ASSUME EmbedIInv, EmbedNext \/ UNCHANGED embedVars PROVE PublishClear'
  BY DEF embedVars
<1> USE EmbedNames DEF EmbedIInv, EmbedTypes, GateHeld, InHand, PublishClear, LoadPlaces,
       StopPlaces, ForcePlaces, FreePlaces
<1>1. CASE UNCHANGED embedVars
  BY <1>1 DEF embedVars, restVars, idleVars, Places
<1>2. CASE Outside
  BY <1>2, OutsideKeeps DEF Places
<1>3. ASSUME NEW c \in EmbedCalls, Acquire(c, Enters(c)) PROVE PublishClear'
  BY <1>3 DEF Acquire, Enters, Go, restVars, Places
<1>4. ASSUME NEW l \in Loaders, LoadStep(l) PROVE PublishClear'
  <2>1. CASE LoadEnter(l)
    BY <2>1, EnterCases DEF Back, Go, Mark, Places
  <2>2. CASE Discarded(l)
    BY <2>2 DEF Discarded, Mark, Go, restVars, Places
  <2>3. CASE DiscardedWait(l)
    BY <2>3 DEF DiscardedWait, Go, restVars, Places
  <2>4. CASE Prepare(l)
    BY <2>4 DEF Prepare, Transition, Go, restVars, Places
  <2>5. CASE SpawnServer(l)
    BY <2>5 DEF SpawnServer, Transition, Stay, Go, restVars, Places
  <2>6. CASE Publish(l)
    BY <2>6 DEF Publish, Mark, Go, restVars, Places
  <2>7. CASE WaitReady(l)
    BY <2>7 DEF WaitReady, Mark, Go, restVars, Places
  <2>8. CASE LoadFailed(l)
    BY <2>8 DEF LoadFailed, Transition, Go, restVars, Places
  <2>9. CASE Claim(l)
    BY <2>9, ClaimCases DEF Back, Go, Mark, Places
  <2>10. CASE LeaveLoad(l)
    BY <2>10 DEF LeaveLoad, Returns, AfterReturn, Go, restVars, Places
  <2> QED BY <1>4, <2>1, <2>2, <2>3, <2>4, <2>5, <2>6, <2>7, <2>8, <2>9, <2>10 DEF LoadStep
<1>5. ASSUME NEW u \in Unloaders, StopperStep(u) PROVE PublishClear'
  <2>1. CASE UnloadCheck(u)
    BY <2>1, UnloadCheckCases DEF Back, Go, Mark, Places
  <2>2. CASE UnloadMark(u)
    BY <2>2, UnloadMarkCases DEF Back, Go, Mark, Places
  <2>3. CASE TermKill(u)
    BY <2>3 DEF TermKill, Ended, Mark, Go, restVars, Places
  <2>4. CASE TermEnd(u)
    BY <2>4 DEF TermEnd, Ended, Transition, Returns, AfterReturn, Go, restVars, Places
  <2>5. CASE ForceTake(u)
    BY <2>5, ForceTakeCases DEF Back, Go, Mark, Places
  <2>6. CASE ForceMark(u)
    BY <2>6 DEF ForceMark, Mark, Transition, Go, restVars, Places
  <2>7. CASE ForceEnd(u)
    BY <2>7, ForceEndCases DEF Back, Go, Mark, Places
  <2> QED BY <1>5, <2>1, <2>2, <2>3, <2>4, <2>5, <2>6, <2>7 DEF StopperStep
<1>6. CASE RecordChange
  BY <1>6 DEF RecordChange, Transition, Stay, Go, Places
<1>7. ASSUME NEW p \in Servers, Exit(p) PROVE PublishClear'
  BY <1>7 DEF Exit, restVars, Places
<1>8. ASSUME NEW p \in Servers, Supervise(p) PROVE PublishClear'
  BY <1>8 DEF Supervise, Transition, Stay, Places
<1> QED BY <1>1, <1>2, <1>3, <1>4, <1>5, <1>6, <1>7, <1>8, EmbedCases

LEMMA HandleStaysOwned == EmbedIInv /\ [EmbedNext]_embedVars => HandleOwned'
<1> SUFFICES ASSUME EmbedIInv, EmbedNext \/ UNCHANGED embedVars PROVE HandleOwned'
  BY DEF embedVars
<1> USE EmbedNames DEF EmbedIInv, EmbedTypes, GateHeld, InHand, LoadPlaces, StopPlaces,
       ForcePlaces, FreePlaces
<1>1. CASE UNCHANGED embedVars
  BY <1>1 DEF embedVars, restVars, idleVars, HandleOwned
<1>2. CASE Outside
  BY <1>2, OutsideKeeps DEF HandleOwned
<1>3. ASSUME NEW c \in EmbedCalls, Acquire(c, Enters(c)) PROVE HandleOwned'
  BY <1>3 DEF Acquire, Enters, Go, restVars, HandleOwned
<1>4. ASSUME NEW l \in Loaders, LoadStep(l) PROVE HandleOwned'
  <2>1. CASE LoadEnter(l)
    BY <2>1, EnterCases DEF Back, Go, Mark, HandleOwned
  <2>2. CASE Discarded(l)
    BY <2>2 DEF Discarded, Mark, Go, restVars, HandleOwned
  <2>3. CASE DiscardedWait(l)
    BY <2>3 DEF DiscardedWait, Go, restVars, HandleOwned
  <2>4. CASE Prepare(l)
    BY <2>4 DEF Prepare, Transition, Go, restVars, HandleOwned
  <2>5. CASE SpawnServer(l)
    BY <2>5 DEF SpawnServer, Transition, Stay, Go, restVars, HandleOwned
  <2>6. CASE Publish(l)
    BY <2>6 DEF Publish, Mark, Go, restVars, HandleOwned
  <2>7. CASE WaitReady(l)
    BY <2>7 DEF WaitReady, Mark, Go, restVars, HandleOwned
  <2>8. CASE LoadFailed(l)
    BY <2>8 DEF LoadFailed, Transition, Go, restVars, HandleOwned
  <2>9. CASE Claim(l)
    BY <2>9, ClaimCases DEF Back, Go, Mark, HandleOwned
  <2>10. CASE LeaveLoad(l)
    BY <2>10 DEF LeaveLoad, Returns, AfterReturn, Go, restVars, HandleOwned
  <2> QED BY <1>4, <2>1, <2>2, <2>3, <2>4, <2>5, <2>6, <2>7, <2>8, <2>9, <2>10 DEF LoadStep
<1>5. ASSUME NEW u \in Unloaders, StopperStep(u) PROVE HandleOwned'
  <2>1. CASE UnloadCheck(u)
    BY <2>1, UnloadCheckCases DEF Back, Go, Mark, HandleOwned
  <2>2. CASE UnloadMark(u)
    BY <2>2, UnloadMarkCases DEF Back, Go, Mark, HandleOwned
  <2>3. CASE TermKill(u)
    BY <2>3 DEF TermKill, Ended, Mark, Go, restVars, HandleOwned
  <2>4. CASE TermEnd(u)
    BY <2>4 DEF TermEnd, Ended, Transition, Returns, AfterReturn, Go, restVars, HandleOwned
  <2>5. CASE ForceTake(u)
    BY <2>5, ForceTakeCases DEF Back, Go, Mark, HandleOwned
  <2>6. CASE ForceMark(u)
    BY <2>6 DEF ForceMark, Mark, Transition, Go, restVars, HandleOwned
  <2>7. CASE ForceEnd(u)
    BY <2>7, ForceEndCases DEF Back, Go, Mark, HandleOwned
  <2> QED BY <1>5, <2>1, <2>2, <2>3, <2>4, <2>5, <2>6, <2>7 DEF StopperStep
<1>6. CASE RecordChange
  BY <1>6 DEF RecordChange, Transition, Stay, Go, HandleOwned
<1>7. ASSUME NEW p \in Servers, Exit(p) PROVE HandleOwned'
  BY <1>7 DEF Exit, restVars, HandleOwned
<1>8. ASSUME NEW p \in Servers, Supervise(p) PROVE HandleOwned'
  BY <1>8 DEF Supervise, Transition, Stay, HandleOwned
<1> QED BY <1>1, <1>2, <1>3, <1>4, <1>5, <1>6, <1>7, <1>8, EmbedCases

LEMMA StateStaysTold == EmbedIInv /\ [EmbedNext]_embedVars => StateTold'
<1> SUFFICES ASSUME EmbedIInv, EmbedNext \/ UNCHANGED embedVars PROVE StateTold'
  BY DEF embedVars
<1> USE EmbedNames DEF EmbedIInv, EmbedTypes, GateHeld, InHand, HandleOwned, Places, LoadPlaces,
       StopPlaces, ForcePlaces, FreePlaces
<1>1. CASE UNCHANGED embedVars
  BY <1>1 DEF embedVars, restVars, idleVars, StateTold
<1>2. CASE Outside
  BY <1>2, OutsideKeeps DEF StateTold
<1>3. ASSUME NEW c \in EmbedCalls, Acquire(c, Enters(c)) PROVE StateTold'
  BY <1>3 DEF Acquire, Enters, Go, restVars, StateTold
<1>4. ASSUME NEW l \in Loaders, LoadStep(l) PROVE StateTold'
  <2>1. CASE LoadEnter(l)
    BY <2>1, EnterCases DEF Back, Go, Mark, StateTold
  <2>2. CASE Discarded(l)
    BY <2>2 DEF Discarded, Mark, Go, restVars, StateTold
  <2>3. CASE DiscardedWait(l)
    BY <2>3 DEF DiscardedWait, Go, restVars, StateTold
  <2>4. CASE Prepare(l)
    BY <2>4 DEF Prepare, Transition, Go, restVars, StateTold
  <2>5. CASE SpawnServer(l)
    BY <2>5 DEF SpawnServer, Transition, Stay, Go, restVars, StateTold
  <2>6. CASE Publish(l)
    BY <2>6 DEF Publish, Mark, Go, restVars, StateTold
  <2>7. CASE WaitReady(l)
    BY <2>7 DEF WaitReady, Mark, Go, restVars, StateTold
  <2>8. CASE LoadFailed(l)
    BY <2>8 DEF LoadFailed, Transition, Go, restVars, StateTold
  <2>9. CASE Claim(l)
    BY <2>9, ClaimCases DEF Back, Go, Mark, StateTold
  <2>10. CASE LeaveLoad(l)
    BY <2>10 DEF LeaveLoad, Returns, AfterReturn, Go, restVars, StateTold
  <2> QED BY <1>4, <2>1, <2>2, <2>3, <2>4, <2>5, <2>6, <2>7, <2>8, <2>9, <2>10 DEF LoadStep
<1>5. ASSUME NEW u \in Unloaders, StopperStep(u) PROVE StateTold'
  <2>1. CASE UnloadCheck(u)
    BY <2>1, UnloadCheckCases DEF Back, Go, Mark, StateTold
  <2>2. CASE UnloadMark(u)
    BY <2>2, UnloadMarkCases DEF Back, Go, Mark, StateTold
  <2>3. CASE TermKill(u)
    BY <2>3 DEF TermKill, Ended, Mark, Go, restVars, StateTold
  <2>4. CASE TermEnd(u)
    BY <2>4 DEF TermEnd, Ended, Transition, Returns, AfterReturn, Go, restVars, StateTold
  <2>5. CASE ForceTake(u)
    BY <2>5, ForceTakeCases DEF Back, Go, Mark, StateTold
  <2>6. CASE ForceMark(u)
    BY <2>6 DEF ForceMark, Mark, Transition, Go, restVars, StateTold
  <2>7. CASE ForceEnd(u)
    BY <2>7, ForceEndCases DEF Back, Go, Mark, StateTold
  <2> QED BY <1>5, <2>1, <2>2, <2>3, <2>4, <2>5, <2>6, <2>7 DEF StopperStep
<1>6. CASE RecordChange
  BY <1>6 DEF RecordChange, Transition, Stay, Go, StateTold
<1>7. ASSUME NEW p \in Servers, Exit(p) PROVE StateTold'
  BY <1>7 DEF Exit, restVars, StateTold
<1>8. ASSUME NEW p \in Servers, Supervise(p) PROVE StateTold'
  BY <1>8 DEF Supervise, Transition, Stay, StateTold
<1> QED BY <1>1, <1>2, <1>3, <1>4, <1>5, <1>6, <1>7, <1>8, EmbedCases

\* Steps behind the gate and forced stops: but for the two loads that stamp, no
\* activity, and requests go on only when the coalesced load has served.
Unstamped == UNCHANGED <<fresh, moved, leaked>>

LEMMA CountEmpty ==
  ASSUME EmbedTypes, ~(InFlight > 0)
  PROVE  \A r \in Requests : request[r] # "sent"
<1> DEFINE S == {r \in Requests : request[r] \in {"sent", "done"}}
<1>1. IsFiniteSet(S)
  BY RequestsAssumption, FS_Subset
<1>2. Cardinality(S) \in Nat /\ (Cardinality(S) = 0 <=> S = {})
  BY <1>1, FS_CardinalityType, FS_EmptySet
<1>3. Cardinality(S) = 0
  BY <1>2 DEF InFlight
<1> QED BY <1>2, <1>3

LEMMA LoadStamps ==
  ASSUME EmbedTypes, NEW l \in Loaders, LoadStep(l)
  PROVE  /\ \A c \in EmbedCalls \ {l} : step'[c] = step[c]
         /\ \/ fresh' /\ moved' /\ leaked' = leaked /\ step[l] \in {"enter", "claim"}
            \/ /\ Unstamped /\ step'[l] # "readback"
               /\ \A r \in Requests :
                    \/ request'[r] \in {request[r], "off"}
                    \/ request'[r] = "go" /\ l = Transport /\ step[l] = "readback"
<1> USE EmbedNames DEF idleVars, restVars, Go
<1>1. CASE LoadEnter(l) /\ state = "loaded"
  <2>1. fresh' /\ moved' /\ leaked' = leaked /\ step[l] = "enter"
    BY <1>1 DEF LoadEnter, Active
  <2>2. Back(l)
    BY <1>1, EnterCases
  <2> QED BY <2>1, <2>2 DEF Back, EmbedTypes
<1>2. CASE LoadEnter(l) /\ state # "loaded"
  <2>1. Unstamped
    BY <1>2 DEF LoadEnter, Unstamped
  <2>2. Go(l, IF handle = NoChild THEN "prepare" ELSE "discard") /\ request' = request
    BY <1>2, EnterCases
  <2> QED BY <2>1, <2>2 DEF EmbedTypes
<1>3. CASE Claim(l)
  <2>1. CASE handle = mine[l]
    <3>1. fresh' /\ moved' /\ leaked' = leaked /\ step[l] = "claim"
      BY <1>3, <2>1 DEF Claim, Active
    <3> QED BY <1>3, <2>1, <3>1, ClaimCases DEF EmbedTypes
  <2>2. CASE handle # mine[l]
    <3>1. Unstamped
      BY <1>3, <2>2 DEF Claim, Transition, Stay, Unstamped
    <3> QED BY <1>3, <2>2, <3>1, ClaimCases DEF EmbedTypes
  <2> QED BY <2>1, <2>2
<1>4. CASE ~LoadEnter(l) /\ ~Claim(l)
  <2>1. Unstamped
    BY <1>4 DEF LoadStep, Discarded, DiscardedWait, Prepare, SpawnServer, Publish, WaitReady,
           LoadFailed,
                LeaveLoad, Transition, Stay, Unstamped
  <2>2. CASE LeaveLoad(l)
    <3>1. Returns(l, step[l] = "readback")
      BY <2>2 DEF LeaveLoad
    <3>2. Back(l)
      BY <3>1, ReturnsBack
    <3>3. \A r \in Requests :
            \/ request'[r] \in {request[r], "off"}
            \/ request'[r] = "go" /\ l = Transport /\ step[l] = "readback"
      BY <3>1 DEF Returns, Released
    <3> QED BY <2>1, <3>2, <3>3 DEF Back, EmbedTypes
  <2>3. CASE ~LeaveLoad(l)
    <3>1. request' = request
      BY <1>4, <2>3 DEF LoadStep, Discarded, DiscardedWait, Prepare, SpawnServer, Publish,
             WaitReady, LoadFailed
    <3>2. /\ \A c \in EmbedCalls \ {l} : step'[c] = step[c]
          /\ step'[l] # "readback"
      BY <1>4, <2>3 DEF LoadStep, Discarded, DiscardedWait, Prepare, SpawnServer, Publish, WaitReady,
                        LoadFailed, EmbedTypes
    <3> QED BY <2>1, <3>1, <3>2
  <2> QED BY <2>2, <2>3
<1> QED BY <1>1, <1>2, <1>3, <1>4

LEMMA StopStamps ==
  ASSUME EmbedTypes, NEW u \in Unloaders, StopperStep(u)
  PROVE  /\ \A c \in EmbedCalls \ {u} : step'[c] = step[c]
         /\ Unstamped /\ request' = request
         /\ step'[u] \notin {"expired", "count", "gate", "check"}
         /\ step'[u] = "mark" => step[u] = "check" /\ ~(u = IdleTick /\ moved)
<1> USE EmbedNames DEF EmbedTypes, Unstamped, idleVars, restVars, Go
<1>1. ASSUME NEW ok, Returns(u, ok) PROVE request' = request
  BY <1>1 DEF Returns
<1>2. CASE UnloadCheck(u)
  <2>1. CASE u = IdleTick /\ moved
    <3>1. Returns(u, TRUE) /\ Unstamped
      BY <1>2, <2>1 DEF UnloadCheck
    <3>2. Back(u)
      BY <3>1, ReturnsBack
    <3> QED BY <1>1, <3>1, <3>2 DEF Back
  <2>2. CASE ~(u = IdleTick /\ moved)
    BY <1>2, <2>2 DEF UnloadCheck
  <2> QED BY <2>1, <2>2
<1>3. CASE UnloadMark(u)
  <2>1. request' = request
    BY <1>1, <1>3 DEF UnloadMark
  <2>2. Unstamped
    BY <1>3 DEF UnloadMark, Transition, Stay
  <2> QED BY <1>3, <2>1, <2>2, UnloadMarkCases DEF Back
<1>4. CASE TermKill(u) \/ ForceMark(u)
  BY <1>4 DEF TermKill, ForceMark, Transition
<1>5. CASE TermEnd(u)
  <2>1. PICK took \in BOOLEAN : Returns(u, took) /\ Transition(IF took THEN "installed" ELSE "error")
    BY <1>5 DEF TermEnd
  <2>2. Back(u)
    BY <2>1, ReturnsBack
  <2>3. request' = request /\ Unstamped
    BY <1>1, <2>1 DEF Transition
  <2> QED BY <2>2, <2>3 DEF Back
<1>6. CASE ForceTake(u)
  <2>1. request' = request /\ Unstamped
    BY <1>1, <1>6 DEF ForceTake
  <2> QED BY <1>6, <2>1, ForceTakeCases DEF Back
<1>7. CASE ForceEnd(u)
  <2>1. request' = request /\ Unstamped
    BY <1>1, <1>7 DEF ForceEnd, Transition, Stay
  <2> QED BY <1>7, <2>1, ForceEndCases DEF Back
<1> QED BY <1>2, <1>3, <1>4, <1>5, <1>6, <1>7 DEF StopperStep

LEMMA StampedKept == EmbedIInv /\ [EmbedNext]_embedVars => Stamped'
<1> SUFFICES ASSUME EmbedIInv, EmbedNext \/ UNCHANGED embedVars PROVE Stamped'
  BY DEF embedVars
<1> USE EmbedNames DEF EmbedIInv, EmbedTypes, GateHeld, Stamped, BetweenStampAndCount, LoadPlaces,
       StopPlaces
<1>1. CASE UNCHANGED embedVars
  BY <1>1 DEF embedVars, restVars, idleVars
<1>2. CASE Outside
  <2> USE DEF Go, restVars, idleVars
  <2>1. CASE \E r \in Requests : Request(r)
    BY <2>1 DEF Request
  <2>2. CASE \E r \in Requests : RequestGivesUp(r) \/ End(r)
    BY <2>2 DEF RequestGivesUp, End
  <2>3. CASE \E r \in Requests : Begin(r)
    BY <2>3 DEF Begin
  <2>4. CASE \E r \in Requests : Complete(r)
    BY <2>4 DEF Complete, Active
  <2>5. CASE LoadCall
    BY <2>5 DEF LoadCall
  <2>6. CASE SetAutoUnload
    BY <2>6 DEF SetAutoUnload
  <2>7. CASE Expire
    BY <2>7 DEF Expire
  <2>8. CASE Decide
    BY <2>8 DEF Decide
  <2>9. CASE CountRead
    BY <2>9, CountEmpty DEF CountRead
  <2>10. CASE Defer
    BY <2>10 DEF Defer
  <2>11. CASE Apply \/ EndOperation
    BY <2>11 DEF Apply, EndOperation
  <2>12. CASE \E u \in Unloaders : GateExpires(u)
    BY <2>12 DEF GateExpires
  <2>13. CASE (\E u \in Stoppers : StopCall(u)) \/ \E kind \in {"install", "remove"} : Operate(kind)
    BY <2>13 DEF StopCall, Operate
  <2> QED BY <1>2, <2>1, <2>2, <2>3, <2>4, <2>5, <2>6, <2>7, <2>8, <2>9, <2>10, <2>11, <2>12, <2>13
       DEF Outside, TickStep
<1>3. ASSUME NEW c \in EmbedCalls, Acquire(c, Enters(c)) PROVE Stamped'
  BY <1>3 DEF Acquire, Enters, Go, restVars, idleVars
<1>4. ASSUME NEW l \in Loaders, LoadStep(l) PROVE Stamped'
  BY <1>4, LoadStamps, EmbedTypesKept DEF Unstamped
<1>5. ASSUME NEW u \in Unloaders, StopperStep(u) PROVE Stamped'
  BY <1>5, StopStamps DEF Unstamped
<1>6. CASE RecordChange
  BY <1>6 DEF RecordChange, Transition, Stay, Go, idleVars
<1>7. ASSUME NEW p \in Servers, Exit(p) PROVE Stamped'
  BY <1>7 DEF Exit, restVars, idleVars
<1>8. ASSUME NEW p \in Servers, Supervise(p) PROVE Stamped'
  BY <1>8 DEF Supervise, Transition, Stay, idleVars
<1> QED BY <1>1, <1>2, <1>3, <1>4, <1>5, <1>6, <1>7, <1>8, EmbedCases

LEMMA EmbedStep == EmbedIInv /\ [EmbedNext]_embedVars => EmbedIInv'
  BY EmbedTypesKept, GateStaysHeld, InHandKept, InChargeKept, PublishStaysClear, HandleStaysOwned,
     StateStaysTold, StampedKept DEF EmbedIInv

\* As long as no stop was forced, two servers nobody has killed are the same.
LEMMA OneRuns ==
  ASSUME EmbedIInv, ~forced, NEW p \in Servers, NEW q \in Servers, Running(p), Running(q)
  PROVE  p = q
<1> USE EmbedNames DEF EmbedIInv, EmbedTypes, LoadPlaces, StopPlaces, ForcePlaces
<1>1. ASSUME NEW c \in EmbedCalls, step[c] \in {"publish", "discard", "failed", "force", "fterm"}
      PROVE  /\ step[c] \in {"publish", "discard", "failed"} /\ gate = c
             /\ handle \in {NoChild, mine[c]}
  BY <1>1 DEF HandleOwned, GateHeld
<1>2. \A s \in Servers : Running(s) =>
        handle = s \/ \E c \in EmbedCalls : mine[c] = s /\ gate = c /\ handle \in {NoChild, mine[c]}
  BY <1>1 DEF InCharge
<1> QED BY <1>2

LEMMA OneServerRuns == EmbedIInv => OneServer
<1> SUFFICES ASSUME EmbedIInv, ~forced PROVE Cardinality({p \in Servers : Running(p)}) <= 1
  BY DEF OneServer
<1> DEFINE S == {p \in Servers : Running(p)}
<1>1. CASE S = {}
  BY <1>1, FS_EmptySet
<1>2. CASE S # {}
  <2>1. PICK p \in S : TRUE
    BY <1>2
  <2>2. S = {p}
    BY <2>1, OneRuns
  <2> QED BY <2>2, FS_Singleton
<1> QED BY <1>1, <1>2

LEMMA RestTold == EmbedIInv => AtRest
<1> SUFFICES ASSUME EmbedIInv, AllQuiet, ~forced PROVE AtRestIs
  BY DEF AtRest
<1> USE EmbedNames DEF EmbedIInv, EmbedTypes
<1>1. \A c \in EmbedCalls : step[c] = "off"
  BY DEF AllQuiet
<1>2. \A p \in Servers : Running(p) => handle = p
  BY <1>1 DEF InCharge
<1>3. handle # NoChild => child[handle] = "alive"
  BY DEF HandleOwned, AllQuiet
<1> QED BY <1>1, <1>2, <1>3 DEF AtRestIs, StateTold

(* However loads, stops, the idle expiry, requests, installs and exits of   *)
(* the process interleave (server.go, idle.go, frontend_api_embedded.go):   *)
(* a server nobody has killed is published or in hand, and unless a stop    *)
(* was forced past the gate there is one at most, and the state tells the   *)
(* truth of it when all is quiet.                                           *)
THEOREM ServerAlwaysAccounted == EmbedSpec => []ServerAccounted
<1>1. EmbedIInv => NoOrphan
  BY DEF EmbedIInv, InCharge, NoOrphan, Running
<1>2. EmbedIInv => ServerAccounted
  BY <1>1, OneServerRuns, RestTold DEF ServerAccounted
<1> QED BY <1>2, EmbedStarts, EmbedStep, PTL DEF EmbedSpec

(* The idle expiry decides in one hold of the lock and acts in another      *)
(* (idle.go onIdleExpired, idleUnload): by then no request is under way,    *)
(* unless it took the count for leaked.                                     *)
THEOREM IdleAlwaysSpares == EmbedSpec => IdleSparesRequests
<1>1. EmbedIInv => [step[IdleTick] = "mark" /\ step'[IdleTick] = "term" =>
        leaked \/ \A r \in Requests : request[r] # "sent"]_embedVars
  BY DEF EmbedIInv, Stamped
<1> QED BY <1>1, EmbedStarts, EmbedStep, PTL DEF EmbedSpec, IdleSparesRequests

-----------------------------------------------------------------------------
(* The update                                                               *)

UpdaterPlaces ==
  {"unused", "wait", "extract", "stage", "copy", "clear", "aside", "place", "rollback", "torn",
   "relaunch", "ended"}

UpdateTypes ==
  /\ pid \in Nat /\ release \in Nat /\ version \in Int
  /\ offered \in Nat /\ archive \in Nat \cup {Damaged} /\ sums \in Nat
  /\ fetch \in [Downloaders -> [at : {"off", "asset", "sums", "verify", "done"}, v : Nat]]
  /\ check \in [Checks -> [at : {"off", "ask", "reread", "save"}, v : Nat]]
  /\ skipped \in Nat /\ choice \in Nat \cup {NoChoice}
  /\ target \in Int /\ backup \in Int /\ staged \in Int
  /\ updater \in [Updaters -> [at : UpdaterPlaces, parent : Nat, v : Nat \cup {Damaged}]]

\* While no download has replaced the archive of another: it is whole once its
\* download has verified it, and a damaged one is being checked or not offered.
ArchiveWhole ==
  ~contended =>
    /\ archive = Damaged => ~ready \/ \E d \in Downloaders : fetch[d].at \in {"sums", "verify"}
    /\ archive = Damaged => \A d \in Downloaders : fetch[d].at # "done"
    /\ \A u \in Updaters : updater[u].at # "unused" => updater[u].v > 0

\* Nobody else is at work on the trees, nor was cut off there.
Alone ==
  ~crowd => \A u, w \in Updaters :
    u # w /\ updater[u].at \in Swapping => updater[w].at \notin Swapping \cup {"torn"}

\* What the trees are at each step of the swap.
TreesKept ==
  ~crowd /\ ~contended =>
    /\ target >= 0
    /\ target = 0 => /\ backup > 0
                     /\ \E u \in Updaters : updater[u].at \in {"place", "rollback", "torn"}
    /\ \A u \in Updaters : updater[u].at \in {"place", "rollback"} => target = 0
    /\ \A u \in Updaters : updater[u].at \in {"clear", "aside", "place"} => staged > 0

\* An updater serves a process that was started before it, and swaps when that
\* one is gone.
ParentGone == \A u \in Updaters :
  /\ updater[u].parent <= pid
  /\ updater[u].at \in Swapping => ~ParentAlive(u)

\* What the background check is about to save is what is skipped.
SaveCurrent ==
  check["background"].at = "save" /\ skipped # 0 /\ ~late => check["background"].v = skipped

UpdateIInv == UpdateTypes /\ ArchiveWhole /\ Alone /\ TreesKept /\ ParentGone /\ SaveCurrent

LEMMA MarkedBelowZero == Damaged \in Int /\ Damaged < 0 /\ NoChoice \in Int /\ NoChoice < 0
  BY DEF Damaged, NoChoice

LEMMA UpdateStarts == UpdateInit => UpdateIInv
<1> SUFFICES ASSUME UpdateInit PROVE UpdateIInv
  OBVIOUS
<1> USE MarkedBelowZero DEF UpdateInit, Resting, Unused
<1>1. UpdateTypes
  BY DEF UpdateTypes, UpdaterPlaces
<1>2. ArchiveWhole /\ Alone /\ ParentGone /\ SaveCurrent
  BY DEF ArchiveWhole, Alone, ParentGone, SaveCurrent, Swapping, Checks
<1>3. TreesKept
  BY DEF TreesKept
<1> QED BY <1>1, <1>2, <1>3 DEF UpdateIInv

\* A step: one of the application's and its user's, one of an updater, or none.
LEMMA UpdateTypesKept == UpdateIInv /\ [UpdateNext]_updateVars => UpdateTypes'
<1> SUFFICES ASSUME UpdateIInv, UpdateNext \/ UNCHANGED updateVars PROVE UpdateTypes'
  BY DEF updateVars
<1> USE MarkedBelowZero DEF UpdateIInv, UpdateTypes, appVars, downloadVars, skipVars, treeVars
<1>1. CASE UNCHANGED updateVars
  BY <1>1 DEF updateVars
<1>2. CASE PublishRelease
  BY <1>2 DEF PublishRelease
<1>3. CASE ReadAgain
  BY <1>3 DEF ReadAgain, CheckTo, Reread, Checks
<1>4. CASE SaveState
  BY <1>4 DEF SaveState, CheckTo, Checks
<1>5. CASE ChooseSkip
  BY <1>5 DEF ChooseSkip
<1>6. CASE SaveSkip
  BY <1>6 DEF SaveSkip
<1>7. ASSUME Halted PROVE /\ offered' \in Nat /\ choice' \in Nat \cup {NoChoice}
                          /\ fetch' \in [Downloaders -> [at : {"off", "asset", "sums", "verify", "done"}, v : Nat]]
                          /\ check' \in [Checks -> [at : {"off", "ask", "reread", "save"}, v : Nat]]
  BY <1>7 DEF Halted, Resting
<1>8. CASE AppExits
  BY <1>7, <1>8 DEF AppExits
<1>9. CASE StartApp
  BY <1>9 DEF StartApp, Starts
<1>10. CASE RestoreBackup
  BY <1>10 DEF RestoreBackup
<1>11. CASE PowerLoss
  BY SMTT(30), <1>7, <1>11 DEF PowerLoss, UpdaterPlaces
<1>12. ASSUME NEW c \in Checks, Ask(c) PROVE UpdateTypes'
  BY <1>12 DEF Ask, CheckTo
<1>13. ASSUME NEW c \in Checks, Answer(c) PROVE UpdateTypes'
  BY <1>13 DEF Answer, CheckTo, Offer
<1>14. ASSUME NEW d \in Downloaders, BeginDownload(d) PROVE UpdateTypes'
  BY <1>14 DEF BeginDownload
<1>15. ASSUME NEW d \in Downloaders, FetchAsset(d) PROVE UpdateTypes'
  BY <1>15 DEF FetchAsset, FetchTo, FetchEnds, Resting
<1>16. ASSUME NEW d \in Downloaders, FetchSums(d) PROVE UpdateTypes'
  BY <1>16 DEF FetchSums, FetchTo, FetchEnds, Resting
<1>17. ASSUME NEW d \in Downloaders, VerifyArchive(d) \/ Downloaded(d) PROVE UpdateTypes'
  BY SMTT(30), <1>17 DEF VerifyArchive, Downloaded, FetchTo, FetchEnds, Resting
<1>18. ASSUME NEW u \in Updaters, ApplyUpdate(u) PROVE UpdateTypes'
  BY <1>18 DEF ApplyUpdate, UpdaterPlaces
<1>19. ASSUME NEW u \in Updaters, UpdaterStep(u) PROVE UpdateTypes'
  <2>1. ASSUME NEW at \in UpdaterPlaces, UpdaterTo(u, at)
        PROVE  updater' \in [Updaters -> [at : UpdaterPlaces, parent : Nat, v : Nat \cup {Damaged}]]
    BY <2>1 DEF UpdaterTo
  <2>2. CASE WaitForExit(u) \/ Extract(u)
    BY <1>19, <2>1, <2>2 DEF WaitForExit, Extract, GivesUp, Unchanged, UpdaterPlaces
  <2>3. CASE StageTree(u) \/ StageCopied(u) \/ ClearBackup(u)
    BY <2>1, <2>3 DEF StageTree, StageCopied, ClearBackup, Unchanged, UpdaterPlaces
  <2>4. CASE MoveAside(u) \/ Place(u) \/ RollBack(u)
    BY <2>1, <2>4 DEF MoveAside, Place, PlaceFails, RollBack, Unchanged, UpdaterPlaces
  <2>5. CASE Relaunch(u)
    BY <2>1, <2>5 DEF Relaunch, Starts, UpdaterPlaces
  <2> QED BY <1>19, <2>2, <2>3, <2>4, <2>5 DEF UpdaterStep
<1> QED BY <1>1, <1>2, <1>3, <1>4, <1>5, <1>6, <1>8, <1>9, <1>10, <1>11, <1>12, <1>13, <1>14, <1>15,
           <1>16, <1>17, <1>18, <1>19 DEF UpdateNext, DownloadStep

\* The steps of the application that leave the updaters and the trees alone.
AppStep ==
  \/ PublishRelease \/ ReadAgain \/ SaveState \/ ChooseSkip \/ SaveSkip \/ AppExits
  \/ \E c \in Checks : Ask(c) \/ Answer(c)
  \/ \E d \in Downloaders : BeginDownload(d) \/ DownloadStep(d)

LEMMA UpdateCases ==
  ASSUME UpdateNext
  PROVE  \/ AppStep \/ StartApp \/ RestoreBackup \/ PowerLoss
         \/ \E u \in Updaters : ApplyUpdate(u) \/ UpdaterStep(u)
  BY DEF UpdateNext, AppStep

LEMMA AppStepKeeps ==
  ASSUME AppStep
  PROVE  /\ UNCHANGED <<treeVars, updater, crowd, pid>>
         /\ up' = up \/ up' = FALSE
         /\ contended => contended'
<1>1. CASE PublishRelease \/ ReadAgain \/ SaveState \/ ChooseSkip \/ SaveSkip \/ AppExits
  BY <1>1 DEF PublishRelease, ReadAgain, SaveState, ChooseSkip, SaveSkip, AppExits, Halted, appVars
<1>2. CASE \E c \in Checks : Ask(c) \/ Answer(c)
  BY <1>2 DEF Ask, Answer, appVars
<1>3. CASE \E d \in Downloaders : BeginDownload(d) \/ DownloadStep(d)
  <2>1. ASSUME NEW d \in Downloaders, FetchAsset(d) PROVE contended => contended'
    BY <2>1 DEF FetchAsset
  <2>2. ASSUME NEW d \in Downloaders, FetchAsset(d)
        PROVE  UNCHANGED <<treeVars, updater, crowd, pid, up>>
    BY <2>2 DEF FetchAsset, appVars
  <2>3. ASSUME NEW d \in Downloaders, BeginDownload(d) \/ FetchSums(d) \/ VerifyArchive(d) \/ Downloaded(d)
        PROVE  UNCHANGED <<treeVars, updater, crowd, pid, up, contended>>
    BY <2>3 DEF BeginDownload, FetchSums, VerifyArchive, Downloaded, appVars
  <2> QED BY <1>3, <2>1, <2>2, <2>3 DEF DownloadStep
<1> QED BY <1>1, <1>2, <1>3 DEF AppStep

\* An updater's step moves that updater only; who gets to the trees comes from
\* the wait or is there already.
LEMMA UpdaterMoves ==
  ASSUME UpdateTypes, NEW u \in Updaters, UpdaterStep(u)
  PROVE  /\ \A w \in Updaters \ {u} : updater'[w] = updater[w]
         /\ updater'[u].parent = updater[u].parent /\ updater'[u].v = updater[u].v
         /\ updater[u].at # "unused" /\ updater'[u].at # "unused"
         /\ \/ WaitForExit(u)
            \/ crowd' = crowd /\ updater[u].at \in Swapping
            \/ crowd' = crowd /\ updater'[u].at = "ended"
         /\ crowd => crowd'
         /\ UNCHANGED <<archive, sums, fetch, ready, contended, skipVars>>
<1> USE DEF UpdateTypes
<1>1. ASSUME NEW at, UpdaterTo(u, at)
      PROVE  /\ \A w \in Updaters \ {u} : updater'[w] = updater[w]
             /\ updater'[u].parent = updater[u].parent /\ updater'[u].v = updater[u].v
             /\ updater'[u].at = at
  BY <1>1 DEF UpdaterTo
<1> HIDE DEF UpdateTypes
<1> USE DEF Unchanged, downloadVars, Swapping
<1>2. CASE WaitForExit(u)
  <2>1. crowd => crowd'
    BY <1>2 DEF WaitForExit
  <2>2. \E at \in {"extract", "ended"} : UpdaterTo(u, at)
    BY <1>2 DEF WaitForExit, GivesUp
  <2>3. updater[u].at = "wait" /\ UNCHANGED <<archive, sums, fetch, ready, contended, skipVars>>
    BY <1>2 DEF WaitForExit
  <2> QED BY <1>1, <1>2, <2>1, <2>2, <2>3
<1>3. CASE Extract(u) \/ StageTree(u) \/ StageCopied(u) \/ ClearBackup(u)
  BY <1>1, <1>3 DEF Extract, StageTree, StageCopied, ClearBackup
<1>4. CASE MoveAside(u) \/ Place(u) \/ RollBack(u)
  BY <1>1, <1>4 DEF MoveAside, Place, PlaceFails, RollBack
<1>5. CASE Relaunch(u)
  BY <1>1, <1>5 DEF Relaunch
<1> QED BY <1>2, <1>3, <1>4, <1>5 DEF UpdaterStep

LEMMA ArchiveKept == UpdateIInv /\ [UpdateNext]_updateVars => ArchiveWhole'
<1> SUFFICES ASSUME UpdateIInv, UpdateNext \/ UNCHANGED updateVars PROVE ArchiveWhole'
  BY DEF updateVars
<1> USE MarkedBelowZero DEF UpdateIInv, ArchiveWhole
<1>1. CASE UNCHANGED updateVars
  BY <1>1 DEF updateVars, downloadVars
<1>2. CASE PublishRelease \/ ReadAgain \/ SaveState \/ ChooseSkip \/ SaveSkip \/ StartApp \/ RestoreBackup
  BY <1>2 DEF PublishRelease, ReadAgain, SaveState, ChooseSkip, SaveSkip, StartApp, RestoreBackup,
         downloadVars
<1>3. CASE AppExits
  BY <1>3 DEF AppExits, Halted, Resting
<1>4. CASE PowerLoss
  <2>1. ~ready' /\ contended' = contended /\ \A d \in Downloaders : fetch'[d].at = "off"
    BY <1>4 DEF PowerLoss, Halted, Resting
  <2>2. \A u \in Updaters : updater'[u].at # "unused" => updater[u].at # "unused" /\ updater'[u].v = updater[u].v
    BY <1>4 DEF PowerLoss, UpdateTypes
  <2> QED BY <2>1, <2>2
<1>5. CASE \E c \in Checks : Ask(c) \/ Answer(c)
  BY <1>5 DEF Ask, Answer, downloadVars
<1>6. ASSUME NEW d \in Downloaders, BeginDownload(d) \/ DownloadStep(d) PROVE ArchiveWhole'
  <2> SUFFICES ASSUME ~contended' PROVE ArchiveWhole'
    OBVIOUS
  <2>1. ~contended /\ updater' = updater
    BY <1>6, AppStepKeeps DEF AppStep
  <2>2. CASE BeginDownload(d)
    BY <2>1, <2>2 DEF BeginDownload, UpdateTypes
  <2>3. CASE FetchAsset(d)
    <3>1. archive' # archive => \A e \in Downloaders \ {d} : fetch[e].at = "off"
      <4> SUFFICES ASSUME archive' # archive, NEW e \in Downloaders \ {d}, fetch[e].at # "off" PROVE FALSE
        OBVIOUS
      <4>1. contended' = (contended \/ \E k \in Downloaders \ {d} : fetch[k].at # "off")
        BY <2>3 DEF FetchAsset
      <4> QED BY <4>1
    <3>2. fetch[d].at = "asset" /\ ready' = ready
      BY <2>3 DEF FetchAsset
    <3>3. CASE archive' \in {fetch[d].v, Damaged} /\ FetchTo(d, "sums")
      <4>1. fetch'[d].at = "sums" /\ \A e \in Downloaders \ {d} : fetch'[e] = fetch[e]
        BY <3>3 DEF FetchTo, UpdateTypes
      <4>2. archive' # archive => \A e \in Downloaders : fetch'[e].at # "done"
        BY <3>1, <4>1
      <4> QED BY <2>1, <3>2, <4>1, <4>2
    <3>4. CASE FetchEnds(d) /\ archive' = archive
      <4>1. fetch'[d].at = "off" /\ \A e \in Downloaders \ {d} : fetch'[e] = fetch[e]
        BY <3>4 DEF FetchEnds, Resting, UpdateTypes
      <4> QED BY <2>1, <3>2, <3>4, <4>1
    <3> QED BY <2>3, <3>3, <3>4 DEF FetchAsset
  <2>4. CASE FetchSums(d)
    BY SMTT(30), <2>1, <2>4 DEF FetchSums, FetchTo, FetchEnds, Resting, UpdateTypes
  <2>5. CASE VerifyArchive(d)
    BY <2>1, <2>5 DEF VerifyArchive, FetchTo, FetchEnds, Resting, UpdateTypes
  <2>6. CASE Downloaded(d)
    BY <2>1, <2>6 DEF Downloaded, FetchEnds, Resting, UpdateTypes
  <2> QED BY <1>6, <2>2, <2>3, <2>4, <2>5, <2>6 DEF DownloadStep
<1>7. ASSUME NEW u \in Updaters, ApplyUpdate(u) PROVE ArchiveWhole'
  <2> SUFFICES ASSUME ~contended' PROVE ArchiveWhole'
    OBVIOUS
  <2>1. contended' = (contended \/ \E d \in Downloaders : fetch[d].at \in {"sums", "verify"})
    BY <1>7 DEF ApplyUpdate
  <2>2. ~contended /\ \A d \in Downloaders : fetch[d].at \notin {"sums", "verify"}
    BY <2>1
  <2>3. ready /\ archive # 0 /\ UNCHANGED <<archive, fetch, ready>>
    BY <1>7 DEF ApplyUpdate, downloadVars
  <2>4. archive # Damaged
    BY <2>2, <2>3
  <2>5. archive > 0
    BY <2>3, <2>4 DEF UpdateTypes
  <2>6. \A w \in Updaters : updater'[w] = updater[w] \/ updater'[w].v = archive
    BY <1>7 DEF ApplyUpdate, UpdateTypes
  <2> QED BY <2>2, <2>3, <2>4, <2>5, <2>6
<1>8. ASSUME NEW u \in Updaters, UpdaterStep(u) PROVE ArchiveWhole'
  BY <1>8, UpdaterMoves
<1> QED BY <1>1, <1>2, <1>3, <1>4, <1>5, <1>6, <1>7, <1>8 DEF UpdateNext

LEMMA AloneKept == UpdateIInv /\ [UpdateNext]_updateVars => Alone'
<1> SUFFICES ASSUME UpdateIInv, UpdateNext \/ UNCHANGED updateVars PROVE Alone'
  BY DEF updateVars
<1> USE DEF UpdateIInv, Alone, Swapping
<1>1. CASE UNCHANGED updateVars
  BY <1>1 DEF updateVars
<1>2. CASE AppStep
  BY <1>2, AppStepKeeps
<1>3. CASE StartApp \/ RestoreBackup
  BY <1>3 DEF StartApp, RestoreBackup
<1>4. CASE PowerLoss
  BY <1>4 DEF PowerLoss, UpdateTypes
<1>5. ASSUME NEW u \in Updaters, ApplyUpdate(u) PROVE Alone'
  BY <1>5 DEF ApplyUpdate, UpdateTypes
<1>6. ASSUME NEW u \in Updaters, UpdaterStep(u) PROVE Alone'
  <2>1. CASE WaitForExit(u)
    <3>1. updater'[u].at \in {"extract", "ended"}
      BY <2>1 DEF WaitForExit, GivesUp, UpdaterTo, UpdateTypes
    <3>2. ~crowd' => ~crowd /\ ~ \E w \in Updaters \ {u} : updater'[u].at = "extract" /\ updater[w].at \in Swapping \cup {"torn"}
      BY <2>1 DEF WaitForExit
    <3>3. updater'[u].at \in Swapping => updater'[u].at = "extract"
      BY <3>1
    <3> QED BY <1>6, <3>1, <3>2, <3>3, UpdaterMoves
  <2>2. CASE crowd' = crowd /\ updater[u].at \in Swapping
    BY <1>6, <2>2, UpdaterMoves
  <2>3. CASE crowd' = crowd /\ updater'[u].at = "ended"
    BY <1>6, <2>3, UpdaterMoves
  <2> QED BY <1>6, <2>1, <2>2, <2>3, UpdaterMoves
<1> QED BY <1>1, <1>2, <1>3, <1>4, <1>5, <1>6, UpdateCases


LEMMA TreesStay == UpdateIInv /\ [UpdateNext]_updateVars => TreesKept'
<1> SUFFICES ASSUME UpdateIInv, UpdateNext \/ UNCHANGED updateVars, ~crowd', ~contended' PROVE TreesKept'
  BY DEF updateVars, TreesKept
<1> USE DEF UpdateIInv
<1>1. CASE UNCHANGED updateVars
  BY <1>1 DEF updateVars, treeVars, TreesKept
<1>2. CASE AppStep
  BY <1>2, AppStepKeeps DEF TreesKept, treeVars
<1>3. CASE StartApp
  BY <1>3 DEF StartApp, TreesKept, treeVars
<1>4. CASE RestoreBackup
  BY <1>4 DEF RestoreBackup, TreesKept, Swapping, UpdateTypes
<1>5. CASE PowerLoss
  <2>1. UNCHANGED <<treeVars, crowd, contended>>
    BY <1>5 DEF PowerLoss
  <2>2. \A u \in Updaters :
          /\ updater[u].at \in {"place", "rollback", "torn"} => updater'[u].at = "torn"
          /\ updater'[u].at \in {"unused", "torn", "ended"}
    BY <1>5 DEF PowerLoss, UpdateTypes
  <2> QED BY <2>1, <2>2 DEF TreesKept, treeVars
<1>6. ASSUME NEW u \in Updaters, ApplyUpdate(u) PROVE TreesKept'
  <2>1. ~crowd /\ UNCHANGED treeVars /\ updater[u].at = "unused"
    BY <1>6 DEF ApplyUpdate, Unused
  <2>3. contended' = (contended \/ \E d \in Downloaders : fetch[d].at \in {"sums", "verify"})
    BY <1>6 DEF ApplyUpdate
  <2>4. ~contended
    BY <2>3
  <2>2. updater'[u].at = "wait" /\ \A w \in Updaters \ {u} : updater'[w] = updater[w]
    BY <1>6 DEF ApplyUpdate, UpdateTypes
  <2> QED BY <2>1, <2>2, <2>4 DEF TreesKept, treeVars
<1>7. ASSUME NEW u \in Updaters, UpdaterStep(u) PROVE TreesKept'
  <2>1. ~crowd /\ ~contended
    BY <1>7, UpdaterMoves
  <2>2. \A w \in Updaters \ {u} : updater'[w] = updater[w]
    BY <1>7, UpdaterMoves
  <2>3. updater[u].at \in Swapping => \A w \in Updaters \ {u} : updater[w].at \notin Swapping \cup {"torn"}
    BY <2>1 DEF Alone
  <2>4. updater[u].v > 0
    BY <1>7, <2>1, UpdaterMoves DEF ArchiveWhole
  <2>5. /\ target >= 0
        /\ target = 0 => backup > 0 /\ \E w \in Updaters : updater[w].at \in {"place", "rollback", "torn"}
        /\ \A w \in Updaters : updater[w].at \in {"place", "rollback"} => target = 0
        /\ \A w \in Updaters : updater[w].at \in {"clear", "aside", "place"} => staged > 0
    BY <2>1 DEF TreesKept
  <2>6. target \in Int /\ backup \in Int /\ staged \in Int
    BY DEF UpdateTypes
  <2>7. ASSUME NEW at, UpdaterTo(u, at) PROVE updater'[u].at = at
    BY <2>7 DEF UpdaterTo, UpdateTypes
  <2> HIDE DEF UpdateIInv
  <2>8. CASE WaitForExit(u) \/ Extract(u) \/ Relaunch(u)
    <3>1. UNCHANGED treeVars /\ updater[u].at \in {"wait", "extract", "relaunch"}
          /\ \E at \in {"extract", "stage", "ended"} : UpdaterTo(u, at)
      BY <2>8 DEF WaitForExit, GivesUp, Extract, Relaunch
    <3> QED BY <2>2, <2>5, <2>7, <3>1 DEF TreesKept, treeVars
  <2>9. CASE StageTree(u)
    BY <2>2, <2>3, <2>5, <2>6, <2>7, <2>9 DEF StageTree, TreesKept, Swapping
  <2>10. CASE StageCopied(u)
    <3>1. ~ \E w \in Updaters \ {u} : updater[w].at = "copy"
      BY <2>3, <2>10 DEF StageCopied, Swapping
    <3>2. updater[u].at = "copy" /\ UNCHANGED <<target, backup>>
          /\ \/ staged' > 0 /\ updater'[u].at = "clear"
             \/ updater'[u].at = "ended"
      BY <2>4, <2>7, <2>10, <3>1 DEF StageCopied
    <3> QED BY <2>2, <2>3, <2>5, <3>2 DEF TreesKept, Swapping
  <2>11. CASE ClearBackup(u)
    <3>1. updater[u].at = "clear" /\ updater'[u].at = "aside" /\ UNCHANGED <<target, staged>>
      BY <2>7, <2>11 DEF ClearBackup
    <3>2. target # 0
      BY <2>3, <2>5, <3>1 DEF Swapping
    <3> QED BY <2>2, <2>3, <2>5, <2>6, <3>1, <3>2 DEF TreesKept, Swapping
  <2>12. CASE MoveAside(u)
    <3>1. updater[u].at = "aside"
      BY <2>12 DEF MoveAside
    <3>2. target # 0
      BY <2>3, <2>5, <3>1 DEF Swapping
    <3>3. \/ backup' = target /\ target' = 0 /\ updater'[u].at = "place" /\ staged' = staged
          \/ UNCHANGED <<target, backup>> /\ updater'[u].at = "ended"
      BY <2>7, <2>12 DEF MoveAside
    <3> QED BY <2>2, <2>3, <2>5, <2>6, <3>1, <3>2, <3>3 DEF TreesKept, Swapping
  <2>13. CASE Place(u)
    <3>1. updater[u].at = "place" /\ backup' = backup
      BY <2>13 DEF Place
    <3>2. \/ target' = staged /\ updater'[u].at = "relaunch"
          \/ UNCHANGED <<target, staged>> /\ updater'[u].at = "rollback"
      BY <2>7, <2>13 DEF Place, PlaceFails
    <3> QED BY <2>2, <2>3, <2>5, <2>6, <3>1, <3>2 DEF TreesKept, Swapping
  <2>14. CASE RollBack(u)
    <3>1. updater[u].at = "rollback" /\ staged' = staged
      BY <2>14 DEF RollBack
    <3>2. \/ target' = backup /\ backup' = 0 /\ updater'[u].at = "ended"
          \/ UNCHANGED <<target, backup>> /\ updater'[u].at = "torn"
      BY <2>7, <2>14 DEF RollBack
    <3> QED BY <2>2, <2>3, <2>5, <2>6, <3>1, <3>2 DEF TreesKept, Swapping
  <2> QED BY <1>7, <2>8, <2>9, <2>10, <2>11, <2>12, <2>13, <2>14 DEF UpdaterStep
<1> QED BY <1>1, <1>2, <1>3, <1>4, <1>5, <1>6, <1>7, UpdateCases

LEMMA ParentStaysGone == UpdateIInv /\ [UpdateNext]_updateVars => ParentGone'
<1> SUFFICES ASSUME UpdateIInv, UpdateNext \/ UNCHANGED updateVars PROVE ParentGone'
  BY DEF updateVars
<1> USE DEF UpdateIInv, ParentGone, ParentAlive
<1>1. CASE UNCHANGED updateVars
  BY <1>1 DEF updateVars, appVars
<1>2. CASE AppStep
  BY <1>2, AppStepKeeps
<1>3. ASSUME Starts, ~up, updater' = updater PROVE ParentGone'
  BY <1>3 DEF Starts, UpdateTypes
<1>4. CASE StartApp \/ RestoreBackup
  BY <1>3, <1>4 DEF StartApp, RestoreBackup, appVars
<1>5. CASE PowerLoss
  <2>1. ~up' /\ pid' = pid /\ \A u \in Updaters : updater'[u].parent = updater[u].parent
    BY <1>5 DEF PowerLoss, Halted, UpdateTypes
  <2> QED BY <2>1
<1>6. ASSUME NEW u \in Updaters, ApplyUpdate(u) PROVE ParentGone'
  BY <1>6 DEF ApplyUpdate, UpdateTypes, appVars, Swapping
<1>7. ASSUME NEW u \in Updaters, UpdaterStep(u) PROVE ParentGone'
  <2>1. /\ \A w \in Updaters \ {u} : updater'[w] = updater[w]
        /\ updater'[u].parent = updater[u].parent
    BY <1>7, UpdaterMoves
  <2>2. CASE WaitForExit(u)
    <3>1. UNCHANGED appVars /\ (ParentAlive(u) => updater'[u].at = "ended")
      BY <2>2 DEF WaitForExit, GivesUp, UpdaterTo, UpdateTypes
    <3> QED BY <2>1, <3>1 DEF appVars, Swapping
  <2>3. CASE Relaunch(u)
    <3>1. updater'[u].at = "ended"
      BY <2>3 DEF Relaunch, UpdaterTo, UpdateTypes
    <3>2. UNCHANGED appVars \/ (~up /\ Starts)
      BY <2>3 DEF Relaunch
    <3> QED BY <2>1, <3>1, <3>2 DEF appVars, Starts, Swapping, UpdateTypes
  <2>4. ASSUME ~WaitForExit(u), ~Relaunch(u) PROVE UNCHANGED appVars /\ updater[u].at \in Swapping
    BY <1>7, <2>4 DEF UpdaterStep, Extract, StageTree, StageCopied, ClearBackup, MoveAside, Place,
           RollBack,
                     Unchanged, Swapping
  <2> QED BY <2>1, <2>2, <2>3, <2>4 DEF appVars
<1> QED BY <1>1, <1>2, <1>4, <1>5, <1>6, <1>7, UpdateCases

\* Nothing but the background check and the user's choice touches what is
\* skipped.
LEMMA OthersKeepSkips ==
  ASSUME UpdateTypes, UpdateNext
  PROVE  \/ UNCHANGED <<skipped, choice, late, check>>
         \/ skipped' = skipped /\ check'["background"].at # "save"
         \/ skipped' = skipped /\ late' = late /\ check'["background"] = check["background"]
         \/ ReadAgain \/ SaveState \/ SaveSkip
<1>1. CASE \E c \in Checks : Ask(c) \/ Answer(c)
  BY <1>1 DEF Ask, Answer, CheckTo, UpdateTypes, Checks
<1>2. CASE AppExits \/ PowerLoss
  BY <1>2 DEF AppExits, PowerLoss, Halted, Resting, Checks
<1>3. CASE PublishRelease \/ ChooseSkip \/ StartApp \/ RestoreBackup
  BY <1>3 DEF PublishRelease, ChooseSkip, StartApp, RestoreBackup, skipVars
<1>4. ASSUME NEW d \in Downloaders, BeginDownload(d) \/ DownloadStep(d)
      PROVE  UNCHANGED skipVars
  BY <1>4 DEF BeginDownload, DownloadStep, FetchAsset, FetchSums, VerifyArchive, Downloaded
<1>5. ASSUME NEW u \in Updaters, ApplyUpdate(u) \/ UpdaterStep(u) PROVE UNCHANGED skipVars
  BY <1>5, UpdaterMoves DEF ApplyUpdate
<1> QED BY <1>1, <1>2, <1>3, <1>4, <1>5 DEF UpdateNext, skipVars

LEMMA SaveStaysCurrent == UpdateIInv /\ [UpdateNext]_updateVars => SaveCurrent'
<1> SUFFICES ASSUME UpdateIInv, UpdateNext \/ UNCHANGED updateVars PROVE SaveCurrent'
  BY DEF updateVars
<1> USE DEF UpdateIInv, SaveCurrent
<1>1. CASE UNCHANGED updateVars
  BY <1>1 DEF updateVars, skipVars
<1>2. CASE ReadAgain
  BY <1>2 DEF ReadAgain, CheckTo, Reread, UpdateTypes, Checks
<1>3. CASE SaveState
  BY <1>3 DEF SaveState, CheckTo, UpdateTypes, Checks
<1>4. CASE SaveSkip
  <2>1. UNCHANGED <<skipped, late, check>> \/ (check' = check /\ late' = (check["background"].at = "save"))
    BY <1>4 DEF SaveSkip
  <2> QED BY <2>1
<1> QED BY <1>1, <1>2, <1>3, <1>4, OthersKeepSkips

(* Whenever the user checks, downloads, skips, applies or quits, and         *)
(* wherever a step fails or the power does (frontend_api_updater.go,         *)
(* downloader.go, installer.go): the install tree is whole or its backup     *)
(* stands beside it, an updater does not touch the tree of an application    *)
(* that runs, and a dismissed version stays dismissed.                       *)
THEOREM UpdateSafeHolds == UpdateSpec => UpdateSafe
<1>1. UpdateIInv /\ [UpdateNext]_updateVars => UpdateIInv'
  BY UpdateTypesKept, ArchiveKept, AloneKept, TreesStay, ParentStaysGone,
         SaveStaysCurrent DEF UpdateIInv
<1>2. UpdateIInv => InstallKept /\ SwapAfterExit
  BY DEF UpdateIInv, TreesKept, ParentGone, InstallKept, SwapAfterExit
<1>3. UpdateIInv /\ [UpdateNext]_updateVars => [SkipHolds]_updateVars
  <2> SUFFICES ASSUME UpdateIInv, UpdateNext, skipped # 0, skipped' # skipped
               PROVE  (choice # NoChoice /\ choice' = NoChoice) \/ late
    BY DEF SkipHolds
  <2>1. CASE SaveState
    BY <2>1 DEF SaveState, UpdateIInv, SaveCurrent
  <2>2. CASE SaveSkip
    BY <2>2 DEF SaveSkip
  <2>3. CASE ReadAgain
    BY <2>3 DEF ReadAgain
  <2> QED BY <2>1, <2>2, <2>3, OthersKeepSkips DEF UpdateIInv
<1> QED BY <1>1, <1>2, <1>3, UpdateStarts, PTL DEF UpdateSpec, UpdateSafe
=============================================================================
