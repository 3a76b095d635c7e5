---------------------------- MODULE TokenRefresher ----------------------------
(***************************************************************************)
(* How the iOS driver app keeps its driver signed in: the one refresher all *)
(* its requests share (TokenRefresher.swift), the requests before and after *)
(* they meet it (TrackerClient.swift), and signing in and out               *)
(* (TripSession.swift).  An action is what runs on the refresher's actor    *)
(* from one await to the next, or, where that looks at the keychain and     *)
(* writes it, up to the look and then up to the write: signing in and out   *)
(* write the same keychain on the main actor and may come between.          *)
(*                                                                          *)
(* Pair n is the n-th access token handed out with the refresh token beside *)
(* it.  The server is what RefreshTokens shows of it: a token is exchanged  *)
(* once, and presenting it again ends every session of the driver.          *)
(***************************************************************************)
EXTENDS Integers, Sequences

CONSTANTS Caller,       \* requests of the app at a time
          MaxPairs,   \* bound on the pairs handed out
          MaxStrays   \* bound on the requests given up on and still on their way

ASSUME RefresherAssumption == MaxPairs \in Nat \ {0} /\ MaxStrays \in Nat

VARIABLES minted,     \* pair -> its session, the first pair of it
          live,       \* refresh tokens stored unused
          spent,      \* refresh tokens stored as used
          over,       \* access tokens that have expired
          store,      \* the keychain: a pair, or NoPair
          signing,    \* the pair of a sign-in that was answered, or NoToken
          trade,      \* inFlight, with the token it presents and the reply
          stray,      \* refresh tokens on their way with nobody waiting for the reply
          call,       \* request -> how far it has come
          signedInAs, \* history: the session of the last sign-in that was saved
          overtaken,  \* history: the last of these, or sign-out, fell between the
                      \* refresher's look at the keychain and its write
          doubtful,   \* history: tokens the app presented without keeping what came of it
          accused     \* history: one of the others was taken for reused

appVars == <<minted, live, spent, over, store, signing, trade, stray, call,
             signedInAs, overtaken, doubtful, accused>>

NoToken == 0
NoPair == [access |-> NoToken, refresh |-> NoToken]
Pair(n) == [access |-> n, refresh |-> n]
NoTrade == [pc |-> "idle"]
NotCalling == [pc |-> "idle"]

Pairs == 1 .. Len(minted)
Strays == DOMAIN stray

AppInit ==
    /\ minted = <<>> /\ over = {}
    /\ live = {} /\ spent = {}
    /\ store = NoPair /\ signing = NoToken /\ trade = NoTrade /\ stray = <<>>
    /\ call = [c \in Caller |-> NotCalling]
    /\ signedInAs = NoToken /\ overtaken = FALSE /\ doubtful = {} /\ accused = FALSE

\* The trade has brought a pair, which is not written yet.
Renewal == trade.pc \in {"answered", "saving", "clearing"} /\ trade.new # NoToken

\* Nobody is on the refresher's actor between its look at the keychain and its
\* write, so the actor takes the next.
ActorFree ==
    /\ trade.pc \notin {"saving", "clearing"}
    /\ \A c \in Caller : call[c].pc # "dropping"

-----------------------------------------------------------------------------
(* The server.                                                              *)

Mint(session) ==
    /\ Len(minted) < MaxPairs
    /\ minted' = Append(minted, session)

\* handleRefreshToken of token t; the answer is the new pair, or NoToken for 401.
Redeem(t) ==
    \/ /\ t \in live /\ Mint(minted[t])
       /\ live' = (live \ {t}) \cup {Len(minted')} /\ spent' = spent \cup {t}
       /\ UNCHANGED accused
    \/ /\ t \in spent
       /\ live' = {} /\ spent' = {}
       /\ accused' = (accused \/ t \notin doubtful)
       /\ UNCHANGED minted
    \/ /\ t \notin live \cup spent
       /\ UNCHANGED <<minted, live, spent, accused>>

Renewed(t) == IF t \in live THEN Len(minted') ELSE NoToken

\* The request of the trade is handled and its reply arrives.
AnswerTrade ==
    /\ trade.pc = "asking" /\ Redeem(trade.token)
    /\ trade' = [pc |-> "answered", token |-> trade.token, new |-> Renewed(trade.token)]
    /\ UNCHANGED <<over, store, signing, stray, call, signedInAs, overtaken, doubtful>>

\* No usable answer: the request did not arrive, was turned away with 429 or
\* 5xx, is still on its way, or was handled and the reply was lost.
LoseTrade ==
    /\ trade.pc = "asking"
    /\ trade' = [pc |-> "unreachable", token |-> trade.token]
    /\ \/ UNCHANGED <<minted, live, spent, stray, doubtful, accused>>
       \/ /\ Len(stray) < MaxStrays /\ stray' = Append(stray, trade.token)
          /\ doubtful' = doubtful \cup {trade.token}
          /\ UNCHANGED <<minted, live, spent, accused>>
       \/ /\ Redeem(trade.token)
          /\ doubtful' = IF trade.token \in live THEN doubtful \cup {trade.token} ELSE doubtful
          /\ UNCHANGED stray
    /\ UNCHANGED <<over, store, signing, call, signedInAs, overtaken>>

StrayArrives(i) ==
    /\ Redeem(stray[i])
    /\ stray' = SubSeq(stray, 1, i - 1) \o SubSeq(stray, i + 1, Len(stray))
    /\ UNCHANGED <<over, store, signing, trade, call, signedInAs, overtaken, doubtful>>

\* Deactivation or a new password; a refresh token runs out.
RevokeDriver ==
    /\ live # {} /\ live' = {} /\ spent' = {}
    /\ UNCHANGED <<minted, over, store, signing, trade, stray, call, signedInAs, overtaken,
                   doubtful, accused>>

RefreshTokenExpires(t) ==
    /\ t \in live /\ live' = live \ {t}
    /\ UNCHANGED <<minted, spent, over, store, signing, trade, stray, call, signedInAs,
                   overtaken, doubtful, accused>>

\* An access token outlives the sign-in that brings it, and a refresh that was
\* under way when it was saved.  (One that nobody will send need not run out.)
AccessTokenExpires(n) ==
    /\ n \notin over /\ n # signing
    /\ n = store.access \/ \E c \in Caller : call[c].pc \in {"early", "sent"} /\ call[c].token = n
    /\ trade # NoTrade => n # store.access \/ n = trade.token
    /\ over' = over \cup {n}
    /\ UNCHANGED <<minted, live, spent, store, signing, trade, stray, call, signedInAs,
                   overtaken, doubtful, accused>>

-----------------------------------------------------------------------------
(* Signing in and out.                                                      *)

\* POST /login.
LoginAnswered ==
    /\ signing = NoToken
    /\ Mint(Len(minted) + 1)
    /\ live' = live \cup {Len(minted')}
    /\ signing' = Len(minted')
    /\ UNCHANGED <<spent, over, store, trade, stray, call, signedInAs, overtaken, doubtful,
                   accused>>

\* signIn goes on.  If the reply was lost or the keychain refuses the pair, it
\* keeps what it has.
SaveSignIn ==
    /\ signing # NoToken /\ signing' = NoToken
    /\ \/ store' = Pair(signing) /\ signedInAs' = minted[signing]
          /\ overtaken' = ~ActorFree
       \/ UNCHANGED <<store, signedInAs, overtaken>>
    /\ UNCHANGED <<minted, live, spent, over, trade, stray, call, doubtful, accused>>

\* signOut.
ForgetTokens ==
    /\ store # NoPair /\ store' = NoPair
    /\ signedInAs' = NoToken /\ overtaken' = ~ActorFree
    /\ UNCHANGED <<minted, live, spent, over, signing, trade, stray, call, doubtful, accused>>

\* The app dies and starts again.  A trade's request may still arrive; of one
\* that was answered the new pair is lost.
LaunchAgain ==
    /\ trade' = NoTrade /\ signing' = NoToken
    /\ call' = [c \in Caller |-> NotCalling]
    /\ stray' \in {stray} \cup (IF trade.pc = "asking" /\ Len(stray) < MaxStrays
                                THEN {Append(stray, trade.token)} ELSE {})
    /\ doubtful' = IF stray' # stray \/ Renewal
                   THEN doubtful \cup {trade.token} ELSE doubtful
    /\ UNCHANGED <<minted, live, spent, over, store, signedInAs, overtaken, accused>>

-----------------------------------------------------------------------------
(* A request of the app.                                                    *)

\* Whether the stored token is due is up to the phone's clock: it may be at any
\* time before it expires, and is from then on.
MayBeDue == store.refresh # NoToken
MayBeEarly == store.refresh = NoToken \/ store.access \notin over

Sent(token, again) == [pc |-> "sent", token |-> token, again |-> again]

\* send: the token is read before the refresher is asked about it.
Send(c) ==
    /\ call[c] = NotCalling /\ store # NoPair
    /\ \/ MayBeDue /\ call' = [call EXCEPT ![c] = [pc |-> "early", token |-> store.access]]
       \/ MayBeEarly /\ call' = [call EXCEPT ![c] = Sent(store.access, FALSE)]
    /\ UNCHANGED <<minted, live, spent, over, store, signing, trade, stray, signedInAs,
                   overtaken, doubtful, accused>>

\* perform, and what becomes of the answer: a second 401 is the caller's.
Performed(c) ==
    /\ call[c].pc = "sent"
    /\ call' = [call EXCEPT ![c] =
                  IF @.token \in over /\ ~@.again THEN [pc |-> "turned", token |-> @.token]
                  ELSE NotCalling]
    /\ UNCHANGED <<minted, live, spent, over, store, signing, trade, stray, signedInAs,
                   overtaken, doubtful, accused>>

\* Join the trade in flight, or begin one with the stored token.  Kept is the
\* access token to go on with, or the refresh token to drop.
Joined(c) ==
    [pc |-> "joined", early |-> call[c].pc = "early", outcome |-> "none", new |-> NoToken,
     kept |-> IF call[c].pc = "early" THEN call[c].token ELSE store.refresh]

Trade(c) ==
    /\ call' = [call EXCEPT ![c] = Joined(c)]
    /\ trade' = IF trade = NoTrade THEN [pc |-> "asking", token |-> store.refresh] ELSE trade

\* beforeExpiry.  The token stays as it was if the store cannot be read or is
\* empty by now, or if no refresh is due any more.
BeforeExpiry(c) ==
    /\ ActorFree /\ call[c].pc = "early"
    /\ LET observed == call[c].token
       IN \/ call' = [call EXCEPT ![c] = Sent(observed, FALSE)] /\ UNCHANGED trade
          \/ /\ store # NoPair /\ store.access # observed
             /\ call' = [call EXCEPT ![c] = Sent(store.access, FALSE)] /\ UNCHANGED trade
          \/ store.access = observed /\ (trade # NoTrade \/ MayBeDue) /\ Trade(c)
    /\ UNCHANGED <<minted, live, spent, over, store, signing, stray, signedInAs, overtaken,
                   doubtful, accused>>

\* afterUnauthorized.
AfterUnauthorized(c) ==
    /\ ActorFree /\ call[c].pc = "turned"
    /\ LET failed == call[c].token
       IN \/ call' = [call EXCEPT ![c] = NotCalling] /\ UNCHANGED trade   \* unreadable, or refused
          \/ /\ store # NoPair /\ store.access # failed
             /\ call' = [call EXCEPT ![c] = Sent(store.access, TRUE)] /\ UNCHANGED trade
          \/ store.access = failed /\ (trade # NoTrade \/ store.refresh # NoToken) /\ Trade(c)
    /\ UNCHANGED <<minted, live, spent, over, store, signing, stray, signedInAs, overtaken,
                   doubtful, accused>>

-----------------------------------------------------------------------------
(* The end of a trade.                                                      *)

\* (Mutant: the pair is saved over whatever is stored.)
KeepsAny(t) == store # NoPair

\* save looks: a sign-in or a sign-out meanwhile has replaced the session.
Keeps(t) == store # NoPair /\ store.refresh = t

\* trade returns: whoever waits for it has the outcome.
Finish(outcome, new) ==
    /\ trade' = NoTrade
    /\ call' = [c \in Caller |->
                  IF call[c].pc = "joined" /\ call[c].outcome = "none"
                  THEN [call[c] EXCEPT !.outcome = outcome, !.new = new]
                  ELSE call[c]]

\* There is nothing to save, or it is not wanted any more.
TradeEnds ==
    /\ ActorFree
    /\ \/ trade.pc = "unreachable" /\ Finish("unreachable", NoToken)
       \/ trade.pc = "answered" /\ trade.new = NoToken /\ Finish("refused", NoToken)
       \/ trade.pc = "answered" /\ Renewal /\ ~Keeps(trade.token) /\ Finish("retry", trade.new)
    /\ UNCHANGED <<minted, live, spent, over, store, signing, stray, signedInAs, overtaken,
                   doubtful, accused>>

\* save has looked: the session is the one that was renewed, or the keychain
\* cannot be read and is to be cleared.
TradeChecks ==
    /\ ActorFree /\ trade.pc = "answered" /\ Renewal
    /\ \/ Keeps(trade.token) /\ trade' = [trade EXCEPT !.pc = "saving"]
       \/ trade' = [trade EXCEPT !.pc = "clearing"]
    /\ UNCHANGED <<minted, live, spent, over, store, signing, stray, call, signedInAs,
                   overtaken, doubtful, accused>>

\* save writes, over whatever is stored by now; or cannot.
TradeSaves ==
    /\ trade.pc = "saving"
    /\ \/ /\ store' = Pair(trade.new) /\ Finish("retry", trade.new)
       \/ /\ trade' = [trade EXCEPT !.pc = "clearing"]
          /\ UNCHANGED <<store, call>>
    /\ UNCHANGED <<minted, live, spent, over, signing, stray, signedInAs, overtaken,
                   doubtful, accused>>

\* save clears what it could not read or write.  If that fails as well the
\* keychain keeps what it holds, perhaps the token that was spent.
TradeClears ==
    /\ trade.pc = "clearing"
    /\ store' \in {NoPair, store}
    /\ doubtful' = IF store'.refresh = trade.token THEN doubtful \cup {trade.token} ELSE doubtful
    /\ Finish("retry", trade.new)
    /\ UNCHANGED <<minted, live, spent, over, signing, stray, signedInAs, overtaken, accused>>

\* A request that waited goes on.  Only the 401 of an access token that failed
\* drops a refused refresh token, if it looks to be the one stored.
GoOn(c) ==
    /\ ActorFree /\ call[c].pc = "joined" /\ call[c].outcome # "none"
    /\ LET w == call[c]
           drop == ~w.early /\ w.outcome = "refused" /\ w.kept # NoToken /\ store.refresh = w.kept
           next == CASE w.outcome = "retry" -> Sent(w.new, ~w.early)
                     [] w.outcome # "retry" /\ w.early -> Sent(w.kept, FALSE)
                     [] OTHER -> NotCalling
       IN \/ drop /\ call' = [call EXCEPT ![c] = [pc |-> "dropping", token |-> store.access]]
          \/ call' = [call EXCEPT ![c] = next]
    /\ UNCHANGED <<minted, live, spent, over, store, signing, trade, stray, signedInAs,
                   overtaken, doubtful, accused>>

\* dropRefreshToken writes back what it read, without the refresh token, over
\* whatever is stored by now; or cannot.
Drop(c) ==
    /\ call[c].pc = "dropping" /\ call' = [call EXCEPT ![c] = NotCalling]
    /\ store' \in {[access |-> call[c].token, refresh |-> NoToken], store}
    /\ UNCHANGED <<minted, live, spent, over, signing, trade, stray, signedInAs, overtaken,
                   doubtful, accused>>

AppNext ==
    \/ AnswerTrade \/ LoseTrade \/ RevokeDriver
    \/ TradeEnds \/ TradeChecks \/ TradeSaves \/ TradeClears
    \/ LoginAnswered \/ SaveSignIn \/ ForgetTokens \/ LaunchAgain
    \/ \E i \in Strays : StrayArrives(i)
    \/ \E n \in Pairs : AccessTokenExpires(n) \/ RefreshTokenExpires(n)
    \/ \E c \in Caller :
         Send(c) \/ Performed(c) \/ BeforeExpiry(c) \/ AfterUnauthorized(c)
         \/ GoOn(c) \/ Drop(c)

-----------------------------------------------------------------------------
\* The server takes a token for reused only if an earlier reply to it never
\* reached the keychain, however many requests meet an expired token at once.
\* It stays in the session of its last sign-in, whatever older refreshes are
\* answered, unless that sign-in or a sign-out fell between the refresher's look at
\* the keychain and its write; and whatever session is stored, it can be renewed
\* until the server ends it.
AppStaysSignedIn ==
    /\ ~accused
    /\ store # NoPair =>
         /\ overtaken \/ minted[store.access] = signedInAs
         /\ \/ store.refresh \in live \cup doubtful
            \/ \A n \in live : minted[n] # minted[store.access]
            \/ trade # NoTrade /\ trade.token = store.refresh

\* What save says of itself: after a sign-in or a sign-out while a refresh was
\* out, the newer session is kept (TokenRefresher.swift:139).
NewerSessionIsKept ==
    store # NoPair => minted[store.access] = signedInAs
=============================================================================
