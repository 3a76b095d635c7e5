---------------------------- MODULE TrustedFeeds ----------------------------
(***************************************************************************)
(* The poller of the agency's own GTFS-realtime feeds (rider/trusted.go).   *)
(* Every feed is asked with the validator of its last answer; an answer     *)
(* "not modified", or none at all, leaves its vehicles where they are.      *)
(* The vehicles are those of one trip, under its key with a start date and  *)
(* its key without, each with the time of its position.                     *)
(***************************************************************************)
EXTENDS Integers, FiniteSets, Sequences

CONSTANTS Feeds,       \* the configured feeds, 1 .. n in the order of the list
          Contents,    \* feed -> the successive vehicle tables it publishes
          Tagged,      \* the feeds that send an ETag
          TrustedMaxAge,  \* how old a position may be for Lookup
          TrustedMaxTime  \* bound on the clock

Key == {"dated", "undated"}
TripTable == UNION {[D -> 0 .. TrustedMaxTime] : D \in SUBSET Key}
NoTag == 0             \* no validator: the request is unconditional

ASSUME TrustedAssumption ==
    /\ IsFiniteSet(Feeds) /\ Feeds \subseteq Nat \ {0} /\ Tagged \subseteq Feeds
    /\ \A i \in Feeds : Contents[i] \in Seq(TripTable) \ {<<>>}
    /\ TrustedMaxAge \in Nat /\ TrustedMaxTime \in Nat \ {0}

VARIABLES clock,
          version,     \* feed -> which of its tables it publishes now
          state,       \* feed -> the etag and vehicles kept of it (feedState)
          poll         \* feed -> how far the poll under way has come with it

trustedVars == <<clock, version, state, poll>>

Idle == [pc |-> "idle"]
Polling == {Idle} \cup [pc : {"asking"}, etag : Nat] \cup [pc : {"unmodified", "failed"}]
             \cup [pc : {"answered"}, vehicles : TripTable, etag : Nat]
Published(i) == Contents[i][version[i]]

TrustedInit ==
    /\ clock = 1
    /\ version = [i \in Feeds |-> 1]
    /\ state = [i \in Feeds |-> [etag |-> NoTag, vehicles |-> <<>>]]
    /\ poll = [i \in Feeds |-> Idle]

-----------------------------------------------------------------------------
\* The agency publishes the next table; time passes.
PublishTable(i) ==
    /\ version[i] < Len(Contents[i])
    /\ version' = [version EXCEPT ![i] = @ + 1]
    /\ UNCHANGED <<clock, state, poll>>

TrustedTick ==
    /\ clock < TrustedMaxTime /\ clock' = clock + 1
    /\ UNCHANGED <<version, state, poll>>

\* Poll: all feeds at once, and none again before every one is done.
BeginPoll ==
    /\ \A i \in Feeds : poll[i].pc = "idle"
    /\ poll' = [i \in Feeds |-> [pc |-> "asking", etag |-> state[i].etag]]
    /\ UNCHANGED <<clock, version, state>>

\* fetch: the host compares the validator with the one of its present table.
Answer(i) ==
    /\ poll[i].pc = "asking"
    /\ poll' = [poll EXCEPT ![i] =
                  IF poll[i].etag # NoTag /\ poll[i].etag = version[i]
                  THEN [pc |-> "unmodified"]
                  ELSE [pc |-> "answered", vehicles |-> Published(i),
                        etag |-> IF i \in Tagged THEN version[i] ELSE NoTag]]
    /\ UNCHANGED <<clock, version, state>>

\* No answer in time, another status, or a body that does not decode.
NoAnswer(i) ==
    /\ poll[i].pc = "asking"
    /\ poll' = [poll EXCEPT ![i] = [pc |-> "failed"]]
    /\ UNCHANGED <<clock, version, state>>

\* (Mutant: the validators are noted before the failure is looked at.)
KeepTagFirst(i) ==
    /\ poll[i].pc \in {"unmodified", "answered", "failed"}
    /\ poll' = [poll EXCEPT ![i] = Idle]
    /\ state' = CASE poll[i].pc = "answered" ->
                      [state EXCEPT ![i] = [etag |-> poll[i].etag, vehicles |-> poll[i].vehicles]]
                  [] poll[i].pc = "failed" -> [state EXCEPT ![i].etag = version[i]]
                  [] OTHER -> state
    /\ UNCHANGED <<clock, version>>

\* The end of pollOne, under the lock.
Keep(i) ==
    /\ poll[i].pc \in {"unmodified", "answered", "failed"}
    /\ poll' = [poll EXCEPT ![i] = Idle]
    /\ state' = IF poll[i].pc = "answered"
                THEN [state EXCEPT ![i] = [etag |-> poll[i].etag, vehicles |-> poll[i].vehicles]]
                ELSE state
    /\ UNCHANGED <<clock, version>>

TrustedNext ==
    \/ \E i \in Feeds : PublishTable(i) \/ Answer(i) \/ NoAnswer(i) \/ Keep(i)
    \/ BeginPoll \/ TrustedTick

-----------------------------------------------------------------------------
FreshIn(i, key) == key \in DOMAIN state[i].vehicles /\ clock - state[i].vehicles[key] <= TrustedMaxAge

\* (Mutant: the last feed that carries the trip is asked for its age.)
LookupInLast(key) ==
    LET holders == {i \in Feeds : key \in DOMAIN state[i].vehicles}
        last == CHOOSE i \in holders : \A j \in holders : j <= i
    IN IF holders # {} /\ FreshIn(last, key) THEN {state[last].vehicles[key]} ELSE {}

\* lookupLocked: the later-configured feed wins.
LookupIn(key) ==
    LET holders == {i \in Feeds : FreshIn(i, key)}
    IN IF holders = {} THEN {}
       ELSE {state[CHOOSE i \in holders : \A j \in holders : j <= i].vehicles[key]}

\* Lookup of the trip on its date.
Lookup == IF LookupIn("dated") # {} THEN LookupIn("dated") ELSE LookupIn("undated")

\* Every feed is asked again and again, and a request ends, if only by its
\* time-out; those of Working are not for ever out of reach.
TrustedFairness(Working) ==
    /\ WF_trustedVars(BeginPoll)
    /\ \A i \in Feeds : WF_trustedVars(Answer(i) \/ NoAnswer(i)) /\ WF_trustedVars(Keep(i))
    /\ \A i \in Working : SF_trustedVars(Answer(i))

-----------------------------------------------------------------------------
\* The vehicles kept beside a validator are those the agency published under
\* it, so that "not modified" is true of them; and what a failing feed left
\* behind to grow old never hides a fresh position of another feed.
FailureHidesNothing ==
    /\ \A i \in Feeds :
         state[i].etag # NoTag => state[i].vehicles = Contents[i][state[i].etag]
    /\ (\E i \in Feeds, key \in Key : FreshIn(i, key)) =>
         \E at \in Lookup : clock - at <= TrustedMaxAge
=============================================================================
