----------------------------- MODULE GtfsRuntime -----------------------------
(***************************************************************************)
(* Where the timetable in force comes from (gtfs_wiring.go,                 *)
(* rider/loader.go, store_gtfs_cache.go): a download at start-up, a cached  *)
(* copy of the same source when that fails, and a refresh that replaces the *)
(* index only by one that loaded cleanly.  The server may stop between any  *)
(* two steps, and be started again on another source.                       *)
(***************************************************************************)
EXTENDS Schedule

CONSTANTS Source,
          Body,       \* the zips the sources publish
          Origin,     \* Body -> Source: who publishes it
          Feed,       \* Body -> the feed in it; of a broken zip, NoCopy
          NoCopy, Down

ASSUME GtfsAssumption ==
    /\ Origin \in [Body -> Source]
    /\ DOMAIN Feed = Body
    /\ Down \notin Body

VARIABLES source,     \* GTFS_STATIC_URL of the running server
          published,  \* source -> the zip it serves now, or Down
          server,     \* "down", "starting", "up"; "failed": it refused to start
          index,      \* [source, body] of the index in force, or NoCopy
          cache,      \* the row of gtfs_feed_cache, or NoCopy
          load        \* the load under way

gtfsVars == <<source, published, server, index, cache, load>>

Good == {b \in Body : Feed[b] # NoCopy}
Copy(s, b) == [source |-> s, body |-> b]
Copies == {NoCopy} \cup {Copy(s, b) : s \in Source, b \in Body}
NoLoad == [pc |-> "idle", body |-> Down]

GtfsTypeOK ==
    /\ source \in Source
    /\ published \in [Source -> Body \cup {Down}]
    /\ server \in {"down", "starting", "up", "failed"}
    /\ index \in Copies /\ cache \in Copies
    /\ load \in [pc : {"idle", "fetched", "indexed", "saved"}, body : Body \cup {Down}]

GtfsInit ==
    /\ source \in Source
    /\ published \in [Source -> Body \cup {Down}]
    /\ \A s \in Source : published[s] # Down => Origin[published[s]] = s
    /\ server = "down" /\ index = NoCopy /\ cache = NoCopy /\ load = NoLoad

-----------------------------------------------------------------------------
\* The agency publishes another zip, or its host goes away.
Publish(s) ==
    /\ \E b \in {x \in Body : Origin[x] = s} \cup {Down} :
         published' = [published EXCEPT ![s] = b]
    /\ UNCHANGED <<source, server, index, cache, load>>

Start(s) ==
    /\ server \in {"down", "failed"}
    /\ server' = "starting" /\ source' = s
    /\ UNCHANGED <<published, index, cache, load>>

Crash ==
    /\ server \in {"starting", "up"}
    /\ server' = "down" /\ index' = NoCopy /\ load' = NoLoad
    /\ UNCHANGED <<source, published, cache>>

\* FetchFeed.
Fetch ==
    /\ server \in {"starting", "up"} /\ load.pc = "idle"
    /\ published[source] # Down
    /\ load' = [pc |-> "fetched", body |-> published[source]]
    /\ UNCHANGED <<source, published, server, index, cache>>

\* IndexFromBytes.
IndexBody ==
    /\ load.pc = "fetched" /\ load.body \in Good
    /\ load' = [load EXCEPT !.pc = "indexed"]
    /\ UNCHANGED <<source, published, server, index, cache>>

\* SaveGTFSFeed; an error is a warning, and a statement that failed may have
\* been committed all the same.
SaveFeed ==
    /\ load.pc = "indexed"
    /\ load' = [load EXCEPT !.pc = "saved"]
    /\ \/ cache' = Copy(source, load.body)
       \/ cache' = cache
    /\ UNCHANGED <<source, published, server, index>>

\* NewRefresher at start-up, the swap of RefreshNow afterwards.
Swap ==
    /\ load.pc = "saved"
    /\ index' = Copy(source, load.body)
    /\ server' = "up" /\ load' = NoLoad
    /\ UNCHANGED <<source, published, cache>>

\* The download failed, or what came does not index.
LoadFailing ==
    /\ server \in {"starting", "up"}
    /\ \/ load.pc = "idle"
       \/ load.pc = "fetched" /\ load.body \notin Good

\* (Mutant: a failed load is not given up.)
RefreshStuck ==
    /\ LoadFailing /\ server = "up" /\ load' = load
    /\ UNCHANGED <<source, published, server, index, cache>>

\* A refresh that fails keeps the index in force.
RefreshFails ==
    /\ LoadFailing /\ server = "up" /\ load' = NoLoad
    /\ UNCHANGED <<source, published, server, index, cache>>

\* (Mutant: a copy of any source will do.)
CopyOfAnySource == cache # NoCopy /\ cache.body \in Good

\* What loadCachedGTFS accepts.
UsableCopy == cache # NoCopy /\ cache.source = source /\ cache.body \in Good

StartOnCopy ==
    /\ LoadFailing /\ server = "starting" /\ UsableCopy
    /\ index' = Copy(source, cache.body)
    /\ server' = "up" /\ load' = NoLoad
    /\ UNCHANGED <<source, published, cache>>

\* No copy to fall back on, or the database cannot be read.
Refuse ==
    /\ LoadFailing /\ server = "starting"
    /\ server' = "failed" /\ load' = NoLoad
    /\ UNCHANGED <<source, published, index, cache>>

GtfsNext ==
    \/ \E s \in Source : Publish(s) \/ Start(s)
    \/ Crash \/ Fetch \/ IndexBody \/ SaveFeed \/ Swap
    \/ RefreshFails \/ StartOnCopy \/ Refuse

\* The refresh loop keeps ticking.  A download may fail any number of times,
\* but not for ever while the host is there.
GtfsFairness ==
    /\ SF_gtfsVars(Fetch)
    /\ WF_gtfsVars(IndexBody) /\ WF_gtfsVars(SaveFeed) /\ WF_gtfsVars(Swap)
    /\ WF_gtfsVars(load.pc = "fetched" /\ RefreshFails)

-----------------------------------------------------------------------------
Timetable == BuildIndex(Feed[index.body])

\* The index in force loaded cleanly and is of the source the operator named;
\* so is the cached copy, of the source it was taken from.  Neither a broken
\* download nor a copy of a feed since replaced is ever put into service.
CopyIsSound ==
    /\ cache # NoCopy => cache.body \in Good /\ Origin[cache.body] = cache.source
    /\ server = "up" => index.body \in Good /\ Origin[index.body] = source

\* Once the source keeps publishing one good zip and the server stays up, that
\* zip is the timetable, whatever broke before.
IndexCatchesUp ==
    \A b \in Good :
        <>[](published[source] = b /\ server = "up") => <>[](index = Copy(source, b))
=============================================================================
