----------------------------- MODULE SheetCache -----------------------------
(***************************************************************************)
(* The caches behind the advertising sheet of one product and period. Keys *)
(* carry the cache version of the product; a request that finds no value   *)
(* joins the load that is in flight for its key, or loads. A load reads    *)
(* the sheet, then asks for the JAM overlay, cached the same way but under *)
(* the version of that moment. Commands and syncs write the data first and *)
(* drop cached values then.                                                *)
(***************************************************************************)
EXTENDS Functions, Naturals

CONSTANTS
  Reader,     \* requests for the sheet
  MaxWrites,  \* of the data
  MaxVersion  \* how often all caches of the product are dropped

ASSUME CacheAssumption == MaxWrites \in Nat /\ MaxVersion \in Nat

VARIABLES
  data,       \* how often the sheet's tables and JAM's texts were written
  version,    \* productAdvertisingSheetCacheVersion; 0: the product has no entry
  sheets,     \* productAdvertisingSheetSnapshotCache: version -> sheet
  loading,    \* productAdvertisingSheetSnapshotInFlight: version -> who loads
  overlays,   \* productAdvertisingSheetJamCache
  overlaying, \* productAdvertisingSheetJamInFlight
  request,    \* the requests for the sheet
  promised,   \* ghost: the sheet's data when its caches were last dropped
  jamPromised \* ghost: JAM's texts when the product's own overlays were last dropped

cacheVars == <<data, version, sheets, loading, overlays, overlaying,
               request, promised, jamPromised>>

Source == {"sheet", "jam"}
Version == 0..MaxVersion
Seen == 0..MaxWrites
\* What its parts were built from; late (ghost): its load had read the tables
\* when all caches were dropped, and the product had no version to leave it behind.
Sheet == [sheet : Seen, overlay : Seen, late : BOOLEAN]
NoData == [s \in Source |-> 0]
Quiet == [step |-> "idle", key |-> 0, jamKey |-> 0, via |-> "nobody", sheet |-> 0,
          overlay |-> 0, late |-> FALSE, promised |-> 0, jamPromised |-> 0]

PartialOf(K, V) == UNION {[D -> V] : D \in SUBSET K}

CacheTypeOK ==
  /\ data \in [Source -> Seen] /\ version \in Version
  /\ sheets \in PartialOf(Version, Sheet) /\ overlays \in PartialOf(Version, Seen)
  /\ loading \in PartialOf(Version, Reader) /\ overlaying \in PartialOf(Version, Reader)
  /\ \A r \in Reader :
       /\ request[r].step \in {"idle", "query", "queried", "texts", "read", "overlaid",
                              "joinedSheet", "joinedOverlay", "answered"}
       /\ request[r].step = "joinedSheet" => \* it waits for a load in flight
            request[r].key \in DOMAIN loading /\ loading[request[r].key] = request[r].via
  /\ \A k \in DOMAIN loading : request[loading[k]].key = k
  /\ \A k \in DOMAIN overlaying :
       request[overlaying[k]].jamKey = k /\ request[overlaying[k]].step \in {"texts", "read"}
  /\ promised \in Seen /\ jamPromised \in Seen

CacheInit ==
  /\ data = NoData /\ version = 0
  /\ sheets = <<>> /\ loading = <<>> /\ overlays = <<>> /\ overlaying = <<>>
  /\ request = [r \in Reader |-> Quiet]
  /\ promised = 0 /\ jamPromised = 0

Drop(f, K) == Restrict(f, DOMAIN f \ K)
Put(f, k, v) == [x \in DOMAIN f \union {k} |-> IF x = k THEN v ELSE f[x]]

-----------------------------------------------------------------------------
\* A command, a sync, an import or JAM's sync commits.
Commit(s) ==
  /\ data[s] < MaxWrites
  /\ data' = [data EXCEPT ![s] = @ + 1]
  /\ UNCHANGED <<version, sheets, loading, overlays, overlaying, request,
                 promised, jamPromised>>

Bumped == version + 1

\* invalidateProductAdvertisingSheetCaches; loads go on under the old version.
Invalidate ==
  /\ version < MaxVersion
  /\ version' = Bumped
  /\ sheets' = <<>> /\ overlays' = <<>>
  /\ promised' = data["sheet"]
  /\ jamPromised' = data["jam"]
  /\ UNCHANGED <<data, loading, overlaying, request>>

HasRead(r) == request[r].step \in {"queried", "texts", "read", "overlaid", "joinedOverlay"}

\* clearAllFrequencyCaches: a product without an entry keeps its version, and
\* what its loads have read is stored and served as before.
ClearAll ==
  /\ version < MaxVersion
  /\ sheets' = <<>> /\ overlays' = <<>>
  /\ promised' = data["sheet"]
  /\ \/ version > 0 /\ version' = Bumped /\ UNCHANGED request
     \/ /\ version = 0 /\ UNCHANGED version
        /\ request' = [r \in Reader |-> [request[r] EXCEPT !.late = @ \/ HasRead(r)]]
  /\ UNCHANGED <<data, loading, overlaying, jamPromised>>

\* clearJamSearchTextCacheForNmId.
ClearJam ==
  /\ overlays' = <<>>
  /\ jamPromised' = data["jam"]
  /\ UNCHANGED <<data, version, sheets, loading, overlaying, request, promised>>

\* The time to live is over, or the map is full.
Expire ==
  /\ \/ \E k \in DOMAIN sheets : sheets' = Drop(sheets, {k}) /\ UNCHANGED overlays
     \/ \E k \in DOMAIN overlays : overlays' = Drop(overlays, {k}) /\ UNCHANGED sheets
  /\ UNCHANGED <<data, version, loading, overlaying, request, promised, jamPromised>>

-----------------------------------------------------------------------------
\* The sheet a load has put together.
Built(r) == [sheet |-> request[r].sheet, overlay |-> request[r].overlay, late |-> request[r].late]

\* The request R, with that sheet as its answer.
WithSheet(R, built) ==
  [Quiet EXCEPT !.step = "answered", !.sheet = built.sheet, !.overlay = built.overlay,
                !.late = built.late, !.promised = R.promised, !.jamPromised = R.jamPromised]

\* Answers r and everyone who joined its load.
Answered(r) ==
  [x \in Reader |->
     IF x = r \/ (request[x].step = "joinedSheet" /\ request[x].via = r)
     THEN WithSheet(request[x], Built(r)) ELSE request[x]]

\* getOrLoadProductAdvertisingSheetSnapshot.
AskSheet(r) ==
  LET asks == [Quiet EXCEPT !.key = version, !.promised = promised, !.jamPromised = jamPromised]
  IN  /\ request[r].step \in {"idle", "answered"}
      /\ \/ /\ version \in DOMAIN sheets
            /\ request' = [request EXCEPT ![r] = WithSheet(asks, sheets[version])]
            /\ UNCHANGED loading
         \/ /\ version \in DOMAIN loading \ DOMAIN sheets
            /\ request' = [request EXCEPT ![r] = [asks EXCEPT
                 !.step = "joinedSheet", !.via = loading[version]]]
            /\ UNCHANGED loading
         \/ /\ version \notin DOMAIN loading \union DOMAIN sheets
            /\ request' = [request EXCEPT ![r] = [asks EXCEPT !.step = "query"]]
            /\ loading' = Put(loading, version, r)
      /\ UNCHANGED <<data, version, sheets, overlays, overlaying,
                     promised, jamPromised>>

QuerySheet(r) ==
  /\ request[r].step = "query"
  /\ request' = [request EXCEPT ![r].step = "queried", ![r].sheet = data["sheet"]]
  /\ UNCHANGED <<data, version, sheets, loading, overlays, overlaying,
                 promised, jamPromised>>

\* getOrLoadProductAdvertisingSheetJamOverlay, for the sheet just read.
AskOverlay(r) ==
  /\ request[r].step = "queried"
  /\ \/ /\ version \in DOMAIN overlays
        /\ request' = [request EXCEPT ![r].step = "overlaid", ![r].overlay = overlays[version]]
        /\ UNCHANGED overlaying
     \/ /\ version \in DOMAIN overlaying \ DOMAIN overlays
        /\ request' = [request EXCEPT ![r].step = "joinedOverlay", ![r].via = overlaying[version]]
        /\ UNCHANGED overlaying
     \/ /\ version \notin DOMAIN overlaying \union DOMAIN overlays
        /\ request' = [request EXCEPT ![r].step = "texts", ![r].jamKey = version]
        /\ overlaying' = Put(overlaying, version, r)
  /\ UNCHANGED <<data, version, sheets, loading, overlays, promised, jamPromised>>

QueryTexts(r) ==
  /\ request[r].step = "texts"
  /\ request' = [request EXCEPT ![r].step = "read", ![r].overlay = data["jam"]]
  /\ UNCHANGED <<data, version, sheets, loading, overlays, overlaying,
                 promised, jamPromised>>

StoreOverlay(r) ==
  LET overlay == request[r].overlay IN
  /\ request[r].step = "read"
  /\ overlays' = Put(overlays, request[r].jamKey, overlay)
  /\ overlaying' = Drop(overlaying, {request[r].jamKey})
  /\ request' = [x \in Reader |->
       IF x = r \/ (request[x].step = "joinedOverlay" /\ request[x].via = r)
       THEN [request[x] EXCEPT !.step = "overlaid", !.overlay = overlay] ELSE request[x]]
  /\ UNCHANGED <<data, version, sheets, loading, promised, jamPromised>>

\* Faulty variant: it is stored for the product as it is now.
StoreKey_Now(r) == version

\* The key the load began with.
StoreKey(r) == request[r].key

StoreSheet(r) ==
  /\ request[r].step = "overlaid"
  /\ sheets' = Put(sheets, StoreKey(r), Built(r))
  /\ loading' = Drop(loading, {request[r].key})
  /\ request' = Answered(r)
  /\ UNCHANGED <<data, version, overlays, overlaying, promised, jamPromised>>

\* The finally blocks.
Landing(fails) == Drop(loading, {k \in DOMAIN loading : loading[k] \in fails})

\* A query throws: the load and everyone waiting for it fail.
LoadFails(r) ==
  /\ request[r].step \in {"query", "texts"}
  /\ LET broken == {r} \union {x \in Reader : request[x].step \in {"joinedSheet", "joinedOverlay"}
                                             /\ request[x].via = r}
         fails == broken \union {x \in Reader : \E b \in broken :
                                   request[x].step = "joinedSheet" /\ request[x].via = b}
     IN  /\ request' = [x \in Reader |-> IF x \in fails THEN Quiet ELSE request[x]]
         /\ loading' = Landing(fails)
         /\ overlaying' = Drop(overlaying, {k \in DOMAIN overlaying : overlaying[k] \in fails})
  /\ UNCHANGED <<data, version, sheets, overlays, promised, jamPromised>>

CacheNext ==
  \/ \E s \in Source : Commit(s)
  \/ Invalidate \/ ClearAll \/ ClearJam \/ Expire
  \/ \E r \in Reader :
       \/ AskSheet(r) \/ QuerySheet(r) \/ AskOverlay(r) \/ QueryTexts(r)
       \/ StoreOverlay(r) \/ StoreSheet(r) \/ LoadFails(r)

CacheSpec == CacheInit /\ [][CacheNext]_cacheVars

-----------------------------------------------------------------------------
\* A request sees every write that was committed when the product's caches were
\* last dropped before it began, by a command, a warm-up or an import
\* (mutations.ts:140, 298-299; wb-clusters.service.ts:459-464), whatever loads
\* were in flight then and whoever they answer.  Named exception: a load that
\* had read when an import dropped the caches of a product without a version.
DropsAreSeen ==
  \A r \in Reader :
    request[r].step = "answered" =>
      request[r].sheet >= request[r].promised \/ request[r].late

\* What the comment at wb-clusters-sync-flow.phase.jam.ts:162-163 says: when the
\* overlays are dropped the next sheet read has the fresh search texts.
NextReadHasTexts ==
  \A r \in Reader :
    request[r].step = "answered" => request[r].overlay >= request[r].jamPromised
=============================================================================
