------------------------------- MODULE AssetCache -------------------------------
(***************************************************************************)
(* Stored images and fonts, and what is kept of them in memory: dithered     *)
(* rasters and parsed faces (lib/assets/asset-service.ts).                  *)
(*                                                                         *)
(* A caller reads the revision of its asset (id and updatedAt), looks in the *)
(* cache, and on a miss reads the bytes later and keeps what it made of     *)
(* them.  Callers that miss together share one derivation of a raster, each  *)
(* parses its own face.  Writes check first and are checked again by the     *)
(* database, so each is one step.  Left out: the paper width, which is one   *)
(* more part of the key, names (a caller may mean any asset), and the       *)
(* pixels: what is stored is a version number, and its size a choice.       *)
(***************************************************************************)
EXTENDS Integers, Sequences

CONSTANTS
    Assets,      \* ids there may be; a deleted one never comes back
    Fonts,       \* those of them that are fonts
    Callers,     \* calls of rasterFor and fontFace at one time
    Caps,        \* values of assets.rasterCacheMb
    MaxFaces,    \* MAX_CACHED_FACES
    MaxWrites,   \* bound: versions of bytes
    MaxClock     \* bound: milliseconds

ASSUME CapsAssumption == Caps \subseteq Nat /\ Caps # {} /\ MaxFaces \in Nat

VARIABLES
    asset,     \* the Asset rows: updatedAt and the bytes' version, or None, or Deleted
    clock,     \* milliseconds
    written,   \* versions there have been
    cache,     \* the entries, least recently used first: the rasters' and the faces'
    bytes,     \* rasterCache.bytes
    inFlight,  \* of each key being derived, whose promise it is
    caller,    \* where each call is, its asset and key, what it saw and what it got
    doubled    \* history: assets whose bytes changed within the millisecond of another write

assetVars == <<asset, clock, written, cache, bytes, inFlight, caller, doubled>>

NoAsset == [there |-> FALSE, stamp |-> 0, data |-> 0]
Uncalled    == [at |-> "idle", key |-> <<>>, saw |-> 0, got |-> 0]

AssetInit ==
    /\ asset = [a \in Assets |-> NoAsset] /\ clock = 1 /\ written = 0
    /\ cache = [image |-> <<>>, font |-> <<>>] /\ bytes = 0 /\ inFlight = {}
    /\ caller = [c \in Callers |-> Uncalled] /\ doubled = {}

Kind(a)  == IF a \in Fonts THEN "font" ELSE "image"
SizeOf(data) == 1 + (data % 2)

(***************************************************************************)
(* The rows                                                                 *)
(***************************************************************************)

Wrote(a, data) == asset' = [asset EXCEPT ![a] = [there |-> TRUE, stamp |-> clock, data |-> data]]
CachesKept     == UNCHANGED <<clock, cache, bytes, inFlight, caller>>

\* store, storeFont
Store(a) ==
    /\ asset[a] = NoAsset /\ written < MaxWrites /\ written' = written + 1
    /\ Wrote(a, written + 1) /\ UNCHANGED doubled /\ CachesKept

\* put: the bytes change, the kind cannot.
Put(a) ==
    /\ asset[a].there /\ written < MaxWrites /\ written' = written + 1
    /\ Wrote(a, written + 1) /\ CachesKept
    /\ doubled' = IF asset[a].stamp = clock THEN doubled \cup {a} ELSE doubled

\* renameAsset moves updatedAt too.
RenameAsset(a) ==
    asset[a].there /\ Wrote(a, asset[a].data) /\ UNCHANGED <<written, doubled>> /\ CachesKept

DeleteAsset(a) ==
    /\ asset[a].there /\ asset' = [asset EXCEPT ![a].there = FALSE]
    /\ UNCHANGED <<written, doubled>> /\ CachesKept

Tock ==
    /\ clock < MaxClock /\ clock' = clock + 1
    /\ UNCHANGED <<asset, written, cache, bytes, inFlight, caller, doubled>>

(***************************************************************************)
(* The caches                                                               *)
(***************************************************************************)

\* The mutant: the key is the asset.
MistakeKeyOf(a) == <<a, 0>>

KeyOf(a) == <<a, asset[a].stamp>>

Cached(k, key) == \E i \in DOMAIN cache[k] : cache[k][i].key = key

\* Map.delete.
Dropped(s, i) == SubSeq(s, 1, i - 1) \o SubSeq(s, i + 1, Len(s))

\* rasterFor, fontFace: the revision, and with no await after it the lookup.  A
\* hit becomes the most recently used.
LookUpAsset(c, a) ==
    LET k   == Kind(a)
        key == KeyOf(a)
        new == [at |-> "read", key |-> key, saw |-> asset[a].data, got |-> 0]
    IN
    /\ caller[c].at \in {"idle", "over"} /\ asset[a].there
    /\ \/ \E i \in DOMAIN cache[k] :
             /\ cache[k][i].key = key
             /\ caller' = [caller EXCEPT ![c] = [new EXCEPT !.at = "over", !.got = cache[k][i].data]]
             /\ cache' = [cache EXCEPT ![k] = Append(Dropped(@, i), @[i])]
             /\ UNCHANGED inFlight
       \/ /\ ~Cached(k, key) /\ UNCHANGED cache
          /\ IF k = "font" THEN caller' = [caller EXCEPT ![c] = new] /\ UNCHANGED inFlight
             ELSE IF \E f \in inFlight : f.key = key
             THEN caller' = [caller EXCEPT ![c] = [new EXCEPT !.at = "wait"]] /\ UNCHANGED inFlight
             ELSE /\ caller' = [caller EXCEPT ![c] = new]
                  /\ inFlight' = inFlight \cup {[key |-> key, by |-> c]}
    /\ UNCHANGED <<asset, clock, written, bytes, doubled>>

\* The promise is settled: whoever waits on it has its answer, and its key is free.
Settled(c, got) ==
    LET with == IF [key |-> caller[c].key, by |-> c] \in inFlight
                THEN {d \in Callers : caller[d].at = "wait" /\ caller[d].key = caller[c].key} ELSE {}
    IN
    /\ caller' = [d \in Callers |-> IF d \in with \cup {c}
                                    THEN [caller[d] EXCEPT !.at = "over", !.got = got] ELSE caller[d]]
    /\ inFlight' = {f \in inFlight : f.by # c}

\* derive, fontFace: the bytes, read after the revision.
ReadBytes(c) ==
    LET a == caller[c].key[1] IN
    /\ caller[c].at = "read"
    /\ IF asset[a].there
       THEN /\ caller' = [caller EXCEPT ![c].at = "keep", ![c].got = asset[a].data]
            /\ UNCHANGED inFlight
       ELSE Settled(c, 0)
    /\ UNCHANGED <<asset, clock, written, cache, bytes, doubled>>

\* A decode or a read that throws.
DeriveFails(c) ==
    /\ caller[c].at \in {"read", "keep"} /\ Settled(c, 0)
    /\ UNCHANGED <<asset, clock, written, cache, bytes, doubled>>

Total(s) ==
    LET upTo[n \in 0 .. Len(s)] == IF n = 0 THEN 0 ELSE upTo[n - 1] + SizeOf(s[n].data)
    IN  upTo[Len(s)]

\* How many of the oldest entries go before enough are gone.
Evicted(s, enough(_)) ==
    CHOOSE n \in 0 .. Len(s) :
        /\ n = Len(s) \/ enough(SubSeq(s, 1, n))
        /\ \A m \in 0 .. n - 1 : ~enough(SubSeq(s, 1, m))
Rest(s, n) == SubSeq(s, n + 1, Len(s))

\* Map.set: a key that is there keeps its place.
Inserted(s, e) ==
    IF \E i \in DOMAIN s : s[i].key = e.key
    THEN [i \in DOMAIN s |-> IF s[i].key = e.key THEN e ELSE s[i]] ELSE Append(s, e)

\* What the entry that goes took.
Replaced(s, key) ==
    IF \E i \in DOMAIN s : s[i].key = key
    THEN SizeOf(s[CHOOSE i \in DOMAIN s : s[i].key = key].data) ELSE 0

\* remember, by its own count of bytes, and then rasterFor's clear; the cap is
\* read just before.
RememberRaster(c, cap) ==
    LET key   == caller[c].key
        got   == caller[c].got
        all   == Inserted(cache.image, [key |-> key, data |-> got])
        count == bytes - Replaced(cache.image, key) + SizeOf(got)
        n     == Evicted(all, LAMBDA gone : count - Total(gone) <= cap)
    IN
    /\ caller[c].at = "keep" /\ Kind(key[1]) = "image" /\ Settled(c, got)
    /\ IF SizeOf(got) > cap THEN UNCHANGED <<cache, bytes>>
       ELSE /\ cache' = [cache EXCEPT !.image = Rest(all, n)]
            /\ bytes' = count - Total(SubSeq(all, 1, n))
    /\ UNCHANGED <<asset, clock, written, doubled>>

KeepFace(c) ==
    LET all == Inserted(cache.font, [key |-> caller[c].key, data |-> caller[c].got])
        n   == Evicted(all, LAMBDA gone : Len(all) - Len(gone) <= MaxFaces)
    IN
    /\ caller[c].at = "keep" /\ Kind(caller[c].key[1]) = "font" /\ Settled(c, caller[c].got)
    /\ cache' = [cache EXCEPT !.font = Rest(all, n)]
    /\ UNCHANGED <<asset, clock, written, bytes, doubled>>

AssetNext ==
    \/ Tock \/ \E a \in Assets : Store(a) \/ Put(a) \/ RenameAsset(a) \/ DeleteAsset(a)
    \/ \E c \in Callers :
          \/ \E a \in Assets : LookUpAsset(c, a)
          \/ ReadBytes(c) \/ DeriveFails(c) \/ KeepFace(c)
          \/ \E cap \in Caps : RememberRaster(c, cap)

AssetSpec == AssetInit /\ [][AssetNext]_assetVars

(***************************************************************************)
(* Properties                                                               *)
(***************************************************************************)

\* What a caller gets is never older than the asset was when it asked ("a hit
\* still cannot serve dots from bytes that have been replaced",
\* asset-service.ts:614), as long as no two writes of the asset fall in one
\* millisecond; nobody waits for a derivation that is not under way, and no
\* key goes on answering with one that is over; and the bytes counted are those
\* held.
CachedDotsAreCurrent ==
    /\ \A c \in Callers : caller[c].got # 0 /\ caller[c].key[1] \notin doubled => caller[c].got >= caller[c].saw
    /\ \A f \in inFlight : caller[f.by].key = f.key /\ caller[f.by].at \in {"read", "keep"}
    /\ \A c \in Callers : caller[c].at = "wait" => \E f \in inFlight : f.key = caller[c].key
    /\ bytes = Total(cache.image) /\ \E cap \in Caps : bytes <= cap
=============================================================================
