------------------------------ MODULE Download ------------------------------
(* tools/maadeps_download.py and maadeps-extract.py: the assets of a release *)
(* are downloaded into tarball/, unpacked, and recorded by their digest in   *)
(* .cache_digest.json, so that a later run with cache_asset may pass them    *)
(* over. A run may fail or be killed anywhere; the release may change.       *)
(*                                                                           *)
(* All archives are unpacked into maadeps_dir: the unified one brings what   *)
(* the devel and the runtime archive bring, and one replaces the other.      *)
(*                                                                           *)
(* A file stands for its content, and the digest of a content for itself.    *)
EXTENDS Integers, Sequences, SequencesExt

CONSTANTS
  Contents,
  Digested,   \* those that the release gives a digest for
  None,       \* no file, asset, or digest
  Torn,       \* part of a file, or of what was unpacked
  MaxChanges  \* bound: changes of the release

VARIABLES
  release,    \* the assets on the server
  tarball,    \* the files in download_dir
  deps,       \* what was unpacked to each part of maadeps_dir: the asset, its content
  cache,      \* asset_cache_file: the digests by name
  pc,
  job,        \* "cached" and "uncached" downloads, or "extract"
  assets,     \* the assets left, the one at work first
  queried,    \* the release as this run sees it
  caches,     \* asset_caches
  tries,      \* of retry_urlopen
  changes,
  changed,    \* history: the assets that changed since the release was queried
  been,       \* history: all that each asset has been on the server
  orderly     \* history: all runs used the cache, and no asset became what it had been

run == <<pc, job, assets, queried, caches, tries>>
disk == <<tarball, deps, cache>>
history == <<changes, changed, been, orderly>>
vars == <<release, disk, run, history>>

Names == {"single", "devel", "runtime"}
Name == Head(assets)
Nothing == [n \in Names |-> None]
Digest(content) == IF content \in Digested THEN content ELSE None
Readable == cache \notin {None, Torn}

Parts == {"devel", "runtime"}
Places(n) == IF n = "single" THEN Parts ELSE {n}
Installed(n, content) == \A part \in Places(n) : deps[part] = <<n, content>>

\* The single asset if there is one, else the two of old.
Chosen(files) ==
  IF files["single"] # None THEN <<"single">>
  ELSE IF files["devel"] # None /\ files["runtime"] # None THEN <<"devel", "runtime">>
  ELSE <<>>

Init ==
  /\ release \in {[n \in Names |-> IF n \in s THEN c ELSE None] :
                    s \in {{"single"}, {"devel", "runtime"}}, c \in Contents}
  /\ tarball = Nothing /\ deps = [part \in Parts |-> None] /\ cache = None
  /\ pc = "idle" /\ job = None /\ assets = <<>> /\ queried = Nothing /\ caches = <<>> /\ tries = 0
  /\ changes = 0 /\ changed = {} /\ been = [n \in Names |-> {release[n]}] /\ orderly = TRUE

\* What maadeps-extract.py unpacks: nothing, if an archive it needs is missing.
Archives == Chosen(tarball)

Goto(from, to) == pc = from /\ pc' = to

Start(j) ==
  /\ Goto("idle", IF j = "extract" THEN "asset" ELSE "query")
  /\ job' = j
  /\ assets' = IF j = "extract" THEN Archives ELSE <<>>
  /\ orderly' = (orderly /\ j = "cached")
  /\ UNCHANGED <<release, disk, queried, caches, tries, changes, changed, been>>

\* What the process knew goes with it.
End ==
  /\ pc' = "idle" /\ job' = None /\ assets' = <<>> /\ queried' = Nothing /\ caches' = <<>> /\ tries' = 0
  /\ changed' = {}
  /\ UNCHANGED <<release, disk, changes, been, orderly>>

\* An exception, or the process is killed.
Stop == pc # "idle" /\ End

\* retry_urlopen: after the fifth refusal there is no response to read.
RateLimited ==
  /\ pc = "query"
  /\ \/ tries = 4 /\ End
     \/ /\ tries < 4 /\ tries' = tries + 1
        /\ UNCHANGED <<release, disk, pc, job, assets, queried, caches, history>>

\* "no binary release found" is an exception.
Query ==
  /\ Goto("query", "asset")
  /\ queried' = release
  /\ assets' = Chosen(release) /\ assets' # <<>>
  /\ changed' = {} /\ tries' = 0
  /\ UNCHANGED <<release, disk, job, caches, changes, been, orderly>>

Finish == pc = "asset" /\ assets = <<>> /\ End

\* Mutant: a record of any digest will do.
check_asset_cache_Name(n) ==
  job = "cached" /\ Digest(queried[n]) # None /\ Readable /\ n \in DOMAIN cache

check_asset_cache(n) ==
  /\ job = "cached"
  /\ Digest(queried[n]) # None
  /\ Readable /\ n \in DOMAIN cache /\ cache[n] = Digest(queried[n])

\* Mutant: any file that is there.
check_local_digest_Exists(n) == Digest(queried[n]) # None /\ tarball[n] # None

check_local_digest(n) == Digest(queried[n]) # None /\ tarball[n] = Digest(queried[n])

UseCached ==
  /\ pc = "asset" /\ assets # <<>> /\ job # "extract"
  /\ check_asset_cache(Name)
  /\ assets' = Tail(assets)
  /\ UNCHANGED <<release, disk, pc, job, queried, caches, tries, history>>

Reuse ==
  /\ Goto("asset", "unpack")
  /\ assets # <<>>
  /\ job = "extract" \/ (~check_asset_cache(Name) /\ check_local_digest(Name))
  /\ UNCHANGED <<release, disk, job, assets, queried, caches, tries, history>>

\* urlretrieve: the file grows, and is what the server has when it is complete.
Fetch ==
  /\ Goto("asset", "fetch")
  /\ assets # <<>> /\ job # "extract"
  /\ ~check_asset_cache(Name) /\ ~check_local_digest(Name)
  /\ release[Name] # None
  /\ tarball' = [tarball EXCEPT ![Name] = Torn]
  /\ UNCHANGED <<release, deps, cache, job, assets, queried, caches, tries, history>>

Fetched ==
  /\ Goto("fetch", "unpack")
  /\ release[Name] # None
  /\ tarball' = [tarball EXCEPT ![Name] = release[Name]]
  /\ UNCHANGED <<release, deps, cache, job, assets, queried, caches, tries, history>>

Put(content) == [part \in Parts |-> IF part \in Places(Name) THEN <<Name, content>> ELSE deps[part]]

\* unpack_archive, file by file, over what is there; of part of an archive it fails.
Unpack ==
  /\ Goto("unpack", "unpacking")
  /\ deps' = Put(Torn)
  /\ UNCHANGED <<release, tarball, cache, job, assets, queried, caches, tries, history>>

Unpacked ==
  /\ Goto("unpacking", IF job = "cached" /\ Digest(queried[Name]) # None THEN "record" ELSE "asset")
  /\ tarball[Name] # Torn
  /\ deps' = Put(tarball[Name])
  /\ assets' = IF pc' = "asset" THEN Tail(assets) ELSE assets
  /\ UNCHANGED <<release, tarball, cache, job, queried, caches, tries, history>>

\* set_asset_cache: what can be read of the file is kept. Opening it empties it.
Record ==
  /\ Goto("record", "recording")
  /\ caches' = [n \in {Name} \cup (IF Readable THEN DOMAIN cache ELSE {}) |->
                  IF n = Name THEN Digest(queried[n]) ELSE cache[n]]
  /\ cache' = Torn
  /\ UNCHANGED <<release, tarball, deps, job, assets, queried, tries, history>>

Recorded ==
  /\ Goto("recording", "asset")
  /\ cache' = caches /\ caches' = <<>>
  /\ assets' = Tail(assets)
  /\ UNCHANGED <<release, tarball, deps, job, queried, tries, history>>

\* The maintainers replace, add or remove an asset.
Change ==
  /\ changes < MaxChanges /\ changes' = changes + 1
  /\ \E n \in Names, c \in Contents \cup {None} :
       /\ c # release[n] /\ release' = [release EXCEPT ![n] = c]
       /\ changed' = changed \cup {n}
       /\ been' = [been EXCEPT ![n] = @ \cup {c}]
       /\ orderly' = (orderly /\ c \notin been[n])
  /\ UNCHANGED <<disk, run>>

Next ==
  \/ \E j \in {"cached", "uncached", "extract"} : Start(j)
  \/ Stop \/ RateLimited \/ Query \/ Finish
  \/ UseCached \/ Reuse \/ Fetch \/ Fetched \/ Unpack \/ Unpacked \/ Record \/ Recorded
  \/ Change

Spec == Init /\ [][Next]_vars

-----------------------------------------------------------------------------
\* Properties.

\* What check_asset_cache would find in the record of an asset that a release has.
Trusted(n, files) ==
  /\ n = "single" \/ files["single"] = None
  /\ Readable /\ n \in DOMAIN cache /\ cache[n] = Digest(files[n])

\* As long as all runs use the cache and no asset of the release becomes what it
\* once was: wherever they were killed, failed and were repeated, whatever replaced
\* what in the shared directory, and though no digest is checked after a download,
\* a record that the next run would trust is of what maadeps_dir has.
TrustedMeansInstalled ==
  orderly => \A n \in Names : Trusted(n, release) => Installed(n, release[n])

\* A download that comes to its end has installed each asset of the release that
\* did not change meanwhile: without the cache whatever earlier runs, the extract
\* tool and the release have left behind; with it, if they were orderly.
FinishedMeansInstalled ==
  [][pc = "asset" /\ pc' = "idle" /\ assets = <<>> /\ (job = "uncached" \/ (job = "cached" /\ orderly)) =>
       \A n \in Range(Chosen(queried)) \ changed : Installed(n, queried[n])]_vars
=============================================================================
