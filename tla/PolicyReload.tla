---------------------------- MODULE PolicyReload ----------------------------
(***************************************************************************)
(* The routing policies in force and the two files they must agree with.   *)
(*                                                                         *)
(* On SIGHUP one goroutine (watchPolicyReload, internal/router/router.go)  *)
(* reloads auth.yaml and then the policy directory, reading the policies   *)
(* in force in one step and replacing them in a later one.  The admin API  *)
(* (internal/api/handlers-admin.go) writes policies and dynamic keys in    *)
(* between, and an operator edits the files at any time.  The executor     *)
(* (internal/policy/executor.go) keeps the policies and the model index    *)
(* derived from them behind one atomic pointer.                            *)
(***************************************************************************)
EXTENDS PolicyDoc

CONSTANTS
    Model,        \* model names requests ask for
    Name,         \* names of policy documents (file stems, API URL segments)
    Default,      \* the stem "_default", whose file holds the global policy
    BuiltIn,      \* the document policy.Default() stands for
    None,
    Dirs,         \* contents of the directory at startup, oldest file first
    Writes,       \* [name -> documents that are written under it]
    MaxChanges,   \* edits of files and admin calls
    MaxSignals    \* SIGHUPs

File == [stem : Name \union {Default}, doc : Docs]
OnePerStem(d) == \A i, j \in DOMAIN d : d[i].stem = d[j].stem => i = j

\* Files are documents, and a directory has one of a stem (not x.yaml and x.yml).
\* policy.Default() sets no mode.
ASSUME PolicyAssumption ==
    /\ Writes \in [Name \union {Default} -> SUBSET Docs]
    /\ Dirs \subseteq Seq(File) /\ \A d \in Dirs : OnePerStem(d)
    /\ Content[BuiltIn].mode # "serverless" /\ None \notin Docs

VARIABLES
    cfg,        \* [source: "dir" or "file", dynamic: the key registry is used]
    dir,        \* the policy files, oldest first: Seq([stem, doc])
    authFile,   \* the contents of auth.yaml
    state,      \* [global, named, index, aliases] the executor's policyState
    hashes,     \* policyDirHashes: file -> contents last loaded
    apiKeys,    \* contents of auth.yaml the static provider was built from
    registry,   \* dynamic keys in force
    sig,        \* a SIGHUP waits in the channel
    reload,     \* the goroutine: where it is and what it has read
    upsert,     \* a key whose admission check passed and that is not yet in
    left,       \* what remains of each bound
    result,     \* the outcome the last reload reported
    edited,     \* history: the directory changed since the last SIGHUP
                \* ("unsignalled") and since a reload last read it ("unread")
    excuses     \* history: unchecked writes ("put") and overlapping ones ("race")

files == <<dir, authFile>>
vars == <<cfg, dir, authFile, state, hashes, apiKeys, registry, sig, reload,
          upsert, left, result, edited, excuses>>

-----------------------------------------------------------------------------
(* Loading the directory.                                                  *)

\* The contents of every file, which stands for their hashes.
Hashes(d) == [ s \in { f.stem : f \in Range(d) } |->
                 (CHOOSE f \in Range(d) : f.stem = s).doc ]

Loads(f) == f.stem # Default /\ f.doc \in LoadModelDocBytes /\ Models(f.doc) # {}
Clash(d, i, j) == Models(d[i].doc) \intersect Models(d[j].doc) # {}

\* The files in order of modification time: the first to claim a model owns
\* it, and a later file that claims an owned model is skipped whole.
FirstClaims(d) == CHOOSE l \in SUBSET DOMAIN d : \A i \in DOMAIN d :
    i \in l <=> Loads(d[i]) /\ \A j \in l : j < i => ~Clash(d, i, j)

\* A _default file that does not load fails the whole snapshot.
SnapshotFails(d) == \E i \in DOMAIN d : d[i].stem = Default /\ d[i].doc \notin LoadBytes

NoNamed == [ n \in {} |-> None ]

LoadDirSnapshot(d) ==
    LET h == Hashes(d) IN
    [ global |-> IF Default \in DOMAIN h THEN h[Default] ELSE None,
      named  |-> [ s \in { d[i].stem : i \in FirstClaims(d) } |-> h[s] ],
      hashes |-> h ]

-----------------------------------------------------------------------------
(* The executor's policyState.                                             *)

\* The loop over the named documents runs in any order and the last write
\* wins, so a model that several documents claim gets any of them.
Indexes(named, kind) ==
    { f \in [Model -> DOMAIN named \union {None}] : \A m \in Model :
        LET claimants == { n \in DOMAIN named : named[n] \in kind /\ m \in Models(named[n]) }
        IN IF claimants = {} THEN f[m] = None ELSE f[m] \in claimants }

buildModelPolicies(named) == Indexes(named, Routing)

newPolicyState(global, named) ==
    \E i \in buildModelPolicies(named), a \in Indexes(named, Aliases) :
        state' = [global |-> global, named |-> named, index |-> i, aliases |-> a]

\* EffectivePolicy and NewSession: one load of the pointer.
EffectivePolicy(m) == IF state.index[m] = None THEN state.global
                      ELSE state.named[state.index[m]]

SetPolicy(d) == newPolicyState(d, state.named)

\* A model another document claims is a conflict.
Conflict(n, d) == \E o \in DOMAIN state.named \ {n} :
                     Models(state.named[o]) \intersect Models(d) # {}

SetNamedPolicy(n, d) == newPolicyState(state.global,
    [ o \in DOMAIN state.named \union {n} |-> IF o = n THEN d ELSE state.named[o] ])

DeleteNamedPolicy(n) ==
    newPolicyState(state.global, [ o \in DOMAIN state.named \ {n} |-> state.named[o] ])

SetNamedPoliciesFromSnapshot(named) == newPolicyState(state.global, named)

-----------------------------------------------------------------------------
(* Checks against the keys.                                                *)

gatherPolicies(global, named) == {global} \union { named[n] : n \in DOMAIN named }

currentAdmissionPolicies == gatherPolicies(state.global, state.named)

admissionKeysFromConfig(f) == IF AuthFiles[f].mode = "api-key" THEN AuthFiles[f].keys ELSE {}

\* The keys on disk, none when auth.yaml does not parse, and the registry.
checkAdmissionAgainstKeys(policies) ==
    ValidateAdmissionInvariants(policies,
        registry \union (IF AuthFiles[authFile].yaml
                         THEN admissionKeysFromConfig(authFile) ELSE {}))

-----------------------------------------------------------------------------
(* Startup.                                                                *)

Idle == [ at |-> "idle", auth |-> None, keys |-> {}, snap |-> LoadDirSnapshot(<<>>),
          current |-> NoNamed, ok |-> TRUE ]

NoUpsert == [ key |-> None, policies |-> {} ]

\* New and Start: everything is loaded and checked, or the router exits.  The
\* registry starts empty.
Init ==
    /\ cfg \in [source : {"dir", "file"}, dynamic : BOOLEAN]
    /\ dir \in Dirs /\ ~SnapshotFails(dir)
    /\ cfg.source = "file" => DOMAIN Hashes(dir) = {Default}
    /\ authFile \in ProvidersFromConfig /\ CheckAuthMode(authFile)
    /\ cfg.dynamic = (AuthFiles[authFile].mode = "dynamic")
    /\ LET snap == LoadDirSnapshot(dir)
           global == IF snap.global = None THEN BuiltIn ELSE snap.global
           named == IF cfg.source = "dir" THEN snap.named ELSE NoNamed
       IN /\ gatherPolicies(global, named) \subseteq validateProviderPolicy
          /\ ValidateAdmissionInvariants(gatherPolicies(global, named),
                                         admissionKeysFromConfig(authFile))
          /\ state \in [global : {global}, named : {named},
                        index : buildModelPolicies(named), aliases : Indexes(named, Aliases)]
          /\ hashes = IF cfg.source = "dir" THEN snap.hashes ELSE NoNamed
    /\ apiKeys = authFile
    /\ registry = {}
    /\ sig = FALSE
    /\ reload = Idle
    /\ upsert = NoUpsert
    /\ left = [changes |-> MaxChanges, signals |-> MaxSignals]
    /\ result = "none"
    /\ edited = {}
    /\ excuses = {}

-----------------------------------------------------------------------------
(* The operator.                                                           *)

Change == left.changes > 0 /\ left' = [left EXCEPT !.changes = @ - 1]

\* The directory without file s.
Without(s) ==
    LET here == { i \in DOMAIN dir : dir[i].stem = s }
        at == CHOOSE i \in here : TRUE
    IN IF here = {} THEN dir ELSE SubSeq(dir, 1, at - 1) \o SubSeq(dir, at + 1, Len(dir))

\* A written file is the newest; a copy that keeps its date may be the oldest.
WriteFile(s, d) ==
    /\ Change
    /\ cfg.source = "file" => s = Default
    /\ LET f == <<[stem |-> s, doc |-> d]>> IN
       dir' \in {Without(s) \o f, f \o Without(s)} /\ dir' # dir
    /\ edited' = {"unsignalled", "unread"}
    /\ UNCHANGED <<cfg, authFile, state, hashes, apiKeys, registry, sig, reload, upsert, result, excuses>>

RemoveFile(s) ==
    /\ Change
    /\ dir' = Without(s) /\ dir' # dir
    /\ edited' = {"unsignalled", "unread"}
    /\ UNCHANGED <<cfg, authFile, state, hashes, apiKeys, registry, sig, reload, upsert, result, excuses>>

WriteAuth(f) ==
    /\ Change
    /\ authFile' = f /\ f # authFile
    /\ UNCHANGED <<cfg, dir, state, hashes, apiKeys, registry, sig, reload, upsert, result, edited, excuses>>

\* The channel holds one signal; one sent while it is full is dropped.
Buffered == TRUE

Sighup ==
    /\ left.signals > 0
    /\ sig' = Buffered
    /\ edited' = edited \ {"unsignalled"}
    /\ left' = [left EXCEPT !.signals = @ - 1]
    /\ UNCHANGED <<cfg, files, state, hashes, apiKeys, registry, reload, upsert, result, excuses>>

-----------------------------------------------------------------------------
(* The reload goroutine.                                                   *)

TakeSignal ==
    /\ reload.at = "idle" /\ sig
    /\ sig' = FALSE
    /\ reload' = [reload EXCEPT !.at = "auth"]
    /\ result' = "none"
    /\ UNCHANGED <<cfg, files, state, hashes, apiKeys, registry, upsert, left, edited, excuses>>

\* reloadAuthProviders: a file that does not build providers, or that switches
\* to or from dynamic mode, is refused; in dynamic mode the registry stays.
ReadAuth ==
    /\ reload.at = "auth"
    /\ reload' = IF /\ authFile \in ProvidersFromConfig
                    /\ ~cfg.dynamic /\ AuthFiles[authFile].mode # "dynamic"
                 THEN [reload EXCEPT !.at = "swap", !.auth = authFile]
                 ELSE [reload EXCEPT !.at = "policy"]
    /\ UNCHANGED <<cfg, files, state, hashes, apiKeys, registry, sig, upsert, left, result, edited, excuses>>

\* The file is read again for the check against the policies in force; what is
\* swapped in was built from the first read.
SwapAuth ==
    /\ reload.at = "swap"
    /\ apiKeys' = IF /\ AuthFiles[authFile].yaml
                     /\ ValidateAdmissionInvariants(currentAdmissionPolicies,
                                                    admissionKeysFromConfig(authFile))
                     /\ CheckAuthMode(reload.auth)
                  THEN reload.auth ELSE apiKeys
    /\ reload' = [reload EXCEPT !.at = "policy", !.auth = None]
    /\ UNCHANGED <<cfg, files, state, hashes, registry, sig, upsert, left, result, edited, excuses>>

\* The goroutine is done; the channel is empty unless a signal came meanwhile.
Done(outcome) ==
    /\ reload' = Idle
    /\ result' = outcome

\* A key came in after the policies were checked against the keys.
NoteRace(k, checked) ==
    excuses' = excuses \union (IF k \subseteq checked THEN {} ELSE {"race"})

\* What a reload proposes is loaded, and checked against the keys; what fails
\* keeps the previous policies.
Propose(ok, next, snap) ==
    /\ reload' = IF ok THEN [Idle EXCEPT !.at = next, !.snap = snap, !.keys = registry]
                       ELSE Idle
    /\ result' = IF ok THEN "none" ELSE "error"

\* --policy-file, used when no directory is configured.
LoadPolicyFile ==
    /\ reload.at = "policy" /\ cfg.source = "file"
    /\ edited' = edited \ {"unread"}
    /\ LET snap == LoadDirSnapshot(dir) IN
       Propose(/\ snap.global \in LoadBytes \intersect validateProviderPolicy
               /\ checkAdmissionAgainstKeys({snap.global}), "file", snap)
    /\ UNCHANGED <<cfg, files, state, hashes, apiKeys, registry, sig, upsert, left, excuses>>

SetPolicyFile ==
    /\ reload.at = "file"
    /\ SetPolicy(reload.snap.global)
    /\ NoteRace(registry, reload.keys)
    /\ Done("success")
    /\ UNCHANGED <<cfg, files, hashes, apiKeys, registry, sig, upsert, left, edited>>

\* reloadPolicyModelDir: the snapshot, its difference from what was loaded last,
\* and the check of the policies it proposes.
LoadDir ==
    /\ reload.at = "policy" /\ cfg.source = "dir"
    /\ edited' = edited \ {"unread"}
    /\ LET snap == LoadDirSnapshot(dir)
           global == IF snap.global = None THEN state.global ELSE snap.global
       IN IF ~SnapshotFails(dir) /\ snap.hashes = hashes
          THEN Done("none")
          ELSE Propose(/\ ~SnapshotFails(dir)
                       /\ checkAdmissionAgainstKeys(gatherPolicies(global, snap.named)),
                       "global", snap)
    /\ UNCHANGED <<cfg, files, state, hashes, apiKeys, registry, sig, upsert, left, excuses>>

\* The _default file becomes the global policy; one that was deleted leaves
\* the built-in default.
ApplyGlobal ==
    /\ reload.at = "global"
    /\ LET global == reload.snap.global IN
       /\ \/ global \in validateProviderPolicy /\ SetPolicy(global)
          \/ global = None /\ Default \in DOMAIN hashes /\ SetPolicy(BuiltIn)
          \/ global = None /\ Default \notin DOMAIN hashes /\ UNCHANGED state
          \/ global \notin validateProviderPolicy \union {None} /\ UNCHANGED state
       /\ reload' = [reload EXCEPT !.at = "read",
                                   !.ok = global \in validateProviderPolicy \union {None}]
    /\ NoteRace(registry, reload.keys)
    /\ UNCHANGED <<cfg, files, hashes, apiKeys, registry, sig, upsert, left, result, edited>>

ReadNamed ==
    /\ reload.at = "read"
    /\ reload' = [reload EXCEPT !.at = "named", !.current = state.named]
    /\ UNCHANGED <<cfg, files, state, hashes, apiKeys, registry, sig, upsert, left, result, edited, excuses>>

Present(s) == s \in DOMAIN reload.snap.hashes
Unchanged(s) == s \in DOMAIN hashes /\ hashes[s] = reload.snap.hashes[s]

\* Mutant: only files that did not change protect their models.
OwnersUnchanged ==
    UNION { Models(reload.snap.named[s]) : s \in { n \in DOMAIN reload.snap.named : Unchanged(n) } }

\* Models a new or modified file may not claim: those of unchanged files, and
\* those of files that are there but did not load.
establishedOwners ==
    (UNION { Models(reload.snap.named[s]) : s \in { n \in DOMAIN reload.snap.named : Unchanged(n) } })
    \union
    (UNION { Models(reload.current[s]) : s \in
               { n \in DOMAIN reload.current \ DOMAIN reload.snap.named : Present(n) } })

Accepted == { s \in DOMAIN reload.snap.named :
    /\ Unchanged(s) \/ Models(reload.snap.named[s]) \intersect establishedOwners = {}
    /\ reload.snap.named[s] \in validateProviderPolicy }

\* Mutant: a file that no longer loads loses its policy.
RestoreNone == {}

\* Files that are there but were not accepted keep the policy in force.
Restored == { s \in DOMAIN reload.current \ Accepted : Present(s) }

reloadOK == reload.ok /\ Accepted = DOMAIN reload.snap.named /\ Restored = {}

ApplyNamed ==
    /\ reload.at = "named"
    /\ SetNamedPoliciesFromSnapshot([ s \in Accepted \union Restored |->
           IF s \in Accepted THEN reload.snap.named[s] ELSE reload.current[s] ])
    /\ hashes' = reload.snap.hashes
    /\ NoteRace(registry, reload.keys)
    /\ Done(IF reloadOK THEN "success" ELSE "error")
    /\ UNCHANGED <<cfg, files, apiKeys, registry, sig, upsert, left, edited>>

-----------------------------------------------------------------------------
(* The admin API.  A refused call changes nothing.                         *)

PutPolicy(d) ==
    /\ Change
    /\ d \in LoadBytes \intersect validateProviderPolicy
    /\ SetPolicy(d)
    /\ excuses' = excuses \union {"put"}
    /\ UNCHANGED <<cfg, files, hashes, apiKeys, registry, sig, reload, upsert, result, edited>>

PutModelPolicy(n, d) ==
    /\ Change
    /\ d \in LoadModelDocBytes \intersect validateProviderPolicy
    /\ Models(d) # {}
    /\ ~Conflict(n, d)
    /\ SetNamedPolicy(n, d)
    /\ excuses' = excuses \union {"put"}
    /\ UNCHANGED <<cfg, files, hashes, apiKeys, registry, sig, reload, upsert, result, edited>>

DeleteModelPolicy(n) ==
    /\ Change
    /\ n \in DOMAIN state.named
    /\ DeleteNamedPolicy(n)
    /\ UNCHANGED <<cfg, files, hashes, apiKeys, registry, sig, reload, upsert, result, edited, excuses>>

\* Mutant: a key is not checked against the policies in force.
AdmitAnyKey(k) == TRUE

validateKeyAdmission(k) == ValidateAdmissionInvariants(currentAdmissionPolicies, {k})

\* UpsertAPIKey: the check reads the policies, the write comes later.
CheckKey(k) ==
    /\ cfg.dynamic /\ upsert.key = None /\ k \notin registry
    /\ Change
    /\ QuotaValid(Keys[k].quota) /\ validateOccupancyShare(Keys[k].share)
    /\ validateKeyAdmission(k)
    /\ upsert' = [key |-> k, policies |-> currentAdmissionPolicies]
    /\ UNCHANGED <<cfg, files, state, hashes, apiKeys, registry, sig, reload, result, edited, excuses>>

WriteKey ==
    /\ upsert.key # None
    /\ registry' = registry \union {upsert.key}
    /\ upsert' = NoUpsert
    /\ NoteRace(currentAdmissionPolicies, upsert.policies)
    /\ UNCHANGED <<cfg, files, state, hashes, apiKeys, sig, reload, left, result, edited>>

DeleteAPIKey(k) ==
    /\ Change
    /\ k \in registry
    /\ registry' = registry \ {k}
    /\ UNCHANGED <<cfg, files, state, hashes, apiKeys, sig, reload, upsert, result, edited, excuses>>

-----------------------------------------------------------------------------

Next ==
    \/ \E s \in Name \union {Default} : \E d \in Writes[s] : WriteFile(s, d)
    \/ \E s \in Name \union {Default} : RemoveFile(s)
    \/ \E f \in DOMAIN AuthFiles : WriteAuth(f)
    \/ Sighup \/ TakeSignal \/ ReadAuth \/ SwapAuth
    \/ LoadPolicyFile \/ SetPolicyFile
    \/ LoadDir \/ ApplyGlobal \/ ReadNamed \/ ApplyNamed
    \/ \E d \in Writes[Default] : PutPolicy(d)
    \/ \E n \in Name : \E d \in Writes[n] : PutModelPolicy(n, d)
    \/ \E n \in Name : DeleteModelPolicy(n)
    \/ \E k \in DOMAIN Keys : CheckKey(k) \/ DeleteAPIKey(k)
    \/ WriteKey

Spec == Init /\ [][Next]_vars

-----------------------------------------------------------------------------
(* Properties.                                                             *)

Claimants(named, m) == { n \in DOMAIN named : m \in Models(named[n]) }
AtMostOne(S) == \A x, y \in S : x = y

\* A reload that went through: the step that replaces the named documents.
Reloaded == reload.at = "named" /\ reload'.at = "idle"

\* A file that has not changed and alone claims a model, among the documents in
\* force and among the files loaded last, alone owns it after the reload, however
\* new or modified files claim it and whatever their dates are (the two passes of
\* reloadPolicyModelDir).
EstablishedKept == [][ Reloaded =>
    \A s \in DOMAIN reload.current, m \in Model :
        /\ Present(s) /\ Unchanged(s) /\ hashes[s] = reload.current[s]
        /\ Claimants(reload.current, m) = {s} /\ Claimants(hashes, m) = {s}
        => Claimants(state'.named, m) = {s} ]_vars

\* A reload removes the policy of a deleted file and of no other: a file that
\* is there but is broken, in conflict or without its provider keeps the policy
\* in force (the restore pass of reloadPolicyModelDir). One reported as a success
\* left exactly the documents it read in force, each model with one owner
\* (reloadOK).
PresentKept == [][ Reloaded =>
    /\ \A s \in DOMAIN reload.current : Present(s) => s \in DOMAIN state'.named
    /\ result' = "success" =>
          /\ state'.named = reload.snap.named
          /\ \A m \in Model : AtMostOne(Claimants(state'.named, m)) ]_vars

\* With dynamic keys, a key's input bucket covers the policy that governs every
\* model it may call, unless the policy came in through the admin API, or the
\* check of one writer overlapped the write of the other, or the global policy
\* lists models (checkAdmissionAgainstKeys, validateKeyAdmission).
CoverKept ==
    cfg.dynamic /\ excuses = {} /\ Models(state.global) = {} =>
        \A k \in registry : \A m \in Model :
            Keys[k].models = {} \/ m \in Keys[k].models =>
                LET c == Content[EffectivePolicy(m)] IN
                c.mode = "serverless" =>
                    ValidateITPMCoversMaxInput(Keys[k].quota.itpm, c.caps.max_input_tokens)

\* No signal is missed: when the goroutine waits and no signal does, it has read
\* the directory as it was at the last SIGHUP, also when that signal came while
\* an earlier reload was running (the one-slot channel of watchPolicyReload).
SignalHeard ==
    reload.at = "idle" /\ ~sig /\ "unread" \in edited => "unsignalled" \in edited

\* The comment on buildModelPolicies: conflicts are prevented before documents
\* reach the index, so a model has at most one document that claims it.
OneOwner == \A m \in Model : AtMostOne(Claimants(state.named, m))

=============================================================================
