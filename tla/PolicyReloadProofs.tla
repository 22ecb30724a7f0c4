------------------------- MODULE PolicyReloadProofs -------------------------
(***************************************************************************)
(* Proofs about PolicyReload, for any documents, keys, files and number of *)
(* edits and signals: dynamic keys cover the policies in force, a reload   *)
(* leaves unchanged files their models and files that are there a policy,  *)
(* and a success is the directory as it was read.                          *)
(***************************************************************************)
EXTENDS PolicyReload, WellFoundedInduction, TLAPS

USE ZenonT(10), SMTT(60)

Applying == {"global", "read", "named"}

(* The goroutine's record has its fields.                                  *)
Shape == reload = [ at |-> reload.at, auth |-> reload.auth, keys |-> reload.keys,
                    snap |-> reload.snap, current |-> reload.current, ok |-> reload.ok ]

-----------------------------------------------------------------------------
(* The policies and the dynamic keys.                                      *)

(* What the reload has read was checked against the keys it remembers: the *)
(* documents it proposes, and those in force, which it may put back.       *)
Checked ==
    /\ reload.at = "file" => ValidateAdmissionInvariants({reload.snap.global}, reload.keys)
    /\ reload.at = "global" /\ reload.snap.global # None =>
         ValidateAdmissionInvariants({reload.snap.global}, reload.keys)
    /\ reload.at \in Applying =>
         /\ ValidateAdmissionInvariants(Range(reload.snap.named), reload.keys)
         /\ ValidateAdmissionInvariants(Range(state.named), reload.keys)
    /\ reload.at = "named" =>
         ValidateAdmissionInvariants(Range(reload.current), reload.keys)

(* The inductive invariant behind CoverKept.                               *)
CoverInv ==
    /\ Shape
    /\ state.index \in Indexes(state.named, Routing)
    /\ upsert.key # None => ValidateAdmissionInvariants(upsert.policies, {upsert.key})
    /\ cfg.dynamic /\ excuses = {} =>
         /\ ValidateAdmissionInvariants(currentAdmissionPolicies, registry)
         /\ Checked

(* CoverInv is what CoverKept needs: the policy that governs a model is    *)
(* one of those in force, and it lists the model or lists none.            *)
LEMMA CoverSuffices ==
    ASSUME CoverInv PROVE CoverKept
<1> SUFFICES ASSUME cfg.dynamic, excuses = {}, Models(state.global) = {},
                    NEW k \in registry, NEW m \in Model,
                    Keys[k].models = {} \/ m \in Keys[k].models,
                    Content[EffectivePolicy(m)].mode = "serverless"
             PROVE  ValidateITPMCoversMaxInput(Keys[k].quota.itpm,
                        Content[EffectivePolicy(m)].caps.max_input_tokens)
    BY DEF CoverKept
<1> DEFINE d == EffectivePolicy(m)
<1>1. ValidateAdmissionInvariants(currentAdmissionPolicies, registry)
      /\ state.index \in Indexes(state.named, Routing)
    BY DEF CoverInv
<1>2. d \in currentAdmissionPolicies /\ GovernsAnyOf(d, Keys[k].models)
  <2>1. CASE state.index[m] = None
      BY <2>1 DEF EffectivePolicy, currentAdmissionPolicies, gatherPolicies, GovernsAnyOf
  <2>2. CASE state.index[m] # None
    <3>1. /\ state.index[m] \in DOMAIN state.named
          /\ m \in Models(state.named[state.index[m]])
        BY <1>1, <2>2 DEF Indexes
    <3> QED
        BY <2>2, <3>1 DEF EffectivePolicy, currentAdmissionPolicies, gatherPolicies, GovernsAnyOf
  <2> QED
      BY <2>1, <2>2
<1>3. Covers(k, d)
    BY <1>1, <1>2 DEF ValidateAdmissionInvariants
<1> HIDE DEF d
<1>4. Content[d].mode = "serverless"
    BY DEF d
<1> QED
    BY <1>2, <1>3, <1>4 DEF Covers, ValidateITPMCoversMaxInput, d

LEMMA CoverInit ==
    ASSUME Init PROVE CoverInv
<1>1. Shape /\ reload.at = "idle"
    BY DEF Init, Idle, Shape
<1>2. state.index \in Indexes(state.named, Routing)
    BY DEF Init, buildModelPolicies
<1>3. upsert.key = None /\ registry = {}
    BY DEF Init, NoUpsert
<1> QED
    BY <1>1, <1>2, <1>3 DEF CoverInv, Checked, Applying, ValidateAdmissionInvariants

(* Fewer documents, or fewer keys, are covered as well.                    *)
LEMMA CoverSubset ==
    ASSUME NEW ds, NEW es, NEW ks, NEW js, ValidateAdmissionInvariants(ds, ks),
           es \subseteq ds, js \subseteq ks
    PROVE  ValidateAdmissionInvariants(es, js)
BY DEF ValidateAdmissionInvariants

LEMMA CoverUnion ==
    ASSUME NEW ds, NEW es, NEW ks, ValidateAdmissionInvariants(ds, ks),
           ValidateAdmissionInvariants(es, ks)
    PROVE  ValidateAdmissionInvariants(ds \cup es, ks)
BY DEF ValidateAdmissionInvariants

(* The policies in force are the global one and the named documents.       *)
LEMMA InForce ==
    ASSUME NEW global, NEW named
    PROVE  gatherPolicies(global, named) = {global} \cup Range(named)
BY DEF gatherPolicies, Range

(* Writing the policies: the index is made of the documents written.       *)
LEMMA NewState ==
    ASSUME NEW global, NEW named, newPolicyState(global, named)
    PROVE  /\ state'.global = global /\ state'.named = named
           /\ state'.index \in Indexes(state'.named, Routing)
           /\ currentAdmissionPolicies' = {global} \cup Range(named)
<1>1. PICK i \in buildModelPolicies(named), a \in Indexes(named, Aliases) :
        state' = [global |-> global, named |-> named, index |-> i, aliases |-> a]
    BY DEF newPolicyState
<1>2. state'.global = global /\ state'.named = named /\ state'.index = i
    BY <1>1
<1> QED
    BY <1>2, InForce DEF buildModelPolicies, currentAdmissionPolicies

(* A step that writes neither policies nor keys, and does not have the     *)
(* goroutine go on with what it proposes.                                  *)
LEMMA CoverQuiet ==
    ASSUME CoverInv, UNCHANGED <<cfg, state, registry, upsert>>, excuses \subseteq excuses',
           Shape', UNCHANGED reload \/ reload'.at \notin Applying \cup {"file"}
    PROVE  CoverInv'
<1>1. UNCHANGED <<currentAdmissionPolicies, state.index, state.named, upsert.key, upsert.policies>>
    BY DEF currentAdmissionPolicies
<1>2. excuses' = {} => excuses = {}
    OBVIOUS
<1>3. Checked => Checked'
  <2>1. CASE UNCHANGED reload
      BY <2>1 DEF Checked
  <2>2. CASE reload'.at \notin Applying \cup {"file"}
      BY <2>2 DEF Checked, Applying
  <2> QED
      BY <2>1, <2>2
<1> QED
    BY <1>1, <1>2, <1>3 DEF CoverInv, Indexes

(* The goroutine's steps up to its check.                                  *)
LEMMA CoverReading ==
    ASSUME CoverInv, TakeSignal \/ ReadAuth \/ SwapAuth PROVE CoverInv'
<1>0. Shape
    BY DEF CoverInv
<1>1. /\ UNCHANGED <<cfg, state, registry, upsert, excuses>>
      /\ \E a, l : reload' = [reload EXCEPT !.at = l, !.auth = a] /\ l \in {"auth", "swap", "policy"}
  <2>1. CASE TakeSignal
    <3>1. reload' = [reload EXCEPT !.at = "auth", !.auth = reload.auth]
        BY <1>0, <2>1 DEF TakeSignal, Shape
    <3> QED
        BY <2>1, <3>1 DEF TakeSignal
  <2>2. CASE ReadAuth
    <3>1. \/ reload' = [reload EXCEPT !.at = "swap", !.auth = authFile]
          \/ reload' = [reload EXCEPT !.at = "policy", !.auth = reload.auth]
        BY <1>0, <2>2 DEF ReadAuth, Shape
    <3> QED
        BY <2>2, <3>1 DEF ReadAuth
  <2>3. CASE SwapAuth
      BY <2>3 DEF SwapAuth
  <2> QED
      BY <2>1, <2>2, <2>3
<1>2. Shape' /\ reload'.at \notin Applying \cup {"file"}
    BY <1>0, <1>1 DEF Shape, Applying
<1> QED
    BY <1>1, <1>2, CoverQuiet

(* A step that writes the policies.                                        *)
LEMMA CoverWrite ==
    ASSUME CoverInv, NEW global, NEW named, newPolicyState(global, named),
           UNCHANGED <<cfg, registry, upsert>>, Shape',
           cfg.dynamic /\ excuses' = {} =>
             /\ ValidateAdmissionInvariants({global}, registry)
             /\ ValidateAdmissionInvariants(Range(named), registry)
             /\ Checked'
    PROVE  CoverInv'
<1>1. /\ state'.index \in Indexes(state'.named, Routing)
      /\ currentAdmissionPolicies' = {global} \cup Range(named)
    BY NewState
<1>2. cfg.dynamic /\ excuses' = {} =>
        ValidateAdmissionInvariants({global} \cup Range(named), registry)
    BY CoverUnion
<1>3. UNCHANGED <<upsert.key, upsert.policies, cfg.dynamic>>
    OBVIOUS
<1>4. upsert.key # None => ValidateAdmissionInvariants(upsert.policies, {upsert.key})
    BY DEF CoverInv
<1>5. upsert'.key # None => ValidateAdmissionInvariants(upsert'.policies, {upsert'.key})
    BY <1>3, <1>4
<1>6. cfg'.dynamic /\ excuses' = {} =>
         /\ ValidateAdmissionInvariants(currentAdmissionPolicies', registry')
         /\ Checked'
    BY <1>1, <1>2, <1>3
<1> QED
    BY <1>1, <1>5, <1>6 DEF CoverInv, Indexes, ValidateAdmissionInvariants

(* While it is not excused, CoverInv says that the policies in force are   *)
(* covered by the keys in force, each part of them apart.                  *)
LEMMA CoverNow ==
    ASSUME CoverInv, cfg.dynamic, excuses = {}
    PROVE  /\ ValidateAdmissionInvariants({state.global}, registry)
           /\ ValidateAdmissionInvariants(Range(state.named), registry)
           /\ Checked
<1>1. currentAdmissionPolicies = {state.global} \cup Range(state.named)
    BY InForce DEF currentAdmissionPolicies
<1>2. ValidateAdmissionInvariants(currentAdmissionPolicies, registry) /\ Checked
    BY DEF CoverInv
<1>3. /\ {state.global} \subseteq currentAdmissionPolicies
      /\ Range(state.named) \subseteq currentAdmissionPolicies
    BY <1>1
<1> QED
    BY <1>2, <1>3 DEF ValidateAdmissionInvariants

(* When a reload writes and no key came in since its check, the keys in    *)
(* force are among those it remembers.                                     *)
LEMMA NoRace ==
    ASSUME NEW k, NEW checked, NoteRace(k, checked), excuses' = {}
    PROVE  excuses = {} /\ k \subseteq checked
BY DEF NoteRace

LEMMA CoverSetPolicyFile ==
    ASSUME CoverInv, SetPolicyFile PROVE CoverInv'
<1>1. /\ newPolicyState(reload.snap.global, state.named) /\ reload' = Idle /\ reload.at = "file"
      /\ UNCHANGED <<cfg, registry, upsert>> /\ NoteRace(registry, reload.keys)
    BY DEF SetPolicyFile, SetPolicy, Done
<1>2. Shape' /\ Checked'
    BY <1>1 DEF Shape, Checked, Applying, Idle
<1>3. ASSUME cfg.dynamic, excuses' = {}
      PROVE  /\ ValidateAdmissionInvariants({reload.snap.global}, registry)
             /\ ValidateAdmissionInvariants(Range(state.named), registry)
  <2>1. excuses = {} /\ registry \subseteq reload.keys
      BY <1>1, <1>3, NoRace
  <2>2. Checked /\ ValidateAdmissionInvariants(Range(state.named), registry)
      BY <1>3, <2>1, CoverNow
  <2>3. ValidateAdmissionInvariants({reload.snap.global}, reload.keys)
      BY <1>1, <2>2 DEF Checked
  <2> QED
      BY <2>1, <2>2, <2>3 DEF ValidateAdmissionInvariants
<1> QED
    BY <1>1, <1>2, <1>3, CoverWrite

(* The check of what a reload proposes, and what it remembers of it.       *)
LEMMA CoverPropose ==
    ASSUME CoverInv, UNCHANGED <<cfg, state, registry, upsert, excuses>>,
           NEW ok, NEW next \in {"file", "global"}, NEW snap, NEW ks, Propose(ok, next, snap),
           registry \subseteq ks,
           ok /\ (next = "file" \/ snap.global # None) => ValidateAdmissionInvariants({snap.global}, ks),
           ok /\ next = "global" => ValidateAdmissionInvariants(Range(snap.named), ks)
    PROVE  CoverInv'
<1>1. CASE ~ok
  <2>1. reload' = Idle
      BY <1>1 DEF Propose
  <2>2. Shape' /\ reload'.at \notin Applying \cup {"file"}
      BY <2>1 DEF Shape, Idle, Applying
  <2> QED
      BY <2>2, CoverQuiet
<1>2. CASE ok
  <2>1. reload' = [Idle EXCEPT !.at = next, !.snap = snap, !.keys = registry]
      BY <1>2 DEF Propose
  <2>2. Shape' /\ reload'.at = next /\ reload'.snap = snap /\ reload'.keys = registry
      BY <2>1 DEF Shape, Idle
  <2>3. UNCHANGED <<currentAdmissionPolicies, state.index, state.named, upsert.key, upsert.policies>>
      BY DEF currentAdmissionPolicies
  <2>4. ASSUME cfg.dynamic, excuses = {} PROVE Checked'
    <3>1. ValidateAdmissionInvariants(Range(state'.named), registry)
        BY <2>3, <2>4, CoverNow
    <3>2. next = "file" \/ snap.global # None => ValidateAdmissionInvariants({snap.global}, registry)
        BY <1>2, CoverSubset
    <3>3. next = "global" => ValidateAdmissionInvariants(Range(snap.named), registry)
        BY <1>2, CoverSubset
    <3> QED
        BY <2>2, <3>1, <3>2, <3>3 DEF Checked, Applying
  <2> QED
      BY <2>2, <2>3, <2>4 DEF CoverInv, Indexes
<1> QED
    BY <1>1, <1>2

LEMMA CoverLoad ==
    ASSUME CoverInv, LoadPolicyFile \/ LoadDir PROVE CoverInv'
<1> DEFINE snap == LoadDirSnapshot(dir)
           ks == registry \union (IF AuthFiles[authFile].yaml
                                  THEN admissionKeysFromConfig(authFile) ELSE {})
           global == IF snap.global = None THEN state.global ELSE snap.global
           one == /\ snap.global \in LoadBytes \intersect validateProviderPolicy
                  /\ checkAdmissionAgainstKeys({snap.global})
           all == /\ ~SnapshotFails(dir)
                  /\ checkAdmissionAgainstKeys(gatherPolicies(global, snap.named))
<1>1. UNCHANGED <<cfg, state, registry, upsert, excuses>> /\ registry \subseteq ks
    BY DEF LoadPolicyFile, LoadDir
<1>2. \/ LoadPolicyFile /\ Propose(one, "file", snap)
      \/ LoadDir /\ Propose(all, "global", snap)
      \/ reload' = Idle
    BY DEF LoadPolicyFile, LoadDir, Done
<1>3. one => ValidateAdmissionInvariants({snap.global}, ks)
    BY DEF checkAdmissionAgainstKeys
<1>4. all => ValidateAdmissionInvariants({global} \cup Range(snap.named), ks)
    BY InForce DEF checkAdmissionAgainstKeys
<1>5. snap.global # None => global = snap.global
    OBVIOUS
<1> HIDE DEF snap, ks, global, one, all
<1>6. CASE Propose(one, "file", snap)
    BY <1>1, <1>3, <1>6, CoverPropose
<1>7. CASE Propose(all, "global", snap)
  <2>1. all => ValidateAdmissionInvariants({global}, ks) /\ ValidateAdmissionInvariants(Range(snap.named), ks)
      BY <1>4 DEF ValidateAdmissionInvariants
  <2>2. all /\ snap.global # None => ValidateAdmissionInvariants({snap.global}, ks)
      BY <1>5, <2>1
  <2> QED
      BY <1>1, <1>7, <2>1, <2>2, CoverPropose
<1>8. CASE reload' = Idle
  <2>1. Shape' /\ reload'.at \notin Applying \cup {"file"}
      BY <1>8 DEF Shape, Idle, Applying
  <2> QED
      BY <1>1, <2>1, CoverQuiet
<1> QED
    BY <1>2, <1>6, <1>7, <1>8

(* The global policy: the file's, which was checked, or the built-in one,  *)
(* which caps nothing.                                                     *)
LEMMA CoverApplyGlobal ==
    ASSUME CoverInv, ApplyGlobal PROVE CoverInv'
<1> DEFINE global == reload.snap.global
<1>0. /\ Shape /\ reload.at = "global"
      /\ UNCHANGED <<cfg, registry, upsert>> /\ NoteRace(registry, reload.keys)
      /\ reload' = [reload EXCEPT !.at = "read", !.ok = global \in validateProviderPolicy \union {None}]
    BY DEF ApplyGlobal, CoverInv
<1>1. /\ Shape' /\ reload'.at = "read"
      /\ UNCHANGED <<reload.snap, reload.keys>>
    BY <1>0 DEF Shape
<1>2. \/ newPolicyState(global, state.named) /\ global # None
      \/ newPolicyState(BuiltIn, state.named)
      \/ UNCHANGED state
  <2>1. None \notin validateProviderPolicy
      BY PolicyAssumption DEF validateProviderPolicy
  <2> QED
      BY <2>1 DEF ApplyGlobal, SetPolicy
<1>3. ASSUME cfg.dynamic, excuses' = {}, UNCHANGED state.named
      PROVE  Checked' /\ ValidateAdmissionInvariants(Range(state.named), registry)
  <2>1. excuses = {}
      BY <1>0, <1>3, NoRace
  <2>2. Checked /\ ValidateAdmissionInvariants(Range(state.named), registry)
      BY <1>3, <2>1, CoverNow
  <2> QED
      BY <1>0, <1>1, <1>3, <2>2 DEF Checked, Applying
<1>4. CASE newPolicyState(global, state.named) /\ global # None
  <2>1. UNCHANGED state.named
      BY <1>4, NewState
  <2>2. ASSUME cfg.dynamic, excuses' = {}
        PROVE  ValidateAdmissionInvariants({global}, registry)
    <3>1. excuses = {} /\ registry \subseteq reload.keys
        BY <1>0, <2>2, NoRace
    <3>2. Checked
        BY <2>2, <3>1, CoverNow
    <3>3. ValidateAdmissionInvariants({global}, reload.keys)
        BY <1>0, <1>4, <3>2 DEF Checked
    <3> HIDE DEF global
    <3> QED
        BY SMTT(60), <3>1, <3>3, CoverSubset
  <2> HIDE DEF global
  <2> QED
      BY <1>0, <1>1, <1>3, <1>4, <2>1, <2>2, CoverWrite
<1>5. CASE newPolicyState(BuiltIn, state.named)
  <2>1. UNCHANGED state.named
      BY <1>5, NewState
  <2>2. ValidateAdmissionInvariants({BuiltIn}, registry)
      BY PolicyAssumption DEF ValidateAdmissionInvariants, Covers
  <2> QED
      BY <1>0, <1>1, <1>3, <1>5, <2>1, <2>2, CoverWrite
<1>6. CASE UNCHANGED state
  <2>1. UNCHANGED <<currentAdmissionPolicies, state.index, state.named, upsert.key, upsert.policies>>
      BY <1>0, <1>6 DEF currentAdmissionPolicies
  <2>2. cfg.dynamic /\ excuses' = {} => excuses = {} /\ Checked'
      BY <1>0, <1>3, <2>1, NoRace
  <2> QED
      BY <1>0, <1>1, <2>1, <2>2 DEF CoverInv, Indexes
<1> QED
    BY <1>2, <1>4, <1>5, <1>6

LEMMA CoverReadNamed ==
    ASSUME CoverInv, ReadNamed PROVE CoverInv'
<1>1. /\ Shape /\ reload.at = "read" /\ UNCHANGED <<cfg, state, registry, upsert, excuses>>
      /\ reload' = [reload EXCEPT !.at = "named", !.current = state.named]
    BY DEF ReadNamed, CoverInv
<1>2. /\ Shape' /\ reload'.at = "named" /\ reload'.current = state.named
      /\ UNCHANGED <<reload.snap, reload.keys>>
    BY <1>1 DEF Shape
<1>3. UNCHANGED <<currentAdmissionPolicies, state.index, state.named, upsert.key, upsert.policies>>
    BY <1>1 DEF currentAdmissionPolicies
<1>4. Checked => Checked'
    BY <1>1, <1>2, <1>3 DEF Checked, Applying
<1> QED
    BY <1>1, <1>2, <1>3, <1>4 DEF CoverInv, Indexes

(* Each document put in force was read from the directory and checked, or  *)
(* was in force when the check was made.                                   *)
LEMMA CoverApplyNamed ==
    ASSUME CoverInv, ApplyNamed PROVE CoverInv'
<1> DEFINE named == [ s \in Accepted \union Restored |->
                        IF s \in Accepted THEN reload.snap.named[s] ELSE reload.current[s] ]
<1>1. /\ newPolicyState(state.global, named) /\ reload' = Idle /\ reload.at = "named"
      /\ UNCHANGED <<cfg, registry, upsert>> /\ NoteRace(registry, reload.keys)
    BY DEF ApplyNamed, SetNamedPoliciesFromSnapshot, Done
<1>2. Shape' /\ Checked'
    BY <1>1 DEF Shape, Checked, Applying, Idle
<1>3. Range(named) \subseteq Range(reload.snap.named) \cup Range(reload.current)
    BY DEF Range, Accepted, Restored
<1> HIDE DEF named
<1>4. ASSUME cfg.dynamic, excuses' = {}
      PROVE  /\ ValidateAdmissionInvariants({state.global}, registry)
             /\ ValidateAdmissionInvariants(Range(named), registry)
  <2>1. excuses = {} /\ registry \subseteq reload.keys
      BY <1>1, <1>4, NoRace
  <2>2. Checked /\ ValidateAdmissionInvariants({state.global}, registry)
      BY <1>4, <2>1, CoverNow
  <2>3. /\ ValidateAdmissionInvariants(Range(reload.snap.named), reload.keys)
        /\ ValidateAdmissionInvariants(Range(reload.current), reload.keys)
      BY <1>1, <2>2 DEF Checked, Applying
  <2> QED
      BY <1>3, <2>1, <2>2, <2>3 DEF ValidateAdmissionInvariants
<1> QED
    BY <1>1, <1>2, <1>4, CoverWrite

(* A write through the admin API is excused; a deletion leaves fewer       *)
(* documents.                                                              *)
LEMMA CoverPut ==
    ASSUME CoverInv, \/ \E d \in Writes[Default] : PutPolicy(d)
                     \/ \E n \in Name : \E d \in Writes[n] : PutModelPolicy(n, d)
    PROVE  CoverInv'
<1>1. /\ UNCHANGED <<cfg, registry, upsert, reload>>
      /\ excuses' = excuses \union {"put"}
    BY DEF PutPolicy, PutModelPolicy
<1>2. Shape' /\ excuses' # {}
    BY <1>1 DEF CoverInv, Shape
<1>3. CASE \E d \in Writes[Default] : PutPolicy(d)
  <2>1. PICK d \in Writes[Default] : PutPolicy(d)
      BY <1>3
  <2>2. newPolicyState(d, state.named)
      BY <2>1 DEF PutPolicy, SetPolicy
  <2> QED
      BY <1>1, <1>2, <2>2, CoverWrite
<1>4. CASE \E n \in Name : \E d \in Writes[n] : PutModelPolicy(n, d)
  <2>1. PICK n \in Name : \E d \in Writes[n] : PutModelPolicy(n, d)
      BY <1>4
  <2>2. PICK d \in Writes[n] : PutModelPolicy(n, d)
      BY <2>1
  <2> DEFINE named == [ o \in DOMAIN state.named \union {n} |-> IF o = n THEN d ELSE state.named[o] ]
  <2>3. newPolicyState(state.global, named)
      BY <2>2 DEF PutModelPolicy, SetNamedPolicy
  <2> HIDE DEF named
  <2> QED
      BY <1>1, <1>2, <2>3, CoverWrite
<1> QED
    BY <1>3, <1>4

LEMMA CoverDeleteModelPolicy ==
    ASSUME CoverInv, NEW n \in Name, DeleteModelPolicy(n) PROVE CoverInv'
<1> DEFINE named == [ o \in DOMAIN state.named \ {n} |-> state.named[o] ]
<1>1. /\ newPolicyState(state.global, named)
      /\ UNCHANGED <<cfg, registry, upsert, reload, excuses>>
    BY DEF DeleteModelPolicy, DeleteNamedPolicy
<1>2. Range(named) \subseteq Range(state.named)
    BY DEF Range
<1> HIDE DEF named
<1>3. Shape' /\ state'.named = named
    BY <1>1, NewState DEF CoverInv, Shape
<1>4. ASSUME cfg.dynamic, excuses' = {}
      PROVE  /\ ValidateAdmissionInvariants({state.global}, registry)
             /\ ValidateAdmissionInvariants(Range(named), registry)
             /\ Checked'
  <2>1. /\ ValidateAdmissionInvariants({state.global}, registry)
        /\ ValidateAdmissionInvariants(Range(state.named), registry)
        /\ Checked
      BY <1>1, <1>4, CoverNow
  <2>2. ValidateAdmissionInvariants(Range(named), registry)
      BY <1>2, <2>1 DEF ValidateAdmissionInvariants
  <2>3. reload.at \in Applying => ValidateAdmissionInvariants(Range(named), reload.keys)
      BY <1>2, <2>1 DEF Checked, ValidateAdmissionInvariants
  <2>4. Checked'
      BY <1>1, <1>3, <2>1, <2>3 DEF Checked
  <2> QED
      BY <2>1, <2>2, <2>4
<1> QED
    BY <1>1, <1>3, <1>4, CoverWrite

(* A key is checked against the policies in force, and written when they   *)
(* are still among those it was checked against.                           *)
LEMMA CoverKeys ==
    ASSUME CoverInv, \/ \E k \in DOMAIN Keys : CheckKey(k) \/ DeleteAPIKey(k)
                     \/ WriteKey
    PROVE  CoverInv'
<1>1. UNCHANGED <<cfg, state, reload>>
    BY DEF CheckKey, DeleteAPIKey, WriteKey
<1>2. /\ UNCHANGED <<currentAdmissionPolicies, state.index, state.named>>
      /\ Shape' /\ (Checked => Checked')
      /\ state'.index \in Indexes(state'.named, Routing)
    BY <1>1 DEF currentAdmissionPolicies, Shape, Checked, CoverInv, Indexes
<1>3. ASSUME NEW k \in DOMAIN Keys, CheckKey(k) PROVE CoverInv'
  <2>1. /\ ValidateAdmissionInvariants(currentAdmissionPolicies, {k})
        /\ upsert' = [key |-> k, policies |-> currentAdmissionPolicies]
        /\ UNCHANGED <<registry, excuses>>
      BY <1>3 DEF CheckKey, validateKeyAdmission
  <2>2. upsert'.key = k /\ upsert'.policies = currentAdmissionPolicies
      BY <2>1
  <2>3. ValidateAdmissionInvariants(upsert'.policies, {upsert'.key})
      BY <2>1, <2>2
  <2> QED
      BY <1>1, <1>2, <2>1, <2>3 DEF CoverInv, ValidateAdmissionInvariants
<1>4. ASSUME NEW k \in DOMAIN Keys, DeleteAPIKey(k) PROVE CoverInv'
  <2>1. registry' = registry \ {k} /\ UNCHANGED <<upsert, excuses>>
      BY <1>4 DEF DeleteAPIKey
  <2>2. UNCHANGED <<upsert.key, upsert.policies>>
      BY <2>1
  <2> QED
      BY <1>1, <1>2, <2>1, <2>2 DEF CoverInv, ValidateAdmissionInvariants
<1>5. CASE WriteKey
  <2>1. /\ upsert.key # None /\ registry' = registry \union {upsert.key}
        /\ upsert' = NoUpsert /\ NoteRace(currentAdmissionPolicies, upsert.policies)
      BY <1>5 DEF WriteKey
  <2>2. upsert'.key = None
      BY <2>1 DEF NoUpsert
  <2>3. ASSUME cfg.dynamic, excuses' = {}
        PROVE  ValidateAdmissionInvariants(currentAdmissionPolicies, registry') /\ Checked
    <3>1. excuses = {} /\ currentAdmissionPolicies \subseteq upsert.policies
        BY <2>1, <2>3, NoRace
    <3>2. /\ ValidateAdmissionInvariants(currentAdmissionPolicies, registry) /\ Checked
          /\ ValidateAdmissionInvariants(upsert.policies, {upsert.key})
        BY <2>1, <2>3, <3>1 DEF CoverInv
    <3> QED
        BY <2>1, <3>1, <3>2 DEF ValidateAdmissionInvariants
  <2> QED
      BY <1>1, <1>2, <2>2, <2>3 DEF CoverInv, ValidateAdmissionInvariants
<1> QED
    BY <1>3, <1>4, <1>5

LEMMA CoverNext ==
    ASSUME CoverInv, [Next]_vars PROVE CoverInv'
<1>1. CASE \/ \E s \in Name \union {Default} : \E d \in Writes[s] : WriteFile(s, d)
           \/ \E s \in Name \union {Default} : RemoveFile(s)
           \/ \E f \in DOMAIN AuthFiles : WriteAuth(f)
           \/ Sighup
  <2>1. UNCHANGED <<cfg, state, registry, upsert, excuses, reload>>
      BY <1>1 DEF WriteFile, RemoveFile, WriteAuth, Sighup
  <2>2. Shape'
      BY <2>1 DEF CoverInv, Shape
  <2> QED
      BY <2>1, <2>2, CoverQuiet
<1>2. CASE UNCHANGED vars
  <2>1. UNCHANGED <<cfg, state, registry, upsert, excuses, reload>>
      BY <1>2 DEF vars
  <2>2. Shape'
      BY <2>1 DEF CoverInv, Shape
  <2> QED
      BY <2>1, <2>2, CoverQuiet
<1> QED
    BY <1>1, <1>2, CoverReading, CoverLoad, CoverSetPolicyFile, CoverApplyGlobal, CoverReadNamed,
       CoverApplyNamed, CoverPut, CoverDeleteModelPolicy, CoverKeys DEF Next

(* Dynamic keys cover the policies that govern the models they may call.   *)
THEOREM KeysCovered == Spec => []CoverKept
<1>1. Init => CoverInv
    BY CoverInit
<1>2. CoverInv /\ [Next]_vars => CoverInv'
    BY CoverNext
<1>3. CoverInv => CoverKept
    BY CoverSuffices
<1> QED
    BY <1>1, <1>2, <1>3, PTL DEF Spec

-----------------------------------------------------------------------------
(* The files.                                                              *)

(* What a snapshot names is among the files it read, and no two of the     *)
(* documents it names claim a model.                                       *)
SnapOK(snap) ==
    /\ snap.named = [ s \in DOMAIN snap.named |-> snap.hashes[s] ]
    /\ \A m \in Model : AtMostOne(Claimants(snap.named, m))

(* The directory has one file of a name, and so had the one that a reload  *)
(* read before it applies it.                                              *)
DirInv ==
    /\ dir \in Seq(File) /\ OnePerStem(dir)
    /\ reload.at \in Applying => SnapOK(reload.snap)

LEMMA Least ==
    ASSUME NEW T, T \subseteq Nat, T # {}
    PROVE  \E x \in T : \A y \in T : x <= y
<1>1. PICK x \in T : \A y \in T : ~(<<y, x>> \in OpToRel(<, Nat))
    BY NatLessThanWellFounded, WFMin
<1>2. ASSUME NEW y \in T PROVE x <= y
  <2>1. x \in Nat /\ y \in Nat
      OBVIOUS
  <2>2. ~(y < x)
      BY <1>1, <2>1 DEF OpToRel
  <2> QED
      BY SMTT(60), <2>1, <2>2
<1> QED
    BY <1>2

(* The first n files and those of them that load: by induction on n.       *)
Claims(d, n, l) ==
    l \subseteq 1..n /\ \A i \in 1..n :
        i \in l <=> Loads(d[i]) /\ \A j \in l : j < i => ~Clash(d, i, j)

LEMMA ClaimsStep ==
    ASSUME NEW d, NEW n \in Nat, NEW l, Claims(d, n, l)
    PROVE  \E k : Claims(d, n + 1, k)
<1> DEFINE fits == Loads(d[n + 1]) /\ \A j \in l : ~Clash(d, n + 1, j)
           k == IF fits THEN l \cup {n + 1} ELSE l
<1>1. l \subseteq 1..n /\ n + 1 \notin 1..n /\ 1..(n + 1) = (1..n) \cup {n + 1}
    BY SMTT(60) DEF Claims
<1>2. \A i \in 1..n : ~(n + 1 < i) /\ i < n + 1
    BY SMTT(60)
<1>3. k \subseteq 1..(n + 1)
    BY <1>1
<1>4. ASSUME NEW i \in 1..n
      PROVE  i \in k <=> Loads(d[i]) /\ \A j \in k : j < i => ~Clash(d, i, j)
  <2>1. (i \in k <=> i \in l) /\ \A j \in k : j < i => j \in l
      BY <1>1, <1>2
  <2>2. l \subseteq k
      OBVIOUS
  <2>3. i \in l <=> Loads(d[i]) /\ \A j \in l : j < i => ~Clash(d, i, j)
      BY DEF Claims
  <2> HIDE DEF k
  <2> QED
      BY <2>1, <2>2, <2>3
<1>5. n + 1 \in k <=> Loads(d[n + 1]) /\ \A j \in k : j < n + 1 => ~Clash(d, n + 1, j)
  <2>1. ~(n + 1 < n + 1)
      BY SMTT(60)
  <2>2. \A j \in l : j < n + 1
      BY <1>1, <1>2
  <2>3. CASE fits
      BY <2>1, <2>3
  <2>4. CASE ~fits
      BY <1>1, <2>2, <2>4
  <2> QED
      BY <2>3, <2>4
<1> HIDE DEF k
<1>6. Claims(d, n + 1, k)
    BY SMTT(60), <1>1, <1>3, <1>4, <1>5 DEF Claims
<1> QED
    BY <1>6

LEMMA ClaimsExist ==
    ASSUME NEW d, NEW n \in Nat PROVE \E l : Claims(d, n, l)
<1> DEFINE T == { k \in Nat : ~\E l : Claims(d, k, l) }
<1>1. SUFFICES ASSUME T # {} PROVE FALSE
    OBVIOUS
<1>2. PICK k \in T : \A j \in T : k <= j
  <2>1. T \subseteq Nat
      OBVIOUS
  <2> HIDE DEF T
  <2> QED
      BY <1>1, <2>1, Least
<1>3. Claims(d, 0, {})
  <2>1. 1..0 = {}
      BY SMTT(60)
  <2> QED
      BY <2>1 DEF Claims
<1>4. k # 0 /\ k \in Nat
    BY <1>3
<1>5. k - 1 \in Nat /\ ~(k <= k - 1) /\ (k - 1) + 1 = k
    BY SMTT(60), <1>4
<1>6. k - 1 \notin T
    BY <1>2, <1>5
<1>7. PICK l : Claims(d, k - 1, l)
    BY <1>5, <1>6
<1>8. \E j : Claims(d, (k - 1) + 1, j)
    BY <1>5, <1>7, ClaimsStep
<1> QED
    BY <1>2, <1>5, <1>8

(* FirstClaims is what the loop of LoadDirSnapshot computes.               *)
LEMMA FirstClaimsIs ==
    ASSUME NEW d \in Seq(File)
    PROVE  Claims(d, Len(d), FirstClaims(d)) /\ DOMAIN d = 1..Len(d)
<1>1. Len(d) \in Nat /\ DOMAIN d = 1..Len(d)
    BY SMTT(60)
<1>2. PICK l : Claims(d, Len(d), l)
    BY <1>1, ClaimsExist
<1>3. \E k \in SUBSET DOMAIN d : \A i \in DOMAIN d :
        i \in k <=> Loads(d[i]) /\ \A j \in k : j < i => ~Clash(d, i, j)
    BY <1>1, <1>2 DEF Claims
<1> QED
    BY <1>1, <1>3 DEF FirstClaims, Claims

(* A file's contents are those of its name.                                *)
LEMMA HashesOf ==
    ASSUME NEW d, OnePerStem(d), NEW i \in DOMAIN d
    PROVE  Hashes(d)[d[i].stem] = d[i].doc /\ d[i].stem \in DOMAIN Hashes(d)
<1> DEFINE s == d[i].stem
           f == CHOOSE f \in Range(d) : f.stem = s
<1>1. d[i] \in Range(d)
    BY DEF Range
<1>2. f \in Range(d) /\ f.stem = s
    BY <1>1
<1>3. PICK j \in DOMAIN d : d[j] = f
    BY <1>2 DEF Range
<1>4. j = i
    BY <1>2, <1>3 DEF OnePerStem
<1>5. s \in { g.stem : g \in Range(d) }
    BY <1>1
<1> QED
    BY <1>3, <1>4, <1>5 DEF Hashes

LEMMA SnapshotOK ==
    ASSUME NEW d \in Seq(File), OnePerStem(d) PROVE SnapOK(LoadDirSnapshot(d))
<1> DEFINE snap == LoadDirSnapshot(d)
           l == FirstClaims(d)
<1>1. /\ snap.hashes = Hashes(d)
      /\ snap.named = [ s \in { d[i].stem : i \in l } |-> Hashes(d)[s] ]
    BY DEF LoadDirSnapshot
<1>2. Claims(d, Len(d), l) /\ DOMAIN d = 1..Len(d)
    BY FirstClaimsIs
<1> HIDE DEF snap, l
<1>3. ASSUME NEW m \in Model, NEW x \in Claimants(snap.named, m), NEW y \in Claimants(snap.named, m)
      PROVE  x = y
  <2>1. /\ x \in { d[i].stem : i \in l } /\ m \in Models(Hashes(d)[x])
        /\ y \in { d[i].stem : i \in l } /\ m \in Models(Hashes(d)[y])
      BY <1>1 DEF Claimants
  <2>2. PICK i \in l : x = d[i].stem
      BY <2>1
  <2>3. PICK j \in l : y = d[j].stem
      BY <2>1
  <2>4. i \in 1..Len(d) /\ j \in 1..Len(d)
      BY <1>2 DEF Claims
  <2>5. m \in Models(d[i].doc) /\ m \in Models(d[j].doc)
      BY <1>2, <2>1, <2>2, <2>3, <2>4, HashesOf
  <2>6. Clash(d, i, j) /\ Clash(d, j, i)
      BY <2>5 DEF Clash
  <2>7. ~(j < i) /\ ~(i < j)
      BY <1>2, <2>4, <2>6 DEF Claims
  <2>8. i = j
    <3>1. Len(d) \in Nat
        BY SMTT(60)
    <3> QED
        BY SMTT(60), <2>4, <2>7, <3>1
  <2> QED
      BY <2>2, <2>3, <2>8
<1>4. snap.named = [ s \in DOMAIN snap.named |-> snap.hashes[s] ]
    BY <1>1
<1> QED
    BY <1>3, <1>4 DEF SnapOK, AtMostOne, snap

(* What is left of a sequence without one of its elements.                 *)
LEMMA RemoveIs ==
    ASSUME NEW d \in Seq(File), NEW i \in 1..Len(d)
    PROVE  LET e == SubSeq(d, 1, i - 1) \o SubSeq(d, i + 1, Len(d)) IN
           /\ e \in Seq(File) /\ DOMAIN e = 1..(Len(d) - 1)
           /\ \A j \in 1..(Len(d) - 1) : e[j] = IF j < i THEN d[j] ELSE d[j + 1]
<1> DEFINE a == SubSeq(d, 1, i - 1)
           b == SubSeq(d, i + 1, Len(d))
<1>0. Len(d) \in Nat /\ i \in Nat /\ (i - 1) + (Len(d) - i) = Len(d) - 1
    BY SMTT(60)
<1>1. a \in Seq(File) /\ Len(a) = i - 1 /\ \A j \in 1..(i - 1) : a[j] = d[j]
    BY SMTT(60)
<1>2. b \in Seq(File) /\ Len(b) = Len(d) - i /\ \A j \in 1..(Len(d) - i) : b[j] = d[i + j]
    BY SMTT(60)
<1> HIDE DEF a, b
<1>3. /\ (a \o b) \in Seq(File) /\ DOMAIN (a \o b) = 1..(Len(a) + Len(b))
      /\ \A j \in 1..(Len(a) + Len(b)) : (a \o b)[j] = IF j <= Len(a) THEN a[j] ELSE b[j - Len(a)]
  <2>1. a \in Seq(File) /\ b \in Seq(File)
      BY <1>1, <1>2
  <2> QED
      BY SMTT(60), <2>1
<1>4. ASSUME NEW j \in 1..(Len(d) - 1)
      PROVE  (a \o b)[j] = IF j < i THEN d[j] ELSE d[j + 1]
  <2>1. (a \o b)[j] = IF j <= i - 1 THEN a[j] ELSE b[j - (i - 1)]
      BY <1>0, <1>1, <1>2, <1>3
  <2>2. CASE j < i
    <3>1. j \in 1..(i - 1) /\ j <= i - 1
        BY SMTT(60), <1>0, <2>2
    <3> QED
        BY <1>1, <2>1, <2>2, <3>1
  <2>3. CASE ~(j < i)
    <3>1. j - (i - 1) \in 1..(Len(d) - i) /\ i + (j - (i - 1)) = j + 1 /\ ~(j <= i - 1)
        BY SMTT(60), <1>0, <2>3
    <3> QED
        BY <1>2, <2>1, <2>3, <3>1
  <2> QED
      BY <2>2, <2>3
<1> QED
    BY <1>0, <1>1, <1>2, <1>3, <1>4 DEF a, b

(* A directory without one of its files.                                   *)
LEMMA WithoutIs ==
    ASSUME DirInv, NEW s
    PROVE  /\ Without(s) \in Seq(File) /\ OnePerStem(Without(s))
           /\ \A j \in DOMAIN Without(s) : Without(s)[j].stem # s
<1> DEFINE here == { i \in DOMAIN dir : dir[i].stem = s }
           at == CHOOSE i \in here : TRUE
           n == Len(dir)
           e == SubSeq(dir, 1, at - 1) \o SubSeq(dir, at + 1, n)
<1>1. dir \in Seq(File) /\ OnePerStem(dir)
    BY DEF DirInv
<1>2. CASE here = {}
    BY <1>1, <1>2 DEF Without
<1>3. CASE here # {}
  <2>1. at \in DOMAIN dir /\ dir[at].stem = s
      BY <1>3
  <2>2. Without(s) = e
      BY <1>3 DEF Without
  <2> HIDE DEF at
  <2>3. n \in Nat /\ DOMAIN dir = 1..n /\ at \in 1..n
      BY SMTT(60), <1>1, <2>1
  <2>4. /\ e \in Seq(File) /\ DOMAIN e = 1..(n - 1)
        /\ \A j \in 1..(n - 1) : e[j] = IF j < at THEN dir[j] ELSE dir[j + 1]
      BY <1>1, <2>3, RemoveIs
  <2> HIDE DEF e, n
  <2> DEFINE was(j) == IF j < at THEN j ELSE j + 1
  <2>5. ASSUME NEW j \in DOMAIN e
        PROVE  j \in Int /\ was(j) \in 1..n /\ was(j) # at /\ e[j] = dir[was(j)]
    <3>1. j \in 1..(n - 1)
        BY <2>4
    <3>2. j \in Int /\ was(j) \in 1..n /\ was(j) # at
        BY SMTT(60), <2>3, <3>1
    <3> QED
        BY <2>4, <3>1, <3>2
  <2>6. ASSUME NEW j \in DOMAIN e, NEW k \in DOMAIN e, e[j].stem = e[k].stem PROVE j = k
    <3>1. was(j) = was(k)
        BY <1>1, <2>3, <2>5, <2>6 DEF OnePerStem
    <3>2. j \in Int /\ k \in Int /\ at \in Int
        BY SMTT(60), <2>3, <2>5
    <3> QED
        BY SMTT(60), <3>1, <3>2
  <2>7. ASSUME NEW j \in DOMAIN e PROVE e[j].stem # s
      BY <1>1, <2>1, <2>3, <2>5 DEF OnePerStem
  <2> QED
      BY <2>2, <2>4, <2>6, <2>7 DEF OnePerStem
<1> QED
    BY <1>2, <1>3

(* A file of a new name, first or last.                                    *)
LEMMA OneMore ==
    ASSUME NEW d \in Seq(File), OnePerStem(d), NEW f \in File,
           \A j \in DOMAIN d : d[j].stem # f.stem
    PROVE  /\ d \o <<f>> \in Seq(File) /\ OnePerStem(d \o <<f>>)
           /\ <<f>> \o d \in Seq(File) /\ OnePerStem(<<f>> \o d)
<1>1. DOMAIN d = 1..Len(d) /\ Len(d) \in Nat
    BY SMTT(60)
<1> DEFINE n == Len(d)
<1>2. /\ d \o <<f>> \in Seq(File) /\ DOMAIN (d \o <<f>>) = 1..(n + 1)
      /\ \A j \in 1..(n + 1) : (d \o <<f>>)[j] = IF j = n + 1 THEN f ELSE d[j]
    BY SMTT(60)
<1>3. /\ <<f>> \o d \in Seq(File) /\ DOMAIN (<<f>> \o d) = 1..(n + 1)
      /\ \A j \in 1..(n + 1) : (<<f>> \o d)[j] = IF j = 1 THEN f ELSE d[j - 1]
    BY SMTT(60)
<1>4. \A j \in 1..(n + 1) : j # n + 1 => j \in 1..n
    BY SMTT(60), <1>1
<1>5. \A j \in 1..(n + 1) : j # 1 => j - 1 \in 1..n
    BY SMTT(60), <1>1
<1>6. \A j, k \in 1..(n + 1) : j - 1 = k - 1 => j = k
    BY SMTT(60), <1>1
<1>7. OnePerStem(d \o <<f>>)
    BY <1>1, <1>2, <1>4 DEF OnePerStem
<1>8. OnePerStem(<<f>> \o d)
    BY SMTT(60), <1>1, <1>3, <1>5, <1>6 DEF OnePerStem
<1> QED
    BY <1>2, <1>3, <1>7, <1>8

LEMMA DirFiles ==
    ASSUME DirInv, NEW s \in Name \union {Default},
           (\E d \in Writes[s] : WriteFile(s, d)) \/ RemoveFile(s)
    PROVE  dir' \in Seq(File) /\ OnePerStem(dir')
<1>1. /\ Without(s) \in Seq(File) /\ OnePerStem(Without(s))
      /\ \A j \in DOMAIN Without(s) : Without(s)[j].stem # s
    BY WithoutIs
<1>2. CASE RemoveFile(s)
    BY <1>1, <1>2 DEF RemoveFile
<1>3. ASSUME NEW d \in Writes[s], WriteFile(s, d)
      PROVE  dir' \in Seq(File) /\ OnePerStem(dir')
  <2> DEFINE f == [stem |-> s, doc |-> d]
  <2>1. d \in Docs
      BY PolicyAssumption
  <2>2. f \in File /\ f.stem = s
      BY <2>1 DEF File
  <2>3. dir' \in {Without(s) \o <<f>>, <<f>> \o Without(s)}
      BY <1>3 DEF WriteFile
  <2> HIDE DEF f
  <2> QED
      BY <1>1, <2>2, <2>3, OneMore
<1> QED
    BY <1>2, <1>3

LEMMA DirInit ==
    ASSUME Init PROVE DirInv
<1>1. dir \in Dirs /\ reload.at = "idle"
    BY DEF Init, Idle
<1> QED
    BY <1>1, PolicyAssumption DEF DirInv, Applying

(* What the goroutine applies was read in one step.                        *)
LEMMA SnapNext ==
    ASSUME CoverInv, DirInv, Next, reload'.at \in Applying PROVE SnapOK(reload'.snap)
<1>0. Shape /\ "idle" \notin Applying /\ "file" \notin Applying
    BY DEF CoverInv, Applying
<1>1. CASE UNCHANGED reload
    BY <1>1 DEF DirInv
<1>2. CASE TakeSignal \/ ReadAuth \/ SwapAuth
  <2>1. reload'.at \in {"auth", "swap", "policy"}
      BY <1>0, <1>2 DEF TakeSignal, ReadAuth, SwapAuth, Shape
  <2> QED
      BY <2>1 DEF Applying
<1>3. CASE SetPolicyFile \/ ApplyNamed
    BY SMTT(60), <1>0, <1>3 DEF SetPolicyFile, ApplyNamed, Done, Idle
<1>4. CASE LoadPolicyFile \/ LoadDir
  <2> DEFINE snap == LoadDirSnapshot(dir)
  <2>1. \/ reload' = Idle
        \/ reload' = [Idle EXCEPT !.at = "file", !.snap = snap, !.keys = registry]
        \/ reload' = [Idle EXCEPT !.at = "global", !.snap = snap, !.keys = registry]
      BY <1>4 DEF LoadPolicyFile, LoadDir, Propose, Done
  <2>2. SnapOK(snap)
      BY SnapshotOK DEF DirInv
  <2> HIDE DEF snap
  <2>3. reload' # Idle => reload'.snap = snap
      BY <2>1 DEF Idle
  <2>4. Idle.at = "idle"
      BY DEF Idle
  <2> QED
      BY <1>0, <2>2, <2>3, <2>4
<1>5. CASE ApplyGlobal \/ ReadNamed
  <2>1. reload.at \in Applying
      BY <1>5 DEF ApplyGlobal, ReadNamed, Applying
  <2>2. reload'.snap = reload.snap
      BY <1>0, <1>5 DEF ApplyGlobal, ReadNamed, Shape
  <2> QED
      BY <2>1, <2>2 DEF DirInv
<1>6. UNCHANGED reload \/ TakeSignal \/ ReadAuth \/ SwapAuth \/ LoadPolicyFile \/ SetPolicyFile
      \/ LoadDir \/ ApplyGlobal \/ ReadNamed \/ ApplyNamed
    BY DEF Next, WriteFile, RemoveFile, WriteAuth, Sighup, PutPolicy, PutModelPolicy, DeleteModelPolicy,
           CheckKey, WriteKey, DeleteAPIKey
<1> QED
    BY <1>1, <1>2, <1>3, <1>4, <1>5, <1>6

LEMMA DirNext ==
    ASSUME CoverInv, DirInv, [Next]_vars PROVE DirInv'
<1>1. CASE UNCHANGED vars
    BY <1>1 DEF vars, DirInv
<1>2. CASE Next
  <2>1. CASE UNCHANGED dir
      BY <1>2, <2>1, SnapNext DEF DirInv
  <2>2. ASSUME NEW s \in Name \union {Default},
               (\E d \in Writes[s] : WriteFile(s, d)) \/ RemoveFile(s)
        PROVE  DirInv'
      BY <1>2, <2>2, DirFiles, SnapNext DEF DirInv
  <2> QED
      BY <1>2, <2>1, <2>2 DEF Next, files, WriteAuth, Sighup, TakeSignal, ReadAuth, SwapAuth,
         LoadPolicyFile, SetPolicyFile, LoadDir, ApplyGlobal, ReadNamed, ApplyNamed, PutPolicy,
         PutModelPolicy, DeleteModelPolicy, CheckKey, WriteKey, DeleteAPIKey
<1> QED
    BY <1>1, <1>2

-----------------------------------------------------------------------------
(* The step that replaces the named documents.                             *)

LEMMA ReloadedStep ==
    ASSUME [Next]_vars, Reloaded
    PROVE  /\ ApplyNamed
           /\ state'.named = [ s \in Accepted \union Restored |->
                IF s \in Accepted THEN reload.snap.named[s] ELSE reload.current[s] ]
<1>1. reload' # reload /\ reload.at = "named"
    BY DEF Reloaded
<1>2. reload.at \notin {"idle", "auth", "swap", "policy", "file", "global", "read"}
    BY <1>1
<1>3. Next
    BY <1>1 DEF vars
<1>4. ApplyNamed
    BY <1>1, <1>2, <1>3 DEF Next, WriteFile, RemoveFile, WriteAuth, Sighup, TakeSignal, ReadAuth,
       SwapAuth, LoadPolicyFile, SetPolicyFile, LoadDir, ApplyGlobal, ReadNamed, PutPolicy,
       PutModelPolicy, DeleteModelPolicy, CheckKey, WriteKey, DeleteAPIKey
<1> DEFINE named == [ s \in Accepted \union Restored |->
                        IF s \in Accepted THEN reload.snap.named[s] ELSE reload.current[s] ]
<1>5. newPolicyState(state.global, named)
    BY <1>4 DEF ApplyNamed, SetNamedPoliciesFromSnapshot
<1> HIDE DEF named
<1>6. state'.named = named
    BY <1>5, NewState
<1> QED
    BY <1>4, <1>6 DEF named

(* A document that an unchanged file alone claims keeps its model: the     *)
(* file's own document is put back whether or not it is in the snapshot,   *)
(* and it bars every other that was not in force or not loaded before.     *)
LEMMA EstablishedStep ==
    ASSUME DirInv, [Next]_vars, Reloaded, NEW s \in DOMAIN reload.current, NEW m \in Model,
           Present(s), Unchanged(s), hashes[s] = reload.current[s],
           Claimants(reload.current, m) = {s}, Claimants(hashes, m) = {s}
    PROVE  Claimants(state'.named, m) = {s}
<1> DEFINE named == reload.snap.named
<1>1. state'.named = [ x \in Accepted \union Restored |->
                         IF x \in Accepted THEN named[x] ELSE reload.current[x] ]
    BY ReloadedStep
<1>2. \A x \in DOMAIN named : named[x] = reload.snap.hashes[x]
  <2>1. SnapOK(reload.snap)
      BY DEF Reloaded, DirInv, Applying
  <2> QED
      BY <2>1 DEF SnapOK
<1>3. /\ m \in Models(reload.current[s])
      /\ \A x \in DOMAIN reload.current : m \in Models(reload.current[x]) => x = s
      /\ \A x \in DOMAIN hashes : m \in Models(hashes[x]) => x = s
    BY DEF Claimants
<1>4. s \in DOMAIN named => named[s] = reload.current[s]
    BY <1>2 DEF Unchanged
<1>5. m \in establishedOwners
  <2>1. CASE s \in DOMAIN named
      BY <1>3, <1>4, <2>1 DEF establishedOwners
  <2>2. CASE s \notin DOMAIN named
      BY <1>3, <2>2 DEF establishedOwners
  <2> QED
      BY <2>1, <2>2
<1>6. ASSUME NEW x \in Accepted, m \in Models(named[x]) PROVE x = s
  <2>1. Unchanged(x)
      BY <1>5, <1>6 DEF Accepted
  <2>2. x \in DOMAIN named
      BY DEF Accepted
  <2> QED
      BY <1>2, <1>3, <1>6, <2>1, <2>2 DEF Unchanged
<1>7. ASSUME NEW x \in Restored, m \in Models(reload.current[x]) PROVE x = s
    BY <1>3, <1>7 DEF Restored
<1>8. s \in Accepted \union Restored
    BY DEF Restored
<1>9. s \in Accepted => s \in DOMAIN named
    BY DEF Accepted
<1> HIDE DEF named
<1>10. m \in Models(state'.named[s])
    BY <1>1, <1>3, <1>4, <1>8, <1>9
<1>11. ASSUME NEW x \in DOMAIN state'.named, m \in Models(state'.named[x]) PROVE x = s
    BY <1>1, <1>6, <1>7, <1>11
<1> QED
    BY <1>1, <1>8, <1>10, <1>11 DEF Claimants

(* A file that is there keeps a policy, and a success is the snapshot.     *)
LEMMA PresentStep ==
    ASSUME DirInv, [Next]_vars, Reloaded
    PROVE  /\ \A s \in DOMAIN reload.current : Present(s) => s \in DOMAIN state'.named
           /\ result' = "success" =>
                 /\ state'.named = reload.snap.named
                 /\ \A m \in Model : AtMostOne(Claimants(state'.named, m))
<1>1. /\ ApplyNamed
      /\ state'.named = [ s \in Accepted \union Restored |->
            IF s \in Accepted THEN reload.snap.named[s] ELSE reload.current[s] ]
    BY ReloadedStep
<1>2. SnapOK(reload.snap)
    BY DEF Reloaded, DirInv, Applying
<1>3. \A s \in DOMAIN reload.current : Present(s) => s \in Accepted \union Restored
    BY DEF Restored
<1>4. ASSUME result' = "success" PROVE state'.named = reload.snap.named
  <2>1. reloadOK
      BY <1>1, <1>4 DEF ApplyNamed, Done
  <2>2. Accepted = DOMAIN reload.snap.named /\ Restored = {}
      BY <2>1 DEF reloadOK
  <2>3. state'.named = [ s \in DOMAIN reload.snap.named |-> reload.snap.named[s] ]
      BY <1>1, <2>2
  <2>4. reload.snap.named = [ s \in DOMAIN reload.snap.named |-> reload.snap.hashes[s] ]
      BY <1>2 DEF SnapOK
  <2> QED
      BY <2>3, <2>4
<1> QED
    BY <1>1, <1>2, <1>3, <1>4 DEF SnapOK

(* The files and what a reload has read of them, with the invariant the    *)
(* keys rest on.                                                           *)
LEMMA FilesRead == Spec => [](CoverInv /\ DirInv)
<1>1. Init => CoverInv /\ DirInv
    BY CoverInit, DirInit
<1>2. CoverInv /\ DirInv /\ [Next]_vars => CoverInv' /\ DirInv'
    BY CoverNext, DirNext
<1> QED
    BY <1>1, <1>2, PTL DEF Spec

(* An unchanged file that alone claims a model alone owns it after the     *)
(* reload.                                                                 *)
THEOREM EstablishedStays == Spec => EstablishedKept
<1>1. DirInv /\ [Next]_vars => [ Reloaded =>
        \A s \in DOMAIN reload.current, m \in Model :
            /\ Present(s) /\ Unchanged(s) /\ hashes[s] = reload.current[s]
            /\ Claimants(reload.current, m) = {s} /\ Claimants(hashes, m) = {s}
            => Claimants(state'.named, m) = {s} ]_vars
    BY EstablishedStep
<1> QED
    BY <1>1, FilesRead, PTL DEF Spec, EstablishedKept

(* A reload removes no policy whose file is there, and one reported as a   *)
(* success leaves what it read in force, each model with one owner.        *)
THEOREM PresentStays == Spec => PresentKept
<1>1. DirInv /\ [Next]_vars => [ Reloaded =>
        /\ \A s \in DOMAIN reload.current : Present(s) => s \in DOMAIN state'.named
        /\ result' = "success" =>
              /\ state'.named = reload.snap.named
              /\ \A m \in Model : AtMostOne(Claimants(state'.named, m)) ]_vars
    BY PresentStep
<1> QED
    BY <1>1, FilesRead, PTL DEF Spec, PresentKept

-----------------------------------------------------------------------------
(* The signals.                                                            *)

(* A change that was signalled and not read yet has its signal waiting in  *)
(* the channel, or taken by a reload that has yet to read the directory.   *)
SignalInv ==
    "unread" \in edited /\ "unsignalled" \notin edited =>
        sig \/ reload.at \in {"auth", "swap", "policy"}

LEMMA SignalNext ==
    ASSUME CoverInv, SignalInv, [Next]_vars PROVE SignalInv'
<1>0. Shape
    BY DEF CoverInv
<1>1. CASE \/ \E s \in Name \union {Default} : \E d \in Writes[s] : WriteFile(s, d)
           \/ \E s \in Name \union {Default} : RemoveFile(s)
  <2>1. edited' = {"unsignalled", "unread"}
      BY <1>1 DEF WriteFile, RemoveFile
  <2> QED
      BY <2>1 DEF SignalInv
<1>2. CASE Sighup
    BY <1>2 DEF Sighup, Buffered, SignalInv
<1>3. CASE TakeSignal \/ ReadAuth \/ SwapAuth
  <2>1. reload'.at \in {"auth", "swap", "policy"}
      BY <1>0, <1>3 DEF TakeSignal, ReadAuth, SwapAuth, Shape
  <2> QED
      BY <2>1 DEF SignalInv
<1>4. CASE LoadPolicyFile \/ LoadDir
  <2>1. "unread" \notin edited'
      BY <1>4 DEF LoadPolicyFile, LoadDir
  <2> QED
      BY <2>1 DEF SignalInv
<1>5. CASE SetPolicyFile \/ ApplyGlobal \/ ReadNamed \/ ApplyNamed
  <2>1. reload.at \notin {"auth", "swap", "policy"} /\ UNCHANGED <<sig, edited>>
      BY <1>5 DEF SetPolicyFile, ApplyGlobal, ReadNamed, ApplyNamed
  <2> QED
      BY <2>1 DEF SignalInv
<1>6. CASE UNCHANGED <<sig, edited, reload>>
    BY <1>6 DEF SignalInv
<1>7. CASE UNCHANGED vars
    BY <1>6, <1>7 DEF vars
<1>8. ASSUME Next
      PROVE  \/ \E s \in Name \union {Default} : \E d \in Writes[s] : WriteFile(s, d)
             \/ \E s \in Name \union {Default} : RemoveFile(s)
             \/ Sighup \/ TakeSignal \/ ReadAuth \/ SwapAuth \/ LoadPolicyFile \/ LoadDir
             \/ SetPolicyFile \/ ApplyGlobal \/ ReadNamed \/ ApplyNamed
             \/ UNCHANGED <<sig, edited, reload>>
    BY <1>8 DEF Next, WriteAuth, PutPolicy, PutModelPolicy, DeleteModelPolicy, CheckKey, WriteKey,
                DeleteAPIKey
<1> QED
    BY <1>1, <1>2, <1>3, <1>4, <1>5, <1>6, <1>7, <1>8

(* When the goroutine waits, no signal does and the directory has changed  *)
(* since it was read, the change has not been signalled yet.               *)
THEOREM SignalsHeard == Spec => []SignalHeard
<1>1. Init => SignalInv
    BY DEF Init, SignalInv
<1>2. CoverInv /\ SignalInv /\ [Next]_vars => SignalInv'
    BY SignalNext
<1>3. SignalInv => SignalHeard
    BY DEF SignalInv, SignalHeard
<1> QED
    BY <1>1, <1>2, <1>3, FilesRead, PTL DEF Spec

=============================================================================
