--------------------------- MODULE ProjectsProofs ---------------------------
(***************************************************************************)
(* Proofs about Projects for any organizations and any bounds: what the    *)
(* keys of a project are while creations, rotations and deletions of it    *)
(* overlap, fail and stop.                                                 *)
(***************************************************************************)
EXTENDS Projects, TLAPS

-----------------------------------------------------------------------------
(* The parts of the inductive invariant. *)

ProjectType == [org : Orgs, id : Nat]
KeyType == [key : Nat, project : ProjectType, kind : {"secret", "browser"}, active : BOOLEAN]

\* Where a request of every kind can be.
Creating == {"secret", "browser", "undo_key", "undo_project"}
Rotating == {"revoke", "replace"}
Deleting == {"keys", "row"}
RequestType ==
    [id : Nat, op : {"create", "rotate", "delete"},
     pc : {"insert"} \cup Creating \cup Rotating \cup Deleting,
     project : ProjectType, old : SUBSET Nat, key : Nat]

TypesOK ==
    /\ projects \subseteq ProjectType /\ serial \in [Orgs -> Nat] /\ keys \subseteq KeyType
    /\ minted \in Nat /\ started \in Nat /\ requests \subseteq RequestType
    /\ shown \subseteq 0 .. minted /\ retired \subseteq 0 .. minted
    /\ late \subseteq 0 .. minted
    /\ \A r \in requests : r.op = "create" <=> r.pc \in {"insert"} \cup Creating

\* Numbers are handed out once, by the serial of a tenant and by the table of
\* keys; number 0 stands for a project that has none yet, and for no key.
Numbered(p) == p.id \in 1 .. serial[p.org] - 1
Fresh ==
    /\ \A o \in Orgs : serial[o] \in Nat \ {0}
    /\ \A p \in projects : Numbered(p)
    /\ \A k \in keys : Numbered(k.project) /\ k.key \in 1 .. minted
    /\ \A j, k \in keys : j.key = k.key => j = k
    /\ \A r \in requests :
          /\ IF r.pc = "insert" THEN r.project.id = 0 ELSE Numbered(r.project)
          /\ r.old \subseteq 1 .. minted /\ r.key \in 0 .. minted

\* A project is created by one request, which alone knows its first key; the
\* key is a secret key of the project and has been shown to nobody.
Draft(r) == r.pc \in Creating /\ r.key # 0
OneCreation ==
    \A q, r \in requests :
        q.pc \in Creating /\ r.pc \in Creating /\ q.project = r.project => q = r
NoKeyYet == \A r \in requests : r.pc \in {"insert", "secret"} => r.key = 0
OneDraft == \A q, r \in requests : Draft(q) /\ Draft(r) /\ q.key = r.key => q = r
DraftUnshown ==
    \A r \in requests :
        /\ r.pc \in {"browser", "undo_key"} => r.key # 0
        /\ Draft(r) => r.key \notin shown
DraftKey ==
    \A r \in requests, k \in keys :
        Draft(r) /\ k.key = r.key => k.project = r.project /\ k.kind = "secret"
Drafts == OneCreation /\ NoKeyYet /\ OneDraft /\ DraftUnshown /\ DraftKey

\* What a rotation saw are browser keys of its project, and they are dead
\* once it has revoked.
Retiring ==
    \A r \in requests, k \in keys :
        /\ r.pc = "revoke" /\ k.key \in r.old => k.project = r.project /\ k.kind = "browser"
        /\ r.pc = "replace" /\ k.key \in r.old => ~k.active

\* While a project is created its keys are the creation's own, or late.
OwnOrLate ==
    \A r \in requests, k \in keys :
        r.pc \in Creating /\ k.project = r.project => k.key \in late \/ k.key = r.key
\* A deletion that has reached the row has left only late keys.
RowIsLast ==
    \A r \in requests, k \in keys :
        r.pc = "row" /\ k.project = r.project => k.key \in late
\* A key without a project is late, or can no longer be shown.
Inert ==
    \A k \in keys : k.project \notin projects =>
        \/ k.key \in late
        \/ k.key \notin shown /\ \A r \in requests : r.pc = "browser" => r.key # k.key

\* The projects whose keys nothing but their own requests has touched.
Sound == projects \ (broken \cup struck)
Created(p) == \A r \in requests : r.project = p => r.pc \notin Creating
Kept(p) == \A r \in requests : r.project = p => r.pc # "row"
Replaced(p) == \A r \in requests : r.project = p => r.pc # "replace"
Secret(p) == \E k \in keys : k.project = p /\ k.kind = "secret" /\ k.active
Browser(p) == \E k \in keys : /\ k.project = p /\ k.kind = "browser" /\ k.active
                              /\ k.key \in shown

\* A project keeps its secret key until a deletion takes it, and its browser
\* key but for the time between a revocation and its replacement.
Endowed ==
    \A p \in Sound : Created(p) /\ Kept(p) => Secret(p) /\ (Replaced(p) => Browser(p))
\* The first key of a creation is there when the second is minted.
DraftIsKept ==
    \A r \in requests : r.pc = "browser" /\ r.project \in Sound /\ Kept(r.project) =>
        \E k \in keys : /\ k.key = r.key /\ k.project = r.project /\ k.kind = "secret"
                        /\ k.active

\* The inductive invariant.
ProjectsInv ==
    /\ TypesOK /\ Fresh /\ Drafts
    /\ RotationRetires /\ Retiring
    /\ OwnOrLate /\ RowIsLast /\ Inert
    /\ Endowed /\ DraftIsKept

-----------------------------------------------------------------------------
(* The steps, by what they do to the requests, the projects and the keys.  *)
(* r is the request that steps, q what becomes of it.                      *)

Turns(r, q) == requests' = (requests \ {r}) \cup {q}
Same(r, q, pc) ==
    /\ q \in RequestType /\ q.pc = pc /\ q.op = r.op /\ q.project = r.project
    /\ q.old = r.old /\ q.key = r.key

Opens(q) ==
    /\ requests' = requests \cup {q} /\ q \in RequestType /\ q.key = 0
    /\ \/ q.pc = "insert" /\ q.op = "create" /\ q.project.id = 0 /\ q.old = {}
       \/ /\ q.pc = "revoke" /\ q.op = "rotate" /\ q.project \in projects
          /\ q.old = {k.key : k \in Keys(q.project, "browser")}
       \/ q.pc = "keys" /\ q.op = "delete" /\ q.project \in projects /\ q.old = {}
    /\ UNCHANGED <<projects, serial, keys, minted, history>>

Inserts(r, q) ==
    /\ r.pc = "insert" /\ Turns(r, q)
    /\ q \in RequestType /\ q.pc = "secret" /\ q.op = r.op /\ q.old = r.old /\ q.key = r.key
    /\ q.project = ProjectOf(r.project.org, serial[r.project.org])
    /\ projects' = projects \cup {q.project}
    /\ serial' = [serial EXCEPT ![r.project.org] = @ + 1]
    /\ UNCHANGED <<keys, minted, history>>

Mints(r, k, kind) ==
    /\ k \in KeyType /\ k.key = minted + 1 /\ k.project = r.project /\ k.kind = kind /\ k.active
    /\ minted' = minted + 1 /\ keys' = keys \cup {k}
    /\ late' = IF Going(r) THEN late \cup {minted + 1} ELSE late
    /\ UNCHANGED <<projects, serial, broken, struck>>

MintsSecret(r, q, k) ==
    /\ r.pc = "secret" /\ Mints(r, k, "secret") /\ Turns(r, q)
    /\ q \in RequestType /\ q.pc = "browser" /\ q.op = r.op /\ q.project = r.project
    /\ q.old = r.old /\ q.key = minted + 1
    /\ UNCHANGED <<shown, retired>>
MintsBrowser(r, k) ==
    /\ r.pc = "browser" /\ Mints(r, k, "browser") /\ Close(r)
    /\ shown' = shown \cup {r.key, minted + 1} /\ UNCHANGED retired
Replaces(r, k) ==
    /\ r.pc = "replace" /\ Mints(r, k, "browser") /\ Close(r)
    /\ shown' = shown \cup {minted + 1} /\ retired' = retired \cup r.old

Undoes(r, q) ==
    /\ Turns(r, q)
    /\ \/ r.pc = "secret" /\ Same(r, q, "undo_project")
       \/ r.pc = "browser" /\ Same(r, q, "undo_key")
       \/ r.pc = "undo_key" /\ Same(r, q, "undo_project")
    /\ (keys' = keys \/ (r.pc = "undo_key" /\ keys' = {k \in keys : k.key # r.key}))
    /\ UNCHANGED <<projects, serial, minted, history>>

Removes(r) ==
    /\ r.pc \in {"undo_project", "row"} /\ Close(r) /\ projects' = projects \ {r.project}
    /\ UNCHANGED <<serial, keys, minted, history>>

Stops(r) ==
    /\ Close(r) /\ broken' = broken \cup {r.project}
    /\ UNCHANGED <<projects, serial, keys, minted, shown, retired, late, struck>>

\* Keys with the number of the project are struck, whose they may be.
Hit(r, kind) == {k \in keys : k.project.id = r.project.id /\ k.kind \in kind}
Revoked(r, k) ==
    IF k \in Hit(r, {"browser"}) /\ k.active THEN [k EXCEPT !.active = FALSE] ELSE k
Revokes(r, q) ==
    /\ r.pc = "revoke" /\ Turns(r, q) /\ Same(r, q, "replace")
    /\ \A k \in keys' : \E j \in keys :
          /\ k.key = j.key /\ k.project = j.project /\ k.kind = j.kind /\ k \in KeyType
          /\ k = j \/ ~k.active
          /\ k.active => j \notin Hit(r, {"browser"})
          /\ k = Revoked(r, j)
    /\ \A j \in keys \ Hit(r, {"browser"}) : j \in keys'
    /\ \A j \in Hit(r, {"browser"}) :
          j.active /\ j.project # r.project => j.project \in struck'
    /\ struck \subseteq struck'
    /\ UNCHANGED <<projects, serial, minted, shown, retired, late, broken>>
Wipes(r, q) ==
    /\ r.pc = "keys" /\ Turns(r, q) /\ Same(r, q, "row")
    /\ keys' = keys \ {k \in keys : k.project.id = r.project.id}
    /\ \A j \in keys \ keys' : j.project # r.project => j.project \in struck'
    /\ struck \subseteq struck'
    /\ UNCHANGED <<projects, serial, minted, shown, retired, late, broken>>

Effects ==
    \/ UNCHANGED vars
    \/ \E q \in RequestType : Opens(q)
    \/ \E r \in requests, q \in RequestType :
          Inserts(r, q) \/ (\E k \in KeyType : MintsSecret(r, q, k)) \/ Undoes(r, q)
          \/ Revokes(r, q) \/ Wipes(r, q)
    \/ \E r \in requests :
          (\E k \in KeyType : MintsBrowser(r, k) \/ Replaces(r, k)) \/ Removes(r) \/ Stops(r)

\* A request that moves on keeps what it knows.
LEMMA MovedRequest ==
    ASSUME TypesOK, NEW r \in requests,
           NEW pc \in {"insert"} \cup Creating \cup Rotating \cup Deleting
    PROVE  Same(r, [r EXCEPT !.pc = pc], pc) /\ [r EXCEPT !.pc = pc] \in RequestType
<1>1. r \in RequestType
  BY DEF TypesOK
<1> QED
  BY <1>1 DEF Same, RequestType

\* A new request has a new number and knows nothing yet.
LEMMA OpenEffect ==
    ASSUME TypesOK, NEW op \in {"create", "rotate", "delete"},
           NEW pc \in {"insert"} \cup Creating \cup Rotating \cup Deleting,
           NEW p \in ProjectType, NEW old \in SUBSET Nat, Open(op, pc, p, old)
    PROVE  \E q \in RequestType :
              /\ requests' = requests \cup {q} /\ q.key = 0 /\ q.op = op /\ q.pc = pc
              /\ q.project = p /\ q.old = old
<1> DEFINE q == [id |-> started, op |-> op, pc |-> pc, project |-> p, old |-> old, key |-> 0]
<1>1. q \in RequestType
  BY DEF TypesOK, RequestType
<1>2. requests' = requests \cup {q} /\ q.key = 0 /\ q.op = op /\ q.pc = pc /\ q.project = p
      /\ q.old = old
  BY DEF Open
<1> QED
  BY <1>1, <1>2

\* A mint adds one key of the project, with the next number.
LEMMA MintEffect ==
    ASSUME TypesOK, NEW r \in requests, NEW kind \in {"secret", "browser"},
           create_api_key(r, kind), UNCHANGED <<projects, serial, broken, struck>>
    PROVE  \E k \in KeyType : Mints(r, k, kind)
<1> DEFINE k == [key |-> minted + 1, project |-> r.project, kind |-> kind, active |-> TRUE]
<1>1. r.project \in ProjectType /\ minted + 1 \in Nat
  BY DEF TypesOK, RequestType
<1>2. k \in KeyType
  BY <1>1 DEF KeyType
<1>3. k.key = minted + 1 /\ k.project = r.project /\ k.kind = kind /\ k.active
  OBVIOUS
<1>4. minted' = minted + 1 /\ keys' = keys \cup {k}
      /\ late' = IF Going(r) THEN late \cup {minted + 1} ELSE late
  BY DEF create_api_key
<1> HIDE DEF k
<1>5. Mints(r, k, kind)
  BY <1>2, <1>3, <1>4 DEF Mints
<1> QED
  BY <1>2, <1>5

\* Every step has one of these effects.
LEMMA StepEffects ==
    ASSUME TypesOK, [Next]_vars
    PROVE  Effects
<1> USE DEF Creating, Rotating, Deleting
<1>1. ASSUME NEW o \in Orgs, create_project_for(o) \/ count_failed(o)
      PROVE  Effects
  <2>1. ProjectOf(o, 0) \in ProjectType /\ ProjectOf(o, 0).id = 0
    BY DEF ProjectOf, ProjectType
  <2>2. Open("create", "insert", ProjectOf(o, 0), {})
    BY <1>1 DEF create_project_for, count_failed
  <2>3. PICK q \in RequestType :
           /\ requests' = requests \cup {q} /\ q.key = 0 /\ q.op = "create" /\ q.pc = "insert"
           /\ q.project = ProjectOf(o, 0) /\ q.old = {}
    BY <2>1, <2>2, OpenEffect
  <2>4. UNCHANGED <<projects, serial, keys, minted, history>>
    BY <1>1 DEF create_project_for, count_failed
  <2>5. Opens(q)
    BY <2>1, <2>3, <2>4 DEF Opens
  <2> QED
    BY <2>5 DEF Effects
<1>2. ASSUME NEW p \in projects, rotate_publishable_key(p)
      PROVE  Effects
  <2> DEFINE old == {k.key : k \in Keys(p, "browser")}
  <2>1. p \in ProjectType /\ old \in SUBSET Nat
    BY DEF TypesOK, Keys, KeyType
  <2>2. Open("rotate", "revoke", p, old)
    BY <1>2 DEF rotate_publishable_key
  <2>3. PICK q \in RequestType :
           /\ requests' = requests \cup {q} /\ q.key = 0 /\ q.op = "rotate" /\ q.pc = "revoke"
           /\ q.project = p /\ q.old = old
    <3> HIDE DEF old
    <3> QED
      BY <2>1, <2>2, OpenEffect
  <2>4. UNCHANGED <<projects, serial, keys, minted, history>>
    BY <1>2 DEF rotate_publishable_key
  <2>5. Opens(q)
    BY <2>3, <2>4 DEF Opens
  <2> QED
    BY <2>5 DEF Effects
<1>3. ASSUME NEW p \in projects, delete_project_for(p)
      PROVE  Effects
  <2>1. p \in ProjectType
    BY DEF TypesOK
  <2>2. Open("delete", "keys", p, {})
    BY <1>3 DEF delete_project_for
  <2>3. PICK q \in RequestType :
           /\ requests' = requests \cup {q} /\ q.key = 0 /\ q.op = "delete" /\ q.pc = "keys"
           /\ q.project = p /\ q.old = {}
    BY <2>1, <2>2, OpenEffect
  <2>4. UNCHANGED <<projects, serial, keys, minted, history>>
    BY <1>3 DEF delete_project_for
  <2>5. Opens(q)
    BY <2>3, <2>4 DEF Opens
  <2> QED
    BY <2>5 DEF Effects
<1>4. ASSUME NEW r \in requests, create_project(r) PROVE Effects
  <2> DEFINE p == ProjectOf(r.project.org, serial[r.project.org])
             q == [r EXCEPT !.pc = "secret", !.project = p]
  <2>1. r \in RequestType /\ r.project.org \in Orgs
    BY DEF TypesOK, RequestType, ProjectType
  <2>2. p \in ProjectType /\ p.org = r.project.org
    BY <2>1 DEF TypesOK, ProjectOf, ProjectType
  <2>3. /\ r.pc = "insert" /\ requests' = (requests \ {r}) \cup {q}
        /\ projects' = projects \cup {p} /\ serial' = [serial EXCEPT ![p.org] = @ + 1]
        /\ UNCHANGED <<keys, minted, history>>
    BY <1>4 DEF create_project
  <2>4. /\ q \in RequestType /\ q.pc = "secret" /\ q.op = r.op /\ q.old = r.old
        /\ q.key = r.key /\ q.project = p
    <3> HIDE DEF p
    <3> QED
      BY <2>1, <2>2 DEF RequestType
  <2> HIDE DEF q
  <2>5. Inserts(r, q)
    BY <2>2, <2>3, <2>4 DEF Inserts, Turns
  <2> QED
    BY <2>4, <2>5 DEF Effects
<1>5. ASSUME NEW r \in requests, mint_secret(r) PROVE Effects
  <2> DEFINE q == [r EXCEPT !.pc = "browser", !.key = minted + 1]
  <2>1. PICK k \in KeyType : Mints(r, k, "secret")
    BY <1>5, MintEffect DEF mint_secret
  <2>2. r \in RequestType /\ minted + 1 \in Nat
    BY DEF TypesOK
  <2>3. /\ q \in RequestType /\ q.pc = "browser" /\ q.op = r.op /\ q.project = r.project
        /\ q.old = r.old /\ q.key = minted + 1
    BY <2>2 DEF RequestType
  <2>4. r.pc = "secret" /\ requests' = (requests \ {r}) \cup {q} /\ UNCHANGED <<shown, retired>>
    BY <1>5 DEF mint_secret, create_api_key
  <2> HIDE DEF q
  <2>5. MintsSecret(r, q, k)
    BY <2>1, <2>3, <2>4 DEF MintsSecret, Turns
  <2> QED
    BY <2>3, <2>5 DEF Effects
<1>6. ASSUME NEW r \in requests, mint_browser(r) \/ replace(r) PROVE Effects
  <2>1. PICK k \in KeyType : Mints(r, k, "browser")
    BY <1>6, MintEffect DEF mint_browser, replace
  <2>2. MintsBrowser(r, k) \/ Replaces(r, k)
    BY <1>6, <2>1 DEF mint_browser, replace, create_api_key, MintsBrowser, Replaces
  <2> QED
    BY <2>2 DEF Effects
<1>7. ASSUME NEW r \in requests, mint_failed(r) \/ delete_api_key(r) PROVE Effects
  <2>1. PICK pc \in {"undo_project", "undo_key"} :
           /\ requests' = (requests \ {r}) \cup {[r EXCEPT !.pc = pc]}
           /\ \/ r.pc = "secret" /\ pc = "undo_project"
              \/ r.pc = "browser" /\ pc = "undo_key"
              \/ r.pc = "undo_key" /\ pc = "undo_project"
    BY <1>7 DEF mint_failed, delete_api_key, Becomes
  <2> DEFINE q == [r EXCEPT !.pc = pc]
  <2>2. Same(r, q, pc) /\ q \in RequestType
    BY MovedRequest
  <2>3. /\ (keys' = keys \/ (r.pc = "undo_key" /\ keys' = {k \in keys : k.key # r.key}))
        /\ UNCHANGED <<projects, serial, minted, history>>
    BY <1>7 DEF mint_failed, delete_api_key
  <2> HIDE DEF q
  <2>4. Undoes(r, q)
    BY <2>1, <2>2, <2>3 DEF Undoes, Turns, q
  <2> QED
    BY <2>2, <2>4 DEF Effects
<1>8. ASSUME NEW r \in requests, undo_failed(r) \/ request_stops(r) PROVE Effects
  <2>1. CASE Stops(r)
    BY <2>1 DEF Effects
  <2>2. CASE r.pc = "undo_key" /\ Becomes(r, "undo_project")
             /\ UNCHANGED <<projects, serial, keys, minted, history>>
    <3> DEFINE q == [r EXCEPT !.pc = "undo_project"]
    <3>1. Same(r, q, "undo_project") /\ q \in RequestType
      BY MovedRequest
    <3>2. Undoes(r, q)
      BY <2>2, <3>1 DEF Undoes, Turns, Becomes
    <3> QED
      BY <3>1, <3>2 DEF Effects
  <2> QED
    BY <1>8, <2>1, <2>2 DEF undo_failed, request_stops, Stops, history
<1>9. ASSUME NEW r \in requests, delete_project(r) \/ delete_project_by_app(r) PROVE Effects
  BY <1>9 DEF delete_project, delete_project_by_app, Removes, Effects
<1>10. ASSUME NEW r \in requests, revoke_publishable_keys_for_project(r) PROVE Effects
  <2> DEFINE ks == {k \in keys : k.project.id = r.project.id /\ k.kind = "browser" /\ k.active}
             q == [r EXCEPT !.pc = "replace"]
  <2>1. Same(r, q, "replace") /\ q \in RequestType
    BY MovedRequest
  <2>2. /\ r.pc = "revoke" /\ Turns(r, q)
        /\ keys' = (keys \ ks) \cup {[k EXCEPT !.active = FALSE] : k \in ks}
        /\ struck' = struck \cup {k.project : k \in {j \in ks : j.project # r.project}}
        /\ UNCHANGED <<projects, serial, minted, shown, retired, late, broken>>
    BY <1>10 DEF revoke_publishable_keys_for_project, Becomes, Turns, Struck
  <2>3. keys \subseteq KeyType
    BY DEF TypesOK
  <2>4. \A j \in ks : LET k == [j EXCEPT !.active = FALSE]
                      IN  /\ k \in KeyType /\ ~k.active /\ k.key = j.key
                          /\ k.project = j.project /\ k.kind = j.kind
    BY <2>3 DEF KeyType
  <2>5. \A k \in keys' : \E j \in keys :
          /\ k.key = j.key /\ k.project = j.project /\ k.kind = j.kind /\ k \in KeyType
          /\ k = j \/ ~k.active
          /\ k.active => j \notin Hit(r, {"browser"})
          /\ k = Revoked(r, j)
    <3> SUFFICES ASSUME NEW k \in keys'
                 PROVE  \E j \in keys :
                    /\ k.key = j.key /\ k.project = j.project /\ k.kind = j.kind /\ k \in KeyType
                    /\ k = j \/ ~k.active
                    /\ k.active => j \notin Hit(r, {"browser"})
                    /\ k = Revoked(r, j)
      OBVIOUS
    <3>1. CASE k \in keys \ ks
      BY <2>3, <3>1 DEF Hit, Revoked
    <3>2. CASE k \notin keys \ ks
      <4>1. PICK j \in ks : k = [j EXCEPT !.active = FALSE]
        BY <2>2, <3>2
      <4> QED
        BY <2>4, <4>1 DEF Hit, Revoked
    <3> QED
      BY <3>1, <3>2
  <2>6. \A j \in keys \ Hit(r, {"browser"}) : j \in keys'
    BY <2>2 DEF Hit
  <2>7. \A j \in Hit(r, {"browser"}) :
           j.active /\ j.project # r.project => j.project \in struck'
    BY <2>2 DEF Hit
  <2> HIDE DEF ks, q
  <2>8. Revokes(r, q)
    BY <2>1, <2>2, <2>5, <2>6, <2>7 DEF Revokes
  <2> QED
    BY <2>1, <2>8 DEF Effects
<1>11. ASSUME NEW r \in requests, delete_api_keys_for_project(r) PROVE Effects
  <2> DEFINE q == [r EXCEPT !.pc = "row"]
  <2>1. Same(r, q, "row") /\ q \in RequestType
    BY MovedRequest
  <2>2. Wipes(r, q)
    BY <1>11, <2>1 DEF delete_api_keys_for_project, Wipes, Becomes, Turns, Struck
  <2> QED
    BY <2>1, <2>2 DEF Effects
<1>12. CASE UNCHANGED vars
  BY <1>12 DEF Effects
<1> QED
  BY <1>1, <1>2, <1>3, <1>4, <1>5, <1>6, <1>7, <1>8, <1>9, <1>10, <1>11, <1>12
     DEF Next, Step, post_publishable_key

-----------------------------------------------------------------------------
(* Types and numbers. *)

\* What every step but a mint leaves of the keys.
LEMMA KeysKept ==
    ASSUME TypesOK, Effects
    PROVE  \/ /\ minted' = minted /\ late' = late
              /\ \A k \in keys' : \E j \in keys :
                    /\ k.key = j.key /\ k.project = j.project /\ k.kind = j.kind
                    /\ k = j \/ ~k.active
           \/ \E r \in requests, k \in KeyType, kind \in {"secret", "browser"} : Mints(r, k, kind)
<1>1. ASSUME NEW r \in requests, NEW q \in RequestType, Revokes(r, q)
      PROVE  /\ minted' = minted /\ late' = late
             /\ \A k \in keys' : \E j \in keys :
                   /\ k.key = j.key /\ k.project = j.project /\ k.kind = j.kind
                   /\ k = j \/ ~k.active
  BY <1>1 DEF Revokes
<1>2. CASE minted' = minted /\ late' = late /\ keys' \subseteq keys
  BY <1>2
<1>3. \/ minted' = minted /\ late' = late /\ keys' \subseteq keys
      \/ \E r \in requests, q \in RequestType : Revokes(r, q)
      \/ \E r \in requests, k \in KeyType, kind \in {"secret", "browser"} : Mints(r, k, kind)
  BY DEF Effects, vars, history, Opens, Inserts, MintsSecret, MintsBrowser, Replaces, Undoes,
         Removes, Stops, Wipes
<1> QED
  BY <1>1, <1>2, <1>3

\* What becomes of the requests: each goes on, or one is new, or one moves.
LEMMA RequestsMove ==
    ASSUME TypesOK, Effects
    PROVE  \A q \in requests' :
              \/ q \in requests
              \/ Opens(q)
              \/ \E r \in requests : Turns(r, q) /\
                    \/ Inserts(r, q) \/ Undoes(r, q) \/ Revokes(r, q) \/ Wipes(r, q)
                    \/ \E k \in KeyType : MintsSecret(r, q, k)
<1> SUFFICES ASSUME NEW q \in requests', q \notin requests
             PROVE  \/ Opens(q)
                    \/ \E r \in requests : Turns(r, q) /\
                          \/ Inserts(r, q) \/ Undoes(r, q) \/ Revokes(r, q) \/ Wipes(r, q)
                          \/ \E k \in KeyType : MintsSecret(r, q, k)
  OBVIOUS
<1>1. ASSUME NEW p \in RequestType, Opens(p) PROVE Opens(q)
  <2>1. q = p
    BY <1>1 DEF Opens
  <2> QED
    BY <1>1, <2>1
<1>2. ASSUME NEW r \in requests, NEW p \in RequestType,
             \/ Inserts(r, p) \/ Undoes(r, p) \/ Revokes(r, p) \/ Wipes(r, p)
             \/ \E k \in KeyType : MintsSecret(r, p, k)
      PROVE  /\ Turns(r, q)
             /\ \/ Inserts(r, q) \/ Undoes(r, q) \/ Revokes(r, q) \/ Wipes(r, q)
                \/ \E k \in KeyType : MintsSecret(r, q, k)
  <2>1. Turns(r, p)
    BY <1>2 DEF Inserts, Undoes, Revokes, Wipes, MintsSecret
  <2>2. q = p
    BY <2>1 DEF Turns
  <2> QED
    BY <1>2, <2>1, <2>2
<1>3. CASE requests' \subseteq requests
  BY <1>3
<1> QED
  BY <1>1, <1>2, <1>3 DEF Effects, vars, MintsBrowser, Replaces, Removes, Stops, Close

\* Every step preserves the types.
LEMMA TypesStep ==
    ASSUME TypesOK, Fresh, Effects, [Next]_vars
    PROVE  TypesOK'
<1>1. \A q \in requests' :
         q \in RequestType /\ (q.op = "create" <=> q.pc \in {"insert"} \cup Creating)
  <2> SUFFICES ASSUME NEW q \in requests'
               PROVE  q \in RequestType /\ (q.op = "create" <=> q.pc \in {"insert"} \cup Creating)
    OBVIOUS
  <2>1. \A r \in requests :
           r \in RequestType /\ (r.op = "create" <=> r.pc \in {"insert"} \cup Creating)
    BY DEF TypesOK
  <2>2. CASE q \in requests
    BY <2>1, <2>2
  <2>3. CASE Opens(q)
    BY <2>3 DEF Opens, Creating
  <2>4. ASSUME NEW r \in requests, Inserts(r, q)
        PROVE  q \in RequestType /\ (q.op = "create" <=> q.pc \in {"insert"} \cup Creating)
    BY <2>1, <2>4 DEF Inserts, Creating
  <2>5. ASSUME NEW r \in requests, NEW k \in KeyType, MintsSecret(r, q, k)
        PROVE  q \in RequestType /\ (q.op = "create" <=> q.pc \in {"insert"} \cup Creating)
    BY <2>1, <2>5 DEF MintsSecret, Creating
  <2>6. ASSUME NEW r \in requests, Undoes(r, q) \/ Revokes(r, q) \/ Wipes(r, q)
        PROVE  q \in RequestType /\ (q.op = "create" <=> q.pc \in {"insert"} \cup Creating)
    BY <2>1, <2>6 DEF Undoes, Revokes, Wipes, Same, Creating
  <2> QED
    BY <2>2, <2>3, <2>4, <2>5, <2>6, RequestsMove
<1>2. keys' \subseteq KeyType
  BY DEF TypesOK, Effects, vars, Opens, Inserts, MintsSecret, MintsBrowser, Replaces, Mints,
         Undoes, Removes, Stops, Revokes, Wipes
<1>3. projects' \subseteq ProjectType /\ serial' \in [Orgs -> Nat]
  <2>1. projects \subseteq ProjectType /\ serial \in [Orgs -> Nat]
    BY DEF TypesOK
  <2>2. ASSUME NEW r \in requests, NEW q \in RequestType, Inserts(r, q)
        PROVE  projects' \subseteq ProjectType /\ serial' \in [Orgs -> Nat]
    <3>1. r.project.org \in Orgs /\ q.project \in ProjectType
      BY DEF TypesOK, RequestType, ProjectType
    <3> QED
      BY <2>1, <2>2, <3>1 DEF Inserts
  <2>3. \/ projects' \subseteq projects /\ serial' = serial
        \/ \E r \in requests, q \in RequestType : Inserts(r, q)
    BY DEF Effects, vars, Opens, MintsSecret, MintsBrowser, Replaces, Mints, Undoes, Removes,
           Stops, Revokes, Wipes
  <2> QED
    BY <2>1, <2>2, <2>3
<1>4. /\ minted' \in Nat /\ late' \subseteq 0 .. minted' /\ shown' \subseteq 0 .. minted'
      /\ retired' \subseteq 0 .. minted'
  <2>1. /\ minted \in Nat /\ late \subseteq 0 .. minted /\ shown \subseteq 0 .. minted
        /\ retired \subseteq 0 .. minted
        /\ \A r \in requests : r.old \subseteq 0 .. minted /\ r.key \in 0 .. minted
    BY DEF TypesOK, Fresh
  <2>2. \/ UNCHANGED <<minted, late, shown, retired>>
        \/ \E r \in requests :
              /\ minted' = minted + 1 /\ late' \subseteq late \cup {minted + 1}
              /\ shown' \subseteq shown \cup {r.key, minted + 1}
              /\ retired' \subseteq retired \cup r.old
    BY DEF Effects, vars, history, Opens, Inserts, MintsSecret, MintsBrowser, Replaces, Mints,
           Undoes, Removes, Stops, Revokes, Wipes
  <2> QED
    BY <2>1, <2>2
<1>5. started' \in Nat
  <2>1. started' \in {started, started + 1}
    BY DEF Next, vars, Step, create_project_for, count_failed, rotate_publishable_key,
           post_publishable_key, delete_project_for, Open, create_project, mint_secret,
           mint_browser, mint_failed, delete_api_key, delete_project, undo_failed,
           revoke_publishable_keys_for_project, replace, delete_api_keys_for_project,
           delete_project_by_app, request_stops
  <2> QED
    BY <2>1 DEF TypesOK
<1> QED
  BY <1>1, <1>2, <1>3, <1>4, <1>5 DEF TypesOK

\* Numbers of projects, keys and requests are handed out once.
LEMMA FreshStep ==
    ASSUME TypesOK, Fresh, Effects
    PROVE  Fresh'
<1>1. /\ minted \in Nat /\ minted' \in Nat /\ minted' >= minted
      /\ \A o \in Orgs : serial[o] \in Nat \ {0} /\ serial'[o] \in Nat \ {0}
                         /\ serial'[o] >= serial[o]
  <2>1. ASSUME NEW r \in requests, NEW q \in RequestType, Inserts(r, q)
        PROVE  minted' = minted
               /\ \A o \in Orgs : serial'[o] = serial[o] \/ serial'[o] = serial[o] + 1
    BY <2>1 DEF Inserts, TypesOK, RequestType, ProjectType
  <2>2. \/ \E r \in requests, q \in RequestType : Inserts(r, q)
        \/ serial' = serial /\ minted' \in {minted, minted + 1}
    BY DEF Effects, vars, Opens, MintsSecret, MintsBrowser, Replaces, Mints, Undoes, Removes,
           Stops, Revokes, Wipes
  <2> QED
    BY <2>1, <2>2 DEF TypesOK, Fresh
<1>2. ASSUME NEW p \in ProjectType, Numbered(p) PROVE Numbered(p)'
  BY <1>1, <1>2 DEF Numbered, ProjectType
<1>3. \A r \in requests : r.project \in ProjectType /\ r \in RequestType
  BY DEF TypesOK, RequestType
<1>4. ASSUME NEW r \in requests, NEW q \in RequestType, Inserts(r, q)
      PROVE  Numbered(q.project)'
  <2>1. r.project.org \in Orgs
    BY <1>3 DEF ProjectType
  <2>2. /\ serial'[r.project.org] = serial[r.project.org] + 1
        /\ q.project.org = r.project.org /\ q.project.id = serial[r.project.org]
        /\ serial[r.project.org] \in Nat \ {0}
    BY <1>1, <1>4, <2>1 DEF Inserts, ProjectOf, TypesOK
  <2> QED
    BY <2>2 DEF Numbered
<1>5. \A p \in projects' : Numbered(p)'
  <2>1. ASSUME NEW p \in projects PROVE Numbered(p)'
    BY <1>2 DEF TypesOK, Fresh
  <2>2. \/ projects' \subseteq projects
        \/ \E r \in requests, q \in RequestType :
              Inserts(r, q) /\ projects' = projects \cup {q.project}
    BY DEF Effects, vars, Opens, MintsSecret, MintsBrowser, Replaces, Mints, Undoes, Removes,
           Stops, Revokes, Wipes, Inserts
  <2> QED
    BY <1>4, <2>1, <2>2
<1>6. \A k \in keys' : Numbered(k.project)' /\ k.key \in 1 .. minted'
  <2>1. \A k \in keys : k.project \in ProjectType
    BY DEF TypesOK, KeyType
  <2>2. ASSUME NEW j \in keys PROVE Numbered(j.project)' /\ j.key \in 1 .. minted'
    BY <1>1, <1>2, <2>1 DEF Fresh
  <2>3. ASSUME NEW r \in requests, NEW k \in KeyType, NEW kind, Mints(r, k, kind), r.pc # "insert"
        PROVE  Numbered(k.project)' /\ k.key \in 1 .. minted'
    BY <1>1, <1>2, <1>3, <2>3 DEF Mints, Fresh
  <2>4. \/ \A k \in keys' : \E j \in keys : k.key = j.key /\ k.project = j.project
        \/ \E r \in requests, k \in KeyType, kind \in {"secret", "browser"} :
              Mints(r, k, kind) /\ r.pc # "insert"
    <3>1. ASSUME NEW r \in requests, NEW q \in RequestType, Revokes(r, q)
          PROVE  \A k \in keys' : \E j \in keys : k.key = j.key /\ k.project = j.project
      BY <3>1 DEF Revokes
    <3> QED
      BY <3>1 DEF Effects, vars, Opens, MintsSecret, MintsBrowser, Replaces, Undoes, Removes,
             Stops, Wipes, Inserts
  <2> QED
    BY <2>2, <2>3, <2>4 DEF Mints
<1>7. \A j, k \in keys' : j.key = k.key => j = k
  <2>1. ASSUME NEW r \in requests, NEW n \in KeyType, NEW kind, Mints(r, n, kind)
        PROVE  \A j, k \in keys' : j.key = k.key => j = k
    <3>1. \A k \in keys : k.key # minted + 1
      BY <1>1 DEF Fresh
    <3> QED
      BY <2>1, <3>1 DEF Mints, Fresh
  <2>2. ASSUME NEW r \in requests, NEW q \in RequestType, Revokes(r, q)
        PROVE  \A j, k \in keys' : j.key = k.key => j = k
    <3> SUFFICES ASSUME NEW j \in keys', NEW k \in keys', j.key = k.key
                 PROVE  j = k
      OBVIOUS
    <3>1. PICK i \in keys : j = Revoked(r, i) /\ j.key = i.key
      BY <2>2 DEF Revokes
    <3>2. PICK l \in keys : k = Revoked(r, l) /\ k.key = l.key
      BY <2>2 DEF Revokes
    <3> QED
      BY <3>1, <3>2 DEF Fresh
  <2>3. CASE keys' \subseteq keys
    BY <2>3 DEF Fresh
  <2> QED
    BY <2>1, <2>2, <2>3 DEF Effects, vars, Opens, MintsSecret, MintsBrowser, Replaces, Undoes,
       Removes, Stops, Wipes, Inserts
<1>8. ASSUME NEW q \in requests'
      PROVE  /\ IF q.pc = "insert" THEN q.project.id = 0 ELSE Numbered(q.project)'
             /\ q.old \subseteq 1 .. minted' /\ q.key \in 0 .. minted'
  <2>1. ASSUME NEW r \in requests
        PROVE  /\ IF r.pc = "insert" THEN r.project.id = 0 ELSE Numbered(r.project)'
               /\ r.old \subseteq 1 .. minted' /\ r.key \in 0 .. minted'
    BY <1>1, <1>2, <1>3 DEF Fresh
  <2>2. CASE q \in requests
    BY <2>1, <2>2
  <2>3. CASE Opens(q)
    <3>1. \A k \in keys : k.key \in 1 .. minted'
      BY <1>1 DEF Fresh
    <3>2. \A p \in projects : Numbered(p)'
      BY <1>2 DEF Fresh, TypesOK
    <3> QED
      BY <1>1, <2>3, <3>1, <3>2 DEF Opens, Keys
  <2>4. ASSUME NEW r \in requests, Inserts(r, q)
        PROVE  /\ q.pc = "secret" /\ Numbered(q.project)'
               /\ q.old \subseteq 1 .. minted' /\ q.key \in 0 .. minted'
    BY <1>4, <2>1, <2>4 DEF Inserts
  <2>5. ASSUME NEW r \in requests, NEW k \in KeyType, MintsSecret(r, q, k)
        PROVE  /\ q.pc = "browser" /\ Numbered(q.project)'
               /\ q.old \subseteq 1 .. minted' /\ q.key \in 0 .. minted'
    BY <1>1, <2>1, <2>5 DEF MintsSecret, Mints
  <2>6. ASSUME NEW r \in requests, Undoes(r, q) \/ Revokes(r, q) \/ Wipes(r, q)
        PROVE  /\ q.pc # "insert" /\ Numbered(q.project)'
               /\ q.old \subseteq 1 .. minted' /\ q.key \in 0 .. minted'
    BY <2>1, <2>6 DEF Undoes, Revokes, Wipes, Same
  <2> QED
    BY <2>2, <2>3, <2>4, <2>5, <2>6, RequestsMove
<1> QED
  BY <1>1, <1>5, <1>6, <1>7, <1>8 DEF Fresh

\* A project is new when it is inserted.
LEMMA InsertIsNew ==
    ASSUME TypesOK, Fresh, NEW r \in requests, NEW q \in RequestType, Inserts(r, q)
    PROVE  /\ q.project \notin projects /\ \A k \in keys : k.project # q.project
           /\ \A s \in requests : s.project # q.project
<1>1. r.project.org \in Orgs
  BY DEF TypesOK, RequestType, ProjectType
<1>2. /\ q.project.org = r.project.org /\ q.project.id = serial[r.project.org]
      /\ serial[r.project.org] \in Nat \ {0}
  BY <1>1 DEF Inserts, ProjectOf, Fresh
<1>3. ~Numbered(q.project) /\ q.project.id # 0
  BY <1>2 DEF Numbered
<1> QED
  BY <1>3 DEF Fresh

-----------------------------------------------------------------------------
(* The first key of a project. *)

\* One request moves, the others stay.
LEMMA MoveCases ==
    ASSUME Effects
    PROVE  \/ requests' \subseteq requests
           \/ \E q \in RequestType : Opens(q)
           \/ \E r \in requests, q \in RequestType : Turns(r, q) /\
                 \/ Inserts(r, q) \/ Undoes(r, q) \/ Revokes(r, q) \/ Wipes(r, q)
                 \/ \E k \in KeyType : MintsSecret(r, q, k)
BY DEF Effects, vars, MintsBrowser, Replaces, Removes, Stops, Close, Inserts, Undoes, Revokes,
       Wipes, MintsSecret

\* A project is created by one request.
LEMMA OneCreationStep ==
    ASSUME TypesOK, Fresh, OneCreation, Effects
    PROVE  OneCreation'
<1>1. CASE requests' \subseteq requests
  BY <1>1 DEF OneCreation
<1>2. ASSUME NEW q \in RequestType, Opens(q) PROVE OneCreation'
  BY <1>2 DEF Opens, OneCreation, Creating
<1>3. ASSUME NEW r \in requests, NEW q \in RequestType, Turns(r, q),
             q.pc \in Creating =>
                \A s \in requests \ {r} : s.pc \in Creating => s.project # q.project
      PROVE  OneCreation'
  BY <1>3 DEF Turns, OneCreation
<1>4. ASSUME NEW r \in requests, NEW q \in RequestType,
             \/ Inserts(r, q) \/ Undoes(r, q) \/ Revokes(r, q) \/ Wipes(r, q)
             \/ \E k \in KeyType : MintsSecret(r, q, k)
      PROVE  q.pc \in Creating =>
                \A s \in requests \ {r} : s.pc \in Creating => s.project # q.project
  <2>1. CASE Inserts(r, q)
    BY <2>1, InsertIsNew
  <2>2. CASE Undoes(r, q) \/ \E k \in KeyType : MintsSecret(r, q, k)
    BY <2>2 DEF Undoes, MintsSecret, Same, Creating, OneCreation
  <2>3. CASE Revokes(r, q) \/ Wipes(r, q)
    BY <2>3 DEF Revokes, Wipes, Same, Creating
  <2> QED
    BY <1>4, <2>1, <2>2, <2>3
<1> QED
  BY <1>1, <1>2, <1>3, <1>4, MoveCases

\* A creation has no key before it has a project.
LEMMA NoKeyYetStep ==
    ASSUME TypesOK, NoKeyYet, Effects
    PROVE  NoKeyYet'
<1>1. \A q \in requests' : q.pc \in {"insert", "secret"} =>
         q.key = 0
  BY RequestsMove DEF NoKeyYet, Opens, Inserts, Undoes, Revokes, Wipes, MintsSecret, Same
<1> QED
  BY <1>1 DEF NoKeyYet

\* A creation's first key is no other creation's.
LEMMA OneDraftStep ==
    ASSUME TypesOK, Fresh, NoKeyYet, OneDraft, Effects
    PROVE  OneDraft'
<1> USE DEF Creating
<1>1. CASE requests' \subseteq requests
  BY <1>1 DEF OneDraft, Draft
<1>2. ASSUME NEW q \in RequestType, Opens(q) PROVE OneDraft'
  BY <1>2 DEF Opens, OneDraft, Draft
<1>3. ASSUME NEW r \in requests, NEW q \in RequestType, Turns(r, q),
             Draft(q) => \A s \in requests \ {r} : Draft(s) => s.key # q.key
      PROVE  OneDraft'
  BY <1>3 DEF Turns, OneDraft, Draft
<1>4. ASSUME NEW r \in requests, NEW q \in RequestType,
             \/ Inserts(r, q) \/ Undoes(r, q) \/ Revokes(r, q) \/ Wipes(r, q)
             \/ \E k \in KeyType : MintsSecret(r, q, k)
      PROVE  Draft(q) => \A s \in requests \ {r} : Draft(s) => s.key # q.key
  <2>1. CASE \E k \in KeyType : MintsSecret(r, q, k)
    <3>1. q.key = minted + 1 /\ \A s \in requests : s.key \in 0 .. minted
      BY <2>1 DEF MintsSecret, Fresh
    <3> QED
      BY <3>1 DEF TypesOK
  <2>2. CASE Undoes(r, q)
    BY <2>2 DEF Undoes, Same, Draft, OneDraft
  <2>3. CASE Inserts(r, q) \/ Revokes(r, q) \/ Wipes(r, q)
    BY <2>3 DEF Inserts, Revokes, Wipes, Same, Draft, NoKeyYet
  <2> QED
    BY <1>4, <2>1, <2>2, <2>3
<1> QED
  BY <1>1, <1>2, <1>3, <1>4, MoveCases

\* A creation shows its first key to nobody before it is done.
LEMMA DraftUnshownStep ==
    ASSUME TypesOK, Fresh, NoKeyYet, OneDraft, DraftUnshown, Effects
    PROVE  DraftUnshown'
<1> USE DEF Creating
<1>1. minted \in Nat /\ shown \subseteq 0 .. minted /\ \A s \in requests : s.key \in 0 .. minted
  BY DEF TypesOK, Fresh
<1>2. ASSUME NEW r \in requests, NEW k \in KeyType, MintsBrowser(r, k)
      PROVE  DraftUnshown'
  <2>1. \A s \in requests \ {r} : Draft(s) => s.key # r.key
    BY <1>2 DEF MintsBrowser, OneDraft, Draft, DraftUnshown
  <2>2. requests' = requests \ {r} /\ shown' = shown \cup {r.key, minted + 1}
    BY <1>2 DEF MintsBrowser, Close
  <2> QED
    BY <1>1, <2>1, <2>2 DEF DraftUnshown, Draft
<1>3. ASSUME NEW r \in requests, NEW k \in KeyType, Replaces(r, k)
      PROVE  DraftUnshown'
  BY <1>1, <1>3 DEF Replaces, Close, DraftUnshown, Draft
<1>4. CASE shown' = shown
  <2>1. \A q \in requests' :
           /\ q.pc \in {"browser", "undo_key"} => q.key # 0
           /\ Draft(q) => q.key \notin shown
    <3> SUFFICES ASSUME NEW q \in requests'
                 PROVE  /\ q.pc \in {"browser", "undo_key"} => q.key # 0
                        /\ Draft(q) => q.key \notin shown
      OBVIOUS
    <3>1. CASE q \in requests
      BY <3>1 DEF DraftUnshown
    <3>2. ASSUME NEW r \in requests, NEW k \in KeyType, MintsSecret(r, q, k)
          PROVE  q.key = minted + 1
      BY <3>2 DEF MintsSecret
    <3>3. ASSUME NEW r \in requests, Undoes(r, q)
          PROVE  /\ q.pc \in {"browser", "undo_key"} => q.key # 0
                 /\ Draft(q) => q.key \notin shown
      BY <3>3 DEF Undoes, Same, DraftUnshown, Draft
    <3>4. ASSUME NEW r \in requests, Inserts(r, q) \/ Revokes(r, q) \/ Wipes(r, q)
          PROVE  q.pc \notin {"browser", "undo_key"} /\ ~Draft(q)
      BY <3>4 DEF Inserts, Revokes, Wipes, Same, Draft, NoKeyYet
    <3>5. CASE Opens(q)
      BY <3>5 DEF Opens, Draft
    <3> QED
      BY <1>1, <3>1, <3>2, <3>3, <3>4, <3>5, RequestsMove
  <2> QED
    BY <1>4, <2>1 DEF DraftUnshown, Draft
<1> QED
  BY <1>2, <1>3, <1>4 DEF Effects, vars, history, Opens, Inserts, Undoes, Revokes, Wipes,
     MintsSecret, Removes, Stops

\* A creation's first key is a secret key of its project.
LEMMA DraftKeyStep ==
    ASSUME TypesOK, Fresh, NoKeyYet, DraftKey, Effects
    PROVE  DraftKey'
<1> USE DEF Creating
<1>1. minted \in Nat /\ \A k \in keys : k.key \in 1 .. minted
  BY DEF TypesOK, Fresh
<1>2. \A s \in requests : s.key \in 0 .. minted
  BY DEF Fresh
<1>3. ASSUME NEW r \in requests, NEW q \in RequestType, NEW n \in KeyType, MintsSecret(r, q, n)
      PROVE  DraftKey'
  <2>1. /\ requests' = (requests \ {r}) \cup {q} /\ keys' = keys \cup {n}
        /\ q.key = minted + 1 /\ n.key = minted + 1 /\ n.project = r.project
        /\ n.kind = "secret" /\ q.project = r.project
    BY <1>3 DEF MintsSecret, Mints, Turns
  <2> SUFFICES ASSUME NEW s \in requests', NEW k \in keys', Draft(s), k.key = s.key
               PROVE  k.project = s.project /\ k.kind = "secret"
    BY DEF DraftKey, Draft
  <2>2. CASE s = q
    BY <1>1, <2>1, <2>2
  <2>3. CASE s # q
    BY <1>1, <1>2, <2>1, <2>3 DEF DraftKey
  <2> QED
    BY <2>2, <2>3
<1>4. ASSUME NEW r \in requests, NEW k \in KeyType, MintsBrowser(r, k) \/ Replaces(r, k)
      PROVE  DraftKey'
  <2>1. requests' \subseteq requests /\ keys' = keys \cup {k} /\ k.key = minted + 1
    BY <1>4 DEF MintsBrowser, Replaces, Mints, Close
  <2> QED
    BY <1>1, <1>2, <2>1 DEF DraftKey, Draft
<1>5. ASSUME \A k \in keys' : \E j \in keys :
                k.key = j.key /\ k.project = j.project /\ k.kind = j.kind,
             \A q \in requests' : Draft(q) =>
                \E s \in requests : Draft(s) /\ s.key = q.key /\ s.project = q.project
      PROVE  DraftKey'
  BY <1>5 DEF DraftKey, Draft
<1>6. ASSUME ~(\E r \in requests, q \in RequestType, k \in KeyType : MintsSecret(r, q, k))
      PROVE  \A q \in requests' : Draft(q) =>
                \E s \in requests : Draft(s) /\ s.key = q.key /\ s.project = q.project
  <2>1. \A q \in requests' : q \in RequestType \/ q \in requests
    BY RequestsMove DEF Opens, Inserts, Undoes, Revokes, Wipes, MintsSecret, Same
  <2> QED
    BY <1>6, <2>1, RequestsMove
       DEF NoKeyYet, Draft, Opens, Inserts, Undoes, Revokes, Wipes, Same, TypesOK
<1>7. \/ \E r \in requests, q \in RequestType, k \in KeyType : MintsSecret(r, q, k)
      \/ \E r \in requests, k \in KeyType : MintsBrowser(r, k) \/ Replaces(r, k)
      \/ \A k \in keys' : \E j \in keys :
            k.key = j.key /\ k.project = j.project /\ k.kind = j.kind
  <2>1. ASSUME NEW r \in requests, NEW q \in RequestType, Revokes(r, q)
        PROVE  \A k \in keys' : \E j \in keys :
                  k.key = j.key /\ k.project = j.project /\ k.kind = j.kind
    BY <2>1 DEF Revokes
  <2> QED
    BY <2>1 DEF Effects, vars, Opens, Inserts, Undoes, Removes, Stops, Wipes
<1> QED
  BY <1>3, <1>4, <1>5, <1>6, <1>7

\* Creations keep their project and their first key to themselves.
LEMMA DraftsStep ==
    ASSUME TypesOK, Fresh, Drafts, Effects
    PROVE  Drafts'
BY OneCreationStep, NoKeyYetStep, OneDraftStep, DraftUnshownStep, DraftKeyStep DEF Drafts

-----------------------------------------------------------------------------
(* Rotation. *)

\* What a rotation has seen is older than every key minted later, and a key
\* that is dead stays dead.
LEMMA RetiringStep ==
    ASSUME TypesOK, Fresh, Retiring, Effects
    PROVE  Retiring'
<1>1. minted \in Nat /\ (\A k \in keys : k.key \in 1 .. minted)
      /\ \A s \in requests : s.old \subseteq 1 .. minted
  BY DEF TypesOK, Fresh
<1>2. ASSUME NEW r \in requests, NEW q \in RequestType, Revokes(r, q) PROVE Retiring'
  <2> SUFFICES ASSUME NEW s \in requests', NEW k \in keys'
               PROVE  /\ s.pc = "revoke" /\ k.key \in s.old =>
                            k.project = s.project /\ k.kind = "browser"
                      /\ s.pc = "replace" /\ k.key \in s.old => ~k.active
    BY DEF Retiring
  <2>1. PICK j \in keys : /\ k.key = j.key /\ k.project = j.project /\ k.kind = j.kind
                          /\ k = j \/ ~k.active
                          /\ k.active => j \notin Hit(r, {"browser"})
    BY <1>2 DEF Revokes
  <2>2. CASE s \in requests
    BY <2>1, <2>2 DEF Retiring
  <2>3. CASE s = q
    <3>1. q.pc = "replace" /\ q.old = r.old /\ r.pc = "revoke"
      BY <1>2 DEF Revokes, Same
    <3>2. j.key \in r.old => j \in Hit(r, {"browser"})
      BY <3>1 DEF Retiring, Hit
    <3> QED
      BY <2>1, <2>3, <3>1, <3>2
  <2> QED
    BY <1>2, <2>2, <2>3 DEF Revokes, Turns
<1>3. ASSUME NEW q \in RequestType, Opens(q) PROVE Retiring'
  <2>1. \A k \in keys : q.pc = "revoke" /\ k.key \in q.old =>
                           k.project = q.project /\ k.kind = "browser"
    BY <1>3 DEF Opens, Keys, Fresh
  <2>2. requests' = requests \cup {q} /\ keys' = keys /\ q.pc # "replace"
    BY <1>3 DEF Opens
  <2> QED
    BY <2>1, <2>2 DEF Retiring
<1>4. CASE keys' \subseteq keys
           /\ \A q \in requests' : q \in requests \/ q.pc \notin Rotating
  BY <1>4 DEF Retiring, Rotating
<1>5. ASSUME NEW r \in requests, NEW k \in KeyType, NEW kind, Mints(r, k, kind),
             \A q \in requests' : q \in requests \/ q.pc \notin Rotating
      PROVE  Retiring'
  BY <1>1, <1>5 DEF Mints, Retiring, Rotating
<1>6. \/ \E q \in RequestType : Opens(q)
      \/ \E r \in requests, q \in RequestType : Revokes(r, q)
      \/ \A q \in requests' : q \in requests \/ q.pc \notin Rotating
  BY DEF Effects, vars, Inserts, MintsSecret, MintsBrowser, Replaces, Undoes, Removes, Stops,
         Wipes, Turns, Same, Close, Rotating
<1>7. \/ \E q \in RequestType : Opens(q)
      \/ \E r \in requests, q \in RequestType : Revokes(r, q)
      \/ keys' \subseteq keys
      \/ \E r \in requests, k \in KeyType, kind \in {"secret", "browser"} : Mints(r, k, kind)
  BY DEF Effects, vars, Inserts, MintsSecret, MintsBrowser, Replaces, Undoes, Removes, Stops,
         Wipes
<1> QED
  BY <1>2, <1>3, <1>4, <1>5, <1>6, <1>7

\* What a rotation has retired stays dead.
LEMMA RotationRetiresStep ==
    ASSUME TypesOK, Fresh, Retiring, RotationRetires, Effects
    PROVE  RotationRetires'
<1>1. minted \in Nat /\ retired \subseteq 0 .. minted
      /\ \A s \in requests : s.old \subseteq 1 .. minted
  BY DEF TypesOK, Fresh
<1>2. ASSUME NEW r \in requests, NEW n \in KeyType, Replaces(r, n) PROVE RotationRetires'
  <2>1. \A k \in keys : k.key \in r.old => ~k.active
    BY <1>2 DEF Replaces, Retiring
  <2>2. keys' = keys \cup {n} /\ n.key = minted + 1 /\ retired' = retired \cup r.old
    BY <1>2 DEF Replaces, Mints
  <2> QED
    BY <1>1, <2>1, <2>2 DEF RotationRetires
<1>3. ASSUME NEW r \in requests, NEW n \in KeyType, NEW kind, Mints(r, n, kind),
             retired' = retired
      PROVE  RotationRetires'
  BY <1>1, <1>3 DEF Mints, RotationRetires
<1>4. CASE /\ retired' = retired
           /\ \A k \in keys' : \E j \in keys : k.key = j.key /\ (k = j \/ ~k.active)
  BY <1>4 DEF RotationRetires
<1>5. retired' = retired \/ \E r \in requests, n \in KeyType : Replaces(r, n)
  BY DEF Effects, vars, history, Opens, Inserts, MintsSecret, MintsBrowser, Undoes, Removes,
         Stops, Wipes, Revokes
<1> QED
  BY <1>2, <1>3, <1>4, <1>5, KeysKept

-----------------------------------------------------------------------------
(* Deletion and compensation. *)

\* A key minted for a project that another request creates or is about to
\* remove is late.
LEMMA OwnOrLateStep ==
    ASSUME TypesOK, Fresh, Drafts, OwnOrLate, Effects
    PROVE  OwnOrLate'
<1>1. ASSUME NEW r \in requests, NEW q \in RequestType, Inserts(r, q) PROVE OwnOrLate'
  <2>1. \A k \in keys : k.project # q.project
    BY <1>1, InsertIsNew
  <2> QED
    BY <1>1, <2>1 DEF Inserts, Turns, OwnOrLate, history
<1>2. ASSUME NEW r \in requests, NEW q \in RequestType, NEW n \in KeyType, MintsSecret(r, q, n)
      PROVE  OwnOrLate'
  <2>1. /\ requests' = (requests \ {r}) \cup {q} /\ keys' = keys \cup {n}
        /\ q.key = minted + 1 /\ n.key = minted + 1 /\ n.project = r.project
        /\ q.project = r.project /\ late \subseteq late'
    BY <1>2 DEF MintsSecret, Mints, Turns
  <2>2. r.pc \in Creating /\ r.key = 0 /\ \A k \in keys : k.key # 0
    BY <1>2 DEF MintsSecret, Creating, Drafts, NoKeyYet, Fresh
  <2>3. \A s \in requests \ {r} : s.pc \in Creating => s.project # r.project
    BY <2>2 DEF Drafts, OneCreation
  <2>4. \A k \in keys : k.project = r.project => k.key \in late
    BY <2>2 DEF OwnOrLate
  <2> QED
    BY <2>1, <2>3, <2>4 DEF OwnOrLate
<1>3. ASSUME NEW r \in requests, NEW n \in KeyType, MintsBrowser(r, n)
      PROVE  OwnOrLate'
  <2>1. requests' = requests \ {r} /\ keys' = keys \cup {n} /\ n.project = r.project
        /\ late \subseteq late' /\ r.pc \in Creating
    BY <1>3 DEF MintsBrowser, Mints, Close, Creating
  <2>2. \A s \in requests \ {r} : s.pc \in Creating => s.project # r.project
    BY <2>1 DEF Drafts, OneCreation
  <2> QED
    BY <2>1, <2>2 DEF OwnOrLate
<1>4. ASSUME NEW r \in requests, NEW n \in KeyType, Replaces(r, n)
      PROVE  OwnOrLate'
  <2>1. requests' = requests \ {r} /\ keys' = keys \cup {n} /\ n.project = r.project
        /\ n.key = minted + 1 /\ late \subseteq late'
        /\ (Going(r) => minted + 1 \in late')
    BY <1>4 DEF Replaces, Mints, Close
  <2>2. \A s \in requests' : s.pc \in Creating /\ s.project = r.project => Going(r)
    BY <2>1 DEF Going, TypesOK
  <2> QED
    BY <2>1, <2>2 DEF OwnOrLate
<1>6. ASSUME NEW r \in requests, NEW q \in RequestType, Undoes(r, q)
      PROVE  OwnOrLate'
  <2>1. late' = late /\ keys' \subseteq keys
    BY <1>6 DEF Undoes, history
  <2>2. requests' = (requests \ {r}) \cup {q} /\ r.pc \in Creating /\ q.key = r.key
        /\ q.project = r.project
    BY <1>6 DEF Undoes, Turns, Same, Creating
  <2> QED
    BY <2>1, <2>2 DEF OwnOrLate
<1>7. ASSUME NEW r \in requests, NEW q \in RequestType, Revokes(r, q) \/ Wipes(r, q)
      PROVE  OwnOrLate'
  <2>1. late' = late /\ \A k \in keys' : \E j \in keys : k.key = j.key /\ k.project = j.project
    BY <1>7 DEF Revokes, Wipes
  <2>2. \A s \in requests' : s.pc \in Creating => s \in requests
    BY <1>7 DEF Revokes, Wipes, Turns, Same, Creating
  <2> QED
    BY <2>1, <2>2 DEF OwnOrLate
<1>8. ASSUME NEW q \in RequestType, Opens(q) PROVE OwnOrLate'
  BY <1>8 DEF Opens, history, OwnOrLate, Creating
<1>9. ASSUME NEW r \in requests, Removes(r) \/ Stops(r) PROVE OwnOrLate'
  BY <1>9 DEF Removes, Stops, Close, history, OwnOrLate
<1>10. CASE UNCHANGED vars
  BY <1>10 DEF vars, history, OwnOrLate
<1> QED
  BY <1>1, <1>2, <1>3, <1>4, <1>6, <1>7, <1>8, <1>9, <1>10 DEF Effects

\* A deletion removes the row when all but late keys are gone.
LEMMA RowIsLastStep ==
    ASSUME TypesOK, Fresh, RowIsLast, Effects
    PROVE  RowIsLast'
<1>1. ASSUME NEW r \in requests, NEW q \in RequestType, Wipes(r, q) PROVE RowIsLast'
  BY <1>1 DEF Wipes, Turns, Same, RowIsLast
<1>2. \A q \in requests' : q.pc = "row" =>
         q \in requests \/ \E r \in requests, p \in RequestType : Wipes(r, p)
  BY RequestsMove DEF Opens, Inserts, Undoes, Revokes, MintsSecret, Wipes, Same
<1>3. ASSUME NEW r \in requests, NEW n \in KeyType, NEW kind, Mints(r, n, kind),
             r.pc # "row", \A q \in requests' : q.pc = "row" => q \in requests
      PROVE  RowIsLast'
  <2>1. \A s \in requests : s.pc = "row" /\ s.project = r.project => Going(r)
    BY <1>3 DEF Going
  <2> QED
    BY <1>3, <2>1 DEF Mints, RowIsLast
<1>4. CASE /\ \A q \in requests' : q.pc = "row" => q \in requests
           /\ late' = late
           /\ \A k \in keys' : \E j \in keys : k.key = j.key /\ k.project = j.project
  BY <1>4 DEF RowIsLast
<1>5. \/ /\ late' = late
         /\ \A k \in keys' : \E j \in keys : k.key = j.key /\ k.project = j.project
      \/ \E r \in requests, k \in KeyType, kind \in {"secret", "browser"} :
            Mints(r, k, kind) /\ r.pc # "row"
  <2>1. ASSUME NEW r \in requests, NEW q \in RequestType, Revokes(r, q)
        PROVE  /\ late' = late
               /\ \A k \in keys' : \E j \in keys : k.key = j.key /\ k.project = j.project
    BY <2>1 DEF Revokes
  <2>2. CASE late' = late /\ keys' \subseteq keys
    BY <2>2
  <2> QED
    BY <2>1, <2>2 DEF Effects, vars, history, Opens, Inserts, MintsSecret, MintsBrowser, Replaces,
       Undoes, Removes, Stops, Wipes
<1> QED
  BY <1>1, <1>2, <1>3, <1>4, <1>5

\* A key loses its project only if it is late or can no longer be shown.
LEMMA InertStep ==
    ASSUME TypesOK, Fresh, Drafts, OwnOrLate, RowIsLast, Inert, Effects
    PROVE  Inert'
<1>1. /\ minted \in Nat /\ shown \subseteq 0 .. minted
      /\ \A k \in keys : k.key \in 1 .. minted
      /\ \A s \in requests : s.key \in 0 .. minted
  BY DEF TypesOK, Fresh
<1>2. ASSUME NEW r \in requests, NEW n \in KeyType, NEW kind, Mints(r, n, kind)
      PROVE  /\ keys' = keys \cup {n} /\ n.key = minted + 1 /\ projects' = projects
             /\ late \subseteq late'
             /\ n.project \notin projects => n.key \in late'
  BY <1>2 DEF Mints, Going
<1>3. ASSUME NEW r \in requests, NEW q \in RequestType, NEW n \in KeyType, MintsSecret(r, q, n)
      PROVE  Inert'
  <2>1. requests' = (requests \ {r}) \cup {q} /\ q.key = minted + 1 /\ shown' = shown
    BY <1>3 DEF MintsSecret, Turns
  <2>2. Mints(r, n, "secret")
    BY <1>3 DEF MintsSecret
  <2> QED
    BY <1>1, <1>2, <2>1, <2>2 DEF Inert
<1>4. ASSUME NEW r \in requests, NEW n \in KeyType, MintsBrowser(r, n)
      PROVE  Inert'
  <2>1. /\ requests' = requests \ {r} /\ shown' = shown \cup {r.key, minted + 1}
        /\ r.pc = "browser"
    BY <1>4 DEF MintsBrowser, Close
  <2>2. Mints(r, n, "browser")
    BY <1>4 DEF MintsBrowser
  <2> QED
    BY <1>1, <1>2, <2>1, <2>2 DEF Inert
<1>5. ASSUME NEW r \in requests, NEW n \in KeyType, Replaces(r, n)
      PROVE  Inert'
  <2>1. requests' = requests \ {r} /\ shown' = shown \cup {minted + 1}
    BY <1>5 DEF Replaces, Close
  <2>2. Mints(r, n, "browser")
    BY <1>5 DEF Replaces
  <2> QED
    BY <1>1, <1>2, <2>1, <2>2 DEF Inert
<1>6. ASSUME NEW r \in requests, Removes(r) PROVE Inert'
  <2>1. /\ requests' = requests \ {r} /\ projects' = projects \ {r.project}
        /\ keys' = keys /\ shown' = shown /\ late' = late
    BY <1>6 DEF Removes, Close, history
  <2>2. CASE r.pc = "row"
    BY <2>1, <2>2 DEF RowIsLast, Inert
  <2>3. CASE r.pc = "undo_project"
    <3>1. \A k \in keys : k.project = r.project => k.key \in late \/ k.key = r.key
      BY <2>3 DEF OwnOrLate, Creating
    <3>2. r.key # 0 => r.key \notin shown
      BY <2>3 DEF Drafts, DraftUnshown, Draft, Creating
    <3>3. r.key # 0 => \A s \in requests \ {r} : s.pc = "browser" => s.key # r.key
      BY <2>3 DEF Drafts, OneDraft, Draft, Creating
    <3> QED
      BY <1>1, <2>1, <3>1, <3>2, <3>3 DEF Inert
  <2> QED
    BY <1>6, <2>2, <2>3 DEF Removes
<1>7. ASSUME projects \subseteq projects', UNCHANGED <<shown, late>>,
             \A k \in keys' : \E j \in keys : k.key = j.key /\ k.project = j.project,
             \A q \in requests' : q.pc = "browser" => q \in requests
      PROVE  Inert'
  BY <1>7 DEF Inert
<1>8. ASSUME NEW r \in requests, NEW q \in RequestType, Revokes(r, q)
      PROVE  /\ projects' = projects /\ UNCHANGED <<shown, late>>
             /\ \A k \in keys' : \E j \in keys : k.key = j.key /\ k.project = j.project
             /\ \A s \in requests' : s.pc = "browser" => s \in requests
  BY <1>8 DEF Revokes, Turns, Same
<1>9. \/ /\ projects \subseteq projects' /\ UNCHANGED <<shown, late>> /\ keys' \subseteq keys
         /\ \A q \in requests' : q.pc = "browser" => q \in requests
      \/ \E r \in requests, q \in RequestType :
            Revokes(r, q) \/ \E n \in KeyType : MintsSecret(r, q, n)
      \/ \E r \in requests : Removes(r) \/ \E n \in KeyType : MintsBrowser(r, n) \/ Replaces(r, n)
  BY DEF Effects, vars, history, Opens, Inserts, Undoes, Stops, Wipes, Turns, Same, Close
<1> QED
  BY <1>3, <1>4, <1>5, <1>6, <1>7, <1>8, <1>9

-----------------------------------------------------------------------------
(* The keys a project has. *)

\* A step takes away no key of a project but by a request on the project, or
\* by striking it.
LEMMA KeyLoss ==
    ASSUME TypesOK, Fresh, Drafts, Effects
    PROVE  \A k \in keys : k.active =>
              \/ k \in keys'
              \/ k.project \in struck'
              \/ \E r \in requests, q \in RequestType :
                    /\ r.project = k.project
                    /\ \/ Revokes(r, q) /\ k.kind = "browser"
                       \/ Wipes(r, q)
                       \/ Undoes(r, q) /\ r.pc = "undo_key"
<1> SUFFICES ASSUME NEW k \in keys, k.active, k \notin keys', k.project \notin struck'
             PROVE  \E r \in requests, q \in RequestType :
                       /\ r.project = k.project
                       /\ \/ Revokes(r, q) /\ k.kind = "browser"
                          \/ Wipes(r, q)
                          \/ Undoes(r, q) /\ r.pc = "undo_key"
  OBVIOUS
<1>1. ASSUME NEW r \in requests, NEW q \in RequestType, Revokes(r, q)
      PROVE  r.project = k.project /\ k.kind = "browser"
  BY <1>1 DEF Revokes, Hit
<1>2. ASSUME NEW r \in requests, NEW q \in RequestType, Wipes(r, q)
      PROVE  r.project = k.project
  BY <1>2 DEF Wipes
<1>3. ASSUME NEW r \in requests, NEW q \in RequestType, Undoes(r, q)
      PROVE  r.project = k.project /\ r.pc = "undo_key"
  <2>1. r.pc = "undo_key" /\ k.key = r.key
    BY <1>3 DEF Undoes
  <2> QED
    BY <2>1 DEF Drafts, DraftKey, DraftUnshown, Draft, Creating
<1>4. \E r \in requests, q \in RequestType : Revokes(r, q) \/ Wipes(r, q) \/ Undoes(r, q)
  BY DEF Effects, vars, Opens, Inserts, MintsSecret, MintsBrowser, Replaces, Mints, Removes, Stops
<1> QED
  BY <1>1, <1>2, <1>3, <1>4

\* How a request ends on a project that stays sound: by its last write.
LEMMA RequestLeaves ==
    ASSUME TypesOK, Effects, NEW s \in requests, s.project \in Sound'
    PROVE  /\ s.pc \in Creating =>
                 \/ \E q \in requests' : q.project = s.project /\ q.pc \in Creating
                 \/ \E n \in KeyType : MintsBrowser(s, n)
           /\ s.pc = "row" => s \in requests'
           /\ s.pc = "replace" => s \in requests' \/ \E n \in KeyType : Replaces(s, n)
<1>1. CASE s \in requests'
  BY <1>1
<1>2. CASE s \notin requests'
  <2>1. ~Removes(s) /\ ~Stops(s)
    BY DEF Removes, Stops, Sound
  <2>2. \/ \E n \in KeyType : MintsBrowser(s, n) \/ Replaces(s, n)
        \/ \E q \in RequestType :
              /\ Turns(s, q)
              /\ \/ Inserts(s, q) \/ Undoes(s, q) \/ Revokes(s, q) \/ Wipes(s, q)
                 \/ \E n \in KeyType : MintsSecret(s, q, n)
    <3>1. ASSUME NEW r \in requests, NEW q \in RequestType, Turns(r, q) PROVE r = s
      BY <1>2, <3>1 DEF Turns
    <3>2. ASSUME NEW r \in requests, Close(r) PROVE r = s
      BY <1>2, <3>2 DEF Close
    <3>3. ~(\E q \in RequestType : Opens(q)) /\ ~(UNCHANGED vars)
      BY <1>2 DEF Opens, vars
    <3>4. CASE \E r \in requests, q \in RequestType :
                  Inserts(r, q) \/ (\E k \in KeyType : MintsSecret(r, q, k)) \/ Undoes(r, q)
                  \/ Revokes(r, q) \/ Wipes(r, q)
      <4>1. PICK r \in requests, q \in RequestType :
                  Inserts(r, q) \/ (\E k \in KeyType : MintsSecret(r, q, k)) \/ Undoes(r, q)
                  \/ Revokes(r, q) \/ Wipes(r, q)
        BY <3>4
      <4>2. Turns(r, q)
        BY <4>1 DEF Inserts, MintsSecret, Undoes, Revokes, Wipes
      <4>3. r = s
        BY <3>1, <4>2
      <4> QED
        BY <4>1, <4>2, <4>3
    <3>5. CASE \E r \in requests :
                  (\E k \in KeyType : MintsBrowser(r, k) \/ Replaces(r, k)) \/ Removes(r)
                  \/ Stops(r)
      <4>1. PICK r \in requests :
                  (\E k \in KeyType : MintsBrowser(r, k) \/ Replaces(r, k)) \/ Removes(r)
                  \/ Stops(r)
        BY <3>5
      <4>2. r = s
        BY <3>2, <4>1 DEF MintsBrowser, Replaces, Removes, Stops
      <4> QED
        BY <2>1, <4>1, <4>2
    <3> QED
      BY <3>3, <3>4, <3>5 DEF Effects
  <2>3. ASSUME NEW n \in KeyType, MintsBrowser(s, n) \/ Replaces(s, n)
        PROVE  /\ s.pc \in Creating => MintsBrowser(s, n)
               /\ s.pc # "row" /\ (s.pc = "replace" => Replaces(s, n))
    BY <2>3 DEF MintsBrowser, Replaces, Creating
  <2>4. ASSUME NEW q \in RequestType, Turns(s, q),
               \/ Inserts(s, q) \/ Undoes(s, q) \/ Revokes(s, q) \/ Wipes(s, q)
               \/ \E n \in KeyType : MintsSecret(s, q, n)
        PROVE  /\ s.pc \notin {"row", "replace"} /\ q \in requests'
               /\ s.pc \in Creating => q.project = s.project /\ q.pc \in Creating
    BY <2>4 DEF Inserts, Undoes, Revokes, Wipes, MintsSecret, Same, Creating, Turns
  <2> QED
    BY <2>2, <2>3, <2>4
<1> QED
  BY <1>1, <1>2

\* A project that is sound was, or is new and being created.
LEMMA SoundBefore ==
    ASSUME TypesOK, Effects, NEW p \in Sound'
    PROVE  /\ shown \subseteq shown'
           /\ \/ p \in Sound
              \/ \E r \in requests, q \in RequestType : Inserts(r, q) /\ q.project = p
<1>1. \/ projects' \subseteq projects
      \/ \E r \in requests, q \in RequestType :
            Inserts(r, q) /\ projects' = projects \cup {q.project}
  BY DEF Effects, vars, Opens, Inserts, MintsSecret, MintsBrowser, Replaces, Mints, Undoes,
         Removes, Stops, Revokes, Wipes
<1>2. broken \subseteq broken' /\ struck \subseteq struck' /\ shown \subseteq shown'
  BY DEF Effects, vars, history, Opens, Inserts, MintsSecret, MintsBrowser, Replaces, Mints,
         Undoes, Removes, Stops, Revokes, Wipes
<1> QED
  BY <1>1, <1>2 DEF Sound

\* A sound project keeps its keys from one request to the next.
LEMMA EndowedStep ==
    ASSUME TypesOK, Fresh, Drafts, Endowed, DraftIsKept, Effects
    PROVE  Endowed'
<1> SUFFICES ASSUME NEW p \in Sound', Created(p)', Kept(p)'
             PROVE  Secret(p)' /\ (Replaced(p)' => Browser(p)')
  BY DEF Endowed
<1>1. p \in Sound /\ shown \subseteq shown'
  <2>1. ASSUME NEW r \in requests, NEW q \in RequestType, Inserts(r, q), q.project = p
        PROVE  FALSE
    BY <2>1 DEF Inserts, Turns, Created, Creating
  <2> QED
    BY <2>1, SoundBefore
<1>2. Kept(p)
  BY RequestLeaves DEF Kept
<1>3. ASSUME NEW s \in requests, s.project = p, s.pc \in Creating
      PROVE  Secret(p)' /\ Browser(p)'
  <2>1. PICK n \in KeyType : MintsBrowser(s, n)
    BY <1>3, RequestLeaves DEF Created
  <2>2. PICK k \in keys : k.key = s.key /\ k.project = p /\ k.kind = "secret" /\ k.active
    BY <1>1, <1>2, <1>3, <2>1 DEF DraftIsKept, MintsBrowser
  <2>3. /\ k \in keys' /\ n \in keys' /\ n.project = p /\ n.kind = "browser" /\ n.active
        /\ n.key \in shown'
    BY <1>3, <2>1 DEF MintsBrowser, Mints
  <2> QED
    BY <2>2, <2>3 DEF Secret, Browser
<1>4. CASE Created(p)
  <2>1. Secret(p) /\ (Replaced(p) => Browser(p))
    BY <1>1, <1>2, <1>4 DEF Endowed
  <2>2. ASSUME NEW k \in keys, k.project = p, k.active
        PROVE  \/ k \in keys'
               \/ /\ k.kind = "browser"
                  /\ \E r \in requests, q \in RequestType : r.project = p /\ Revokes(r, q)
    <3>1. p \notin struck'
      BY DEF Sound
    <3>2. ASSUME NEW r \in requests, NEW q \in RequestType, r.project = p, Wipes(r, q)
          PROVE  FALSE
      BY <3>2 DEF Wipes, Turns, Same, Kept
    <3>3. ASSUME NEW r \in requests, NEW q \in RequestType, r.project = p, r.pc = "undo_key"
          PROVE  FALSE
      BY <1>4, <3>3 DEF Created, Creating
    <3> QED
      BY <2>2, <3>1, <3>2, <3>3, KeyLoss
  <2>3. Secret(p)'
    BY <2>1, <2>2 DEF Secret
  <2>4. ASSUME Replaced(p)' PROVE Browser(p)'
    <3>1. CASE Replaced(p)
      <4>1. PICK k \in keys : /\ k.project = p /\ k.kind = "browser" /\ k.active
                              /\ k.key \in shown
        BY <2>1, <3>1 DEF Browser
      <4>2. ASSUME NEW r \in requests, NEW q \in RequestType, r.project = p, Revokes(r, q)
            PROVE  FALSE
        BY <2>4, <4>2 DEF Revokes, Turns, Same, Replaced
      <4>3. k \in keys'
        BY <2>2, <4>1, <4>2
      <4> QED
        BY <1>1, <4>1, <4>3 DEF Browser
    <3>2. CASE ~Replaced(p)
      <4>1. PICK s \in requests : s.project = p /\ s.pc = "replace"
        BY <3>2 DEF Replaced
      <4>2. PICK n \in KeyType : Replaces(s, n)
        BY <2>4, <4>1, RequestLeaves DEF Replaced
      <4>3. /\ n \in keys' /\ n.project = p /\ n.kind = "browser" /\ n.active
            /\ n.key \in shown'
        BY <4>1, <4>2 DEF Replaces, Mints
      <4> QED
        BY <4>3 DEF Browser
    <3> QED
      BY <3>1, <3>2
  <2> QED
    BY <2>3, <2>4
<1> QED
  BY <1>3, <1>4 DEF Created

\* A sound creation's first key is there until the second is minted.
LEMMA DraftIsKeptStep ==
    ASSUME TypesOK, Fresh, Drafts, DraftIsKept, Effects
    PROVE  DraftIsKept'
<1> SUFFICES ASSUME NEW q \in requests', q.pc = "browser", q.project \in Sound',
                    Kept(q.project)'
             PROVE  \E k \in keys' : /\ k.key = q.key /\ k.project = q.project
                                     /\ k.kind = "secret" /\ k.active
  BY DEF DraftIsKept
<1>1. ASSUME NEW r \in requests, NEW n \in KeyType, MintsSecret(r, q, n)
      PROVE  /\ n \in keys' /\ n.key = q.key /\ n.project = q.project
             /\ n.kind = "secret" /\ n.active
  BY <1>1 DEF MintsSecret, Mints
<1>2. CASE q \in requests
  <2>1. q.project \in Sound
    BY <1>2, SoundBefore, InsertIsNew
  <2>2. Kept(q.project)
    BY RequestLeaves DEF Kept
  <2>3. PICK k \in keys : /\ k.key = q.key /\ k.project = q.project
                          /\ k.kind = "secret" /\ k.active
    BY <1>2, <2>1, <2>2 DEF DraftIsKept
  <2>4. q.project \notin struck'
    BY DEF Sound
  <2>5. ASSUME NEW r \in requests, NEW s \in RequestType, r.project = q.project, Wipes(r, s)
        PROVE  FALSE
    BY <2>5 DEF Wipes, Turns, Same, Kept
  <2>6. ASSUME NEW r \in requests, r.project = q.project, r.pc = "undo_key"
        PROVE  FALSE
    BY <1>2, <2>6 DEF Drafts, OneCreation, Creating
  <2>7. k \in keys'
    BY <2>3, <2>4, <2>5, <2>6, KeyLoss
  <2> QED
    BY <2>3, <2>7
<1>3. \/ q \in requests
      \/ \E r \in requests, n \in KeyType : MintsSecret(r, q, n)
  BY RequestsMove DEF Opens, Inserts, Undoes, Revokes, Wipes, Same
<1> QED
  BY <1>1, <1>2, <1>3

-----------------------------------------------------------------------------
(* The theorems. *)

\* The inductive invariant holds in every reachable state: which request owns
\* which keys of which project, and what the others may still do to them.
THEOREM ProjectsInvariant == Spec => []ProjectsInv
<1>1. Init => ProjectsInv
  BY DEF Init, ProjectsInv, TypesOK, Fresh, Drafts, OneCreation, NoKeyYet, OneDraft,
         DraftUnshown, DraftKey, RotationRetires, Retiring, OwnOrLate, RowIsLast, Inert,
         Endowed, Sound, DraftIsKept
<1>2. ProjectsInv /\ [Next]_vars => ProjectsInv'
  <2> SUFFICES ASSUME ProjectsInv, [Next]_vars PROVE ProjectsInv'
    OBVIOUS
  <2>1. /\ TypesOK /\ Fresh /\ Drafts /\ RotationRetires /\ Retiring /\ OwnOrLate /\ RowIsLast
        /\ Inert /\ Endowed /\ DraftIsKept
    BY DEF ProjectsInv
  <2>2. Effects
    BY <2>1, StepEffects
  <2> QED
    BY <2>1, <2>2, TypesStep, FreshStep, DraftsStep, RetiringStep, RotationRetiresStep,
       OwnOrLateStep, RowIsLastStep, InertStep, EndowedStep, DraftIsKeptStep DEF ProjectsInv
<1> QED
  BY <1>1, <1>2, PTL DEF Spec

\* A project on which nothing is under way, or was broken off, has its two keys,
\* unless a request of another organization took them.
THEOREM ProjectsHaveKeys == Spec => []ProjectHasKeys
<1>1. ProjectsInv => ProjectHasKeys
  <2> SUFFICES ASSUME ProjectsInv, NEW p \in Sound, ~(\E r \in requests : r.project = p)
               PROVE  /\ \E k \in Keys(p, "secret") : k.active
                      /\ \E k \in Keys(p, "browser") : pinned(k, p) /\ k.key \in shown
    BY DEF ProjectHasKeys, Sound
  <2>1. Secret(p) /\ Browser(p)
    BY DEF ProjectsInv, Endowed, Created, Kept, Replaced
  <2> QED
    BY <2>1 DEF Secret, Browser, Keys, pinned, Sound
<1> QED
  BY <1>1, ProjectsInvariant, PTL

\* Another organization has handed out the number of the project too.
Namesake(p) == \E o \in Orgs \ {p.org} : p.id < serial[o]
StruckHaveNamesakes == \A p \in struck : p \in ProjectType /\ Namesake(p)

\* The keys a request takes from others are those of a namesake.
LEMMA StruckStep ==
    ASSUME ProjectsInv, StruckHaveNamesakes, [Next]_vars
    PROVE  StruckHaveNamesakes'
<1>1. TypesOK /\ Fresh /\ serial \in [Orgs -> Nat]
  BY DEF ProjectsInv, TypesOK
<1>2. \A o \in Orgs : serial'[o] \in {serial[o], serial[o] + 1}
  BY <1>1 DEF Next, vars, create_project_for, count_failed, post_publishable_key,
         rotate_publishable_key, delete_project_for, Step, create_project, mint_secret,
         mint_browser, mint_failed, delete_api_key, delete_project, undo_failed,
         revoke_publishable_keys_for_project, replace, delete_api_keys_for_project,
         delete_project_by_app, request_stops
<1>3. ASSUME NEW p \in ProjectType, Namesake(p) PROVE Namesake(p)'
  BY <1>1, <1>2, <1>3 DEF Namesake, Fresh, ProjectType
<1>4. ASSUME NEW r \in requests, NEW k \in keys, r.pc # "insert",
             k.project.id = r.project.id, k.project # r.project
      PROVE  k.project \in ProjectType /\ Namesake(k.project)
  <2>1. k.project \in ProjectType /\ r.project \in ProjectType
    BY <1>1 DEF TypesOK, KeyType, RequestType
  <2>2. k.project.org # r.project.org
    BY <1>4, <2>1 DEF ProjectType
  <2>3. r.project.id \in 1 .. serial[r.project.org] - 1
    BY <1>1, <1>4 DEF Fresh, Numbered
  <2> QED
    BY <1>1, <1>4, <2>1, <2>2, <2>3 DEF Namesake, ProjectType
<1>5. CASE UNCHANGED struck
  BY <1>3, <1>5 DEF StruckHaveNamesakes
<1>6. ASSUME NEW r \in requests,
             revoke_publishable_keys_for_project(r) \/ delete_api_keys_for_project(r)
      PROVE  StruckHaveNamesakes'
  <2>1. /\ r.pc # "insert"
        /\ \A p \in struck' \ struck : \E k \in keys :
              p = k.project /\ k.project.id = r.project.id /\ k.project # r.project
    BY <1>6 DEF revoke_publishable_keys_for_project, delete_api_keys_for_project, Struck
  <2>2. \A p \in struck' : p \in ProjectType /\ Namesake(p)
    BY <1>4, <2>1 DEF StruckHaveNamesakes
  <2> QED
    BY <1>3, <2>2 DEF StruckHaveNamesakes
<1> QED
  BY <1>5, <1>6
     DEF Next, vars, history, create_project_for, count_failed, post_publishable_key,
         rotate_publishable_key, delete_project_for, Step, create_project, mint_secret,
         mint_browser, mint_failed, delete_api_key, create_api_key, delete_project, undo_failed,
         replace, delete_project_by_app, request_stops

\* A project whose number no other organization has handed out keeps its keys
\* whatever the others do: the exception of ProjectHasKeys is for namesakes only.
THEOREM UniqueProjectsHaveKeys ==
    Spec => [](\A p \in projects \ broken :
                  \/ \E r \in requests : r.project = p
                  \/ Namesake(p)
                  \/ /\ \E k \in Keys(p, "secret") : k.active
                     /\ \E k \in Keys(p, "browser") : pinned(k, p) /\ k.key \in shown)
<1>1. Init => StruckHaveNamesakes
  BY DEF Init, StruckHaveNamesakes
<1>2. ProjectsInv /\ StruckHaveNamesakes /\ [Next]_vars => StruckHaveNamesakes'
  BY StruckStep
<1>3. StruckHaveNamesakes /\ ProjectHasKeys =>
         \A p \in projects \ broken :
            \/ \E r \in requests : r.project = p
            \/ Namesake(p)
            \/ /\ \E k \in Keys(p, "secret") : k.active
               /\ \E k \in Keys(p, "browser") : pinned(k, p) /\ k.key \in shown
  BY DEF StruckHaveNamesakes, ProjectHasKeys
<1> QED
  BY <1>1, <1>2, <1>3, ProjectsInvariant, ProjectsHaveKeys, PTL DEF Spec

\* A key that outlives its project was shown to nobody or came too late.
THEOREM LeftoversAreInert == Spec => []KeysDieWithProject
<1>1. ProjectsInv => KeysDieWithProject
  BY DEF ProjectsInv, Inert, KeysDieWithProject
<1> QED
  BY <1>1, ProjectsInvariant, PTL

\* What an answered rotation has retired is dead for good.
THEOREM RotationsRetire == Spec => []RotationRetires
<1>1. ProjectsInv => RotationRetires
  BY DEF ProjectsInv
<1> QED
  BY <1>1, ProjectsInvariant, PTL
=============================================================================
