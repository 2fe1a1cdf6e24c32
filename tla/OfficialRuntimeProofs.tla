----------------------- MODULE OfficialRuntimeProofs -----------------------
(***************************************************************************)
(* Proofs about OfficialRuntime, for any workers, helpers, instances,       *)
(* groups, addresses, harness versions, retries and faults, and a registry  *)
(* of either age, as long as no worker is killed:                           *)
(*   - TypeCorrect: the type invariant;                                     *)
(*   - ContainersAreExclusive: no container is used for two instances;      *)
(*   - OwnersStay: a registered name does not get a second owner;           *)
(* if helpers write their lifecycle file before they fail:                  *)
(*   - UsersAreUndisturbed: a container in use stays as it is;              *)
(* and, if they do not, but images are not rebuilt:                         *)
(*   - CleanupSpares: a cleanup removes nothing that is another instance's. *)
(* A helper whose worker is killed goes on without the instance's lock, and *)
(* a container may then be used twice or removed under its user.            *)
(***************************************************************************)
EXTENDS OfficialRuntime, FiniteSetTheorems, WellFoundedInduction, TLAPS

-----------------------------------------------------------------------------
\* The invariant.

ContainerStates == {"created", "running", "exited", "dead"}
HelperPoints    == {"free", "launched", "resolving", "waking", "creating", "checking",
                    "confirming", "failing", "done", "failed"}
WorkerRecords ==
    [pc : {"idle", "starting", "cleaning", "using"}, inst : Instances \cup {None},
     name : Names \cup {None}, id : Nat, before : SUBSET Nat, by : Helpers \cup {None}]
HelperRecords ==
    [pc : HelperPoints, inst : Instances \cup {None}, dir : Workers \cup {None},
     parent : Workers \cup {None}, image : Images \cup {None}, name : Names \cup {None},
     id : Nat, tries : Nat, own : BOOLEAN]

Types ==
    /\ entries \in [Instances -> Names \cup {None}]
    /\ Existing \subseteq Names /\ IsFiniteSet(Existing)
    /\ docker \in [Existing -> [state : ContainerStates, id : Nat]]
    /\ harness \in [version : 1 .. MaxHarness, rebuild : BOOLEAN]
    /\ lifecycle \in [Workers -> [Instances -> SUBSET Names]]
    /\ worker \in [Workers -> WorkerRecords]
    /\ helper \in [Helpers -> HelperRecords]
    /\ \A w \in Workers : IsFiniteSet(worker[w].before)

\* The locks: a worker at work has an instance of its own, and every helper is
\* that of a worker that waits for it.
Locks ==
    /\ \A w \in Workers : worker[w].pc # "idle" => worker[w].inst \in Instances
    /\ \A v, w \in Workers :
          (v # w /\ worker[v].pc # "idle" /\ worker[w].pc # "idle")
              => worker[v].inst # worker[w].inst
    /\ \A w \in Workers : worker[w].pc = "starting" =>
          /\ worker[w].by \in Helpers
          /\ helper[worker[w].by].pc # "free" /\ helper[worker[w].by].dir = w
    /\ \A h \in Helpers : helper[h].pc # "free" =>
          /\ helper[h].dir \in Workers /\ helper[h].parent = helper[h].dir
          /\ worker[helper[h].dir].pc = "starting" /\ worker[helper[h].dir].by = h
          /\ worker[helper[h].dir].inst = helper[h].inst

\* Names are of the image of the instance they are registered for.
OfItsImage ==
    \A i \in Instances : entries[i] # None =>
        /\ entries[i].image.group = GroupOf[i]
        /\ entries[i].image.version <= harness.version

\* What a helper asks resolve() for is of an image no older than that of the
\* registered name, and has no scope unless it is that name.
Asked(h) ==
    LET i == helper[h].inst  n == helper[h].name
    IN  /\ n \in Names /\ helper[h].image = n.image
        /\ n.image.group = GroupOf[i] /\ n.image.version <= harness.version
        /\ entries[i] # None => entries[i].image.version <= n.image.version
        /\ n.scope # << >> => n = entries[i]

Asking == \A h \in Helpers : helper[h].pc = "resolving" => Asked(h)

\* Names that are registered or that containers have.
Known == Existing \cup ({entries[i] : i \in Instances} \ {None})

\* The instance a name was made for.
Last(n) == n.scope[Len(n.scope)]

\* A name made for an instance is its registered name or of an older image than
\* that, and no two instances have it.
Scoped ==
    \A n \in Known : n.scope # << >> =>
        /\ entries[Last(n)] # None
        /\ entries[Last(n)] # n => n.image.version < entries[Last(n)].image.version
        /\ \A i, j \in Instances : entries[i] = n /\ entries[j] = n => i = j

\* Of the owners of its name, the instance is the first.
Leads(es, i) ==
    /\ es[i] # None
    /\ \A j \in Instances : es[j] = es[i] => i <= j

\* After resolve(), the container a helper works on and a worker uses is its
\* instance's own.
Working ==
    /\ \A h \in Helpers :
          helper[h].pc \in {"waking", "creating", "checking", "confirming", "failing", "done"} =>
              /\ helper[h].name = entries[helper[h].inst]
              /\ Leads(entries, helper[h].inst)
    /\ \A w \in Workers : worker[w].pc = "using" =>
              /\ worker[w].name = entries[worker[w].inst]
              /\ Leads(entries, worker[w].inst)

\* The lifecycle file is of this startup, ...
Current(w) ==
    \/ worker[w].pc = "cleaning"
    \/ (worker[w].pc = "starting" /\ helper[worker[w].by].pc # "launched")

\* ... and lists no container but the instance's own, and that only if it did not
\* exist before the startup.
ListsOwn(w) ==
    \A n \in lifecycle[w][worker[w].inst] :
        /\ n = entries[worker[w].inst] /\ Leads(entries, worker[w].inst)
        /\ n \in Existing => docker[n].id \notin worker[w].before

Listed == ~EarlyFailure => \A w \in Workers : Current(w) => ListsOwn(w)

Inv == Types /\ Locks /\ OfItsImage /\ Asking /\ Scoped /\ Working /\ Listed

-----------------------------------------------------------------------------
\* Finite sets and the numbers of containers.

\* The values of a function on a finite set are finitely many.
LEMMA ValuesAreFinite ==
    ASSUME NEW S, IsFiniteSet(S), NEW f
    PROVE  IsFiniteSet({f[x] : x \in S})
<1> DEFINE T == {f[x] : x \in S}
           g == [x \in S |-> f[x]]
<1>1. g \in [S -> T]
  OBVIOUS
<1>2. \A y \in T : \E x \in S : g[x] = y
  OBVIOUS
<1> HIDE DEF g
<1>3. g \in Surjection(S, T)
  BY <1>1, <1>2 DEF Surjection
<1> HIDE DEF T
<1>4. IsFiniteSet(T)
  BY <1>3, FS_Surjection
<1> QED
  BY <1>4 DEF T

\* A finite set that has 0 misses a number from 1 to its size.
LEMMA OneIsFree ==
    ASSUME NEW S, IsFiniteSet(S), 0 \in S
    PROVE  \E k \in 1 .. Cardinality(S) : k \notin S
<1> SUFFICES ASSUME \A k \in 1 .. Cardinality(S) : k \in S
             PROVE  FALSE
  OBVIOUS
<1> DEFINE c == Cardinality(S)
           T == 0 .. c
<1>1. c \in Nat
  BY FS_CardinalityType
<1>2. Cardinality(T) = c + 1
  BY <1>1, FS_Interval
<1>3. \A k \in T : k \in S
  BY <1>1
<1>4. T \in SUBSET S
  BY <1>3
<1>5. Cardinality(T) <= c
  BY <1>4, FS_Subset
<1> QED
  BY <1>1, <1>2, <1>5

\* A set of natural numbers has a least one.
Before == OpToRel(<, Nat)

LEMMA LeastOfNat ==
    ASSUME NEW K \in SUBSET Nat, K # {}
    PROVE  \E k \in K : \A j \in K : k <= j
<1>1. IsWellFoundedOn(Before, Nat)
  BY NatLessThanWellFounded DEF Before
<1>2. PICK k \in K : \A j \in K : <<j, k>> \notin Before
  BY <1>1, WFMin
<1>3. Before = {ss \in Nat \X Nat : ss[1] < ss[2]}
  BY Zenon DEF Before, OpToRel
<1>4. ASSUME NEW j \in K
      PROVE  k <= j
  <2>1. k \in Nat /\ j \in Nat
    OBVIOUS
  <2>2. <<j, k>> \in Nat \X Nat /\ <<j, k>>[1] = j /\ <<j, k>>[2] = k
    BY <2>1
  <2>3. ~ (j < k)
    BY <1>2, <1>3, <2>2, Zenon
  <2> QED
    BY <2>1, <2>3
<1> QED
  BY <1>4

\* A new container's identity is unlike that of any container that exists or that
\* a worker saw before it launched its helper.
LEMMA NewIdIsNew ==
    ASSUME Types
    PROVE  /\ NewId \in Nat
           /\ \A n \in Existing : docker[n].id # NewId
           /\ \A w \in Workers : NewId \notin worker[w].before
<1> USE RuntimeAssumption
<1> DEFINE ids == [n \in Existing |-> docker[n].id]
           wids == [w \in Workers |-> worker[w].id]
           hids == [h \in Helpers |-> helper[h].id]
           befores == [w \in Workers |-> worker[w].before]
           A == {docker[n].id : n \in Existing}
           B == {worker[w].id : w \in Workers}
           C == {helper[h].id : h \in Helpers}
           D == {worker[w].before : w \in Workers}
           used == A \cup B \cup C \cup {0} \cup UNION D
<1>1. IsFiniteSet(A)
  <2>1. A = {ids[n] : n \in Existing}
    OBVIOUS
  <2>2. IsFiniteSet(Existing)
    BY DEF Types
  <2> HIDE DEF A, ids
  <2> QED
    BY <2>1, <2>2, ValuesAreFinite
<1>2. IsFiniteSet(B)
  <2>1. B = {wids[w] : w \in Workers}
    OBVIOUS
  <2> HIDE DEF B, wids
  <2> QED
    BY <2>1, ValuesAreFinite
<1>3. IsFiniteSet(C)
  <2>1. C = {hids[h] : h \in Helpers}
    OBVIOUS
  <2> HIDE DEF C, hids
  <2> QED
    BY <2>1, ValuesAreFinite
<1>4. IsFiniteSet(UNION D)
  <2>1. D = {befores[w] : w \in Workers}
    OBVIOUS
  <2>2. IsFiniteSet({befores[w] : w \in Workers})
    <3> HIDE DEF befores
    <3> QED
      BY ValuesAreFinite
  <2>3. \A s \in D : IsFiniteSet(s)
    BY DEF Types
  <2> HIDE DEF D, befores
  <2> QED
    BY <2>1, <2>2, <2>3, FS_UNION
<1>5. IsFiniteSet(used)
  <2> HIDE DEF A, B, C, D
  <2>1. IsFiniteSet(A \cup B)
    BY <1>1, <1>2, FS_Union
  <2>2. IsFiniteSet(A \cup B \cup C)
    BY <1>3, <2>1, FS_Union
  <2>3. IsFiniteSet(A \cup B \cup C \cup {0})
    BY <2>2, FS_AddElement
  <2> QED
    BY <1>4, <2>3, FS_Union
<1>6. UsedIds = used
  BY DEF UsedIds, Present
<1>7. 0 \in used
  OBVIOUS
<1>8. NewId \in 1 .. Cardinality(used) /\ NewId \notin used
  <2> HIDE DEF used
  <2> QED
    BY <1>5, <1>6, <1>7, OneIsFree DEF NewId
<1>9. Cardinality(used) \in Nat
  <2> HIDE DEF used
  <2> QED
    BY <1>5, FS_CardinalityType
<1>10. NewId \in Nat
  <2> HIDE DEF used
  <2> QED
    BY <1>8, <1>9
<1> QED
  BY <1>8, <1>10

-----------------------------------------------------------------------------
\* What resolve() decides.

LEMMA FirstOwnerIs ==
    ASSUME NEW n, Owners(n) # {}
    PROVE  /\ FirstOwner(n) \in Owners(n)
           /\ \A j \in Owners(n) : FirstOwner(n) <= j
<1>1. Owners(n) \in SUBSET Nat
  BY RegistryAssumption DEF Owners
<1>2. \E k \in Owners(n) : \A j \in Owners(n) : k <= j
  BY <1>1, LeastOfNat
<1> QED
  BY <1>2 DEF FirstOwner

\* An owner of a container that is not another's is its first owner; who has no
\* part in such a container would be the first to have it.
LEMMA NotForeign ==
    ASSUME NEW n, NEW i \in Instances, ~Foreign(n, i)
    PROVE  /\ entries[i] = n => \A j \in Instances : entries[j] = n => i <= j
           /\ entries[i] # n => \A j \in Instances : entries[j] # n
<1>1. CASE Owners(n) = {}
  BY <1>1 DEF Owners
<1>2. CASE Owners(n) # {}
  <2>1. FirstOwner(n) = i
    BY <1>2 DEF Foreign
  <2> QED
    BY <1>2, <2>1, FirstOwnerIs DEF Owners
<1> QED
  BY <1>1, <1>2

\* A name nobody else has is not foreign.
LEMMA Sole ==
    ASSUME NEW n, NEW i \in Instances, \A j \in Instances : entries[j] = n => j = i
    PROVE  ~Foreign(n, i)
<1>1. CASE Owners(n) = {}
  BY <1>1 DEF Foreign
<1>2. CASE Owners(n) # {}
  BY <1>2, FirstOwnerIs DEF Foreign, Owners
<1> QED
  BY <1>1, <1>2

\* The cases of ResolvedName.
LEMMA NameCases ==
    ASSUME NEW i, NEW image, NEW n, NEW name, name = ResolvedName(i, image, n)
    PROVE  \/ Kept(i, image) /\ name = entries[i]
           \/ ~Kept(i, image) /\ name \in Candidates(i, image)
           \/ /\ ~Kept(i, image) /\ Candidates(i, image) = {}
              /\ ~Foreign(n, i) /\ name = n
           \/ /\ ~Kept(i, image) /\ Candidates(i, image) = {}
              /\ Foreign(n, i) /\ name = ScopedName(n, i)
<1> DEFINE K == Kept(i, image)  C == Candidates(i, image)
           c == CHOOSE x \in C : TRUE
           s == IF Foreign(n, i) THEN ScopedName(n, i) ELSE n
<1>1. name = CASE K -> entries[i] [] ~K /\ C # {} -> c [] ~K /\ C = {} -> s
  BY DEF ResolvedName
<1>2. C # {} => c \in C
  OBVIOUS
<1>3. CASE K
  <2> HIDE DEF K, C, c, s
  <2>1. name = entries[i]
    BY <1>1, <1>3
  <2> QED
    BY <1>3, <2>1 DEF K
<1>4. CASE ~K /\ C # {}
  <2> HIDE DEF K, C, c, s
  <2>1. name = c
    BY <1>1, <1>4
  <2>2. name \in C
    BY <1>2, <1>4, <2>1
  <2> QED
    BY <1>4, <2>2 DEF K, C
<1>5. CASE ~K /\ C = {}
  <2>1. name = s
    <3> HIDE DEF K, C, c, s
    <3> QED
      BY <1>1, <1>5
  <2> QED
    BY <1>5, <2>1
<1> QED
  BY <1>3, <1>4, <1>5

\* What the registry may be asked for, as in Asked.
Askable(i, image, n) ==
    /\ n \in Names /\ image = n.image
    /\ image.group = GroupOf[i] /\ image.version <= harness.version
    /\ entries[i] # None => entries[i].image.version <= image.version
    /\ n.scope # << >> => n = entries[i]

LEMMA AskedIsAskable ==
    ASSUME NEW h, Asked(h)
    PROVE  Askable(helper[h].inst, helper[h].image, helper[h].name)
BY DEF Asked, Askable

\* A name with a scope has one owner at most.
LEMMA ScopedIsSole ==
    ASSUME Types, Scoped, NEW n \in Names, n.scope # << >>,
           NEW i \in Instances, entries[i] = n
    PROVE  ~Foreign(n, i)
<1>1. n \in Known
  BY RegistryAssumption DEF Known
<1>2. \A j \in Instances : entries[j] = n => j = i
  BY <1>1 DEF Scoped
<1> QED
  BY <1>2, Sole

\* The name made for an instance when another owns the preferred one is a new one.
LEMMA MadeIsNew ==
    ASSUME Types, Scoped, NEW i \in Instances, NEW image, NEW n, Askable(i, image, n),
           ~Kept(i, image), Foreign(n, i)
    PROVE  /\ ScopedName(n, i) \in Names
           /\ ScopedName(n, i).image = image
           /\ Last(ScopedName(n, i)) = i
           /\ ScopedName(n, i) \notin Known
<1> DEFINE m == ScopedName(n, i)
<1>1. n \in Names /\ n.image = image
  BY DEF Askable
<1>2. n.scope = << >>
  BY ScopedIsSole DEF Askable
<1>3. m = [image |-> image, address |-> n.address, scope |-> << i >>]
  BY <1>1, <1>2 DEF ScopedName, Names
<1>4. m \in Names
  BY <1>1, <1>3 DEF Names
<1>5. Last(m) = i
  BY <1>3 DEF Last
<1>6. m.scope # << >>
  BY <1>3
<1>7. ASSUME m \in Known
      PROVE  FALSE
  <2> HIDE DEF m
  <2>1. /\ entries[i] # None
        /\ entries[i] # m => m.image.version < entries[i].image.version
    BY <1>5, <1>6, <1>7 DEF Scoped
  <2>2. m.image.version = image.version /\ entries[i].image.version <= image.version
    BY <1>3, <2>1 DEF Askable
  <2>3. image.version \in Nat /\ entries[i].image.version \in Nat
    BY <1>1, <2>1 DEF Types, Names, Images
  <2>4. entries[i] = m
    BY <2>1, <2>2, <2>3
  <2>5. ~Foreign(m, i)
    BY <1>4, <1>6, <2>4, ScopedIsSole
  <2>6. entries[i].image = image
    BY <1>3, <2>4
  <2>7. Kept(i, image)
    BY <2>1, <2>4, <2>5, <2>6 DEF Kept
  <2> QED
    BY <2>7
<1>8. m.image = image
  BY <1>3
<1> QED
  BY <1>4, <1>5, <1>7, <1>8

\* The name resolve() settles on is of the image, nobody else's, and that of a
\* container that can be used, unless it is the instance's own already.
Settled(i, image, name) ==
    /\ name \in Names /\ name.image = image
    /\ ~Foreign(name, i)
    /\ Kept(i, image) => name = entries[i]
    /\ name \in Existing /\ ~Kept(i, image) => Reusable(name)
    /\ name.scope # << >> => Last(name) = i \/ name \in Known

LEMMA ResolvedIsSettled ==
    ASSUME Types, Scoped, NEW i \in Instances, NEW image, NEW n, Askable(i, image, n),
           Resolvable(i, image),
           NEW name, name = ResolvedName(i, image, n)
    PROVE  Settled(i, image, name)
<1>1. n \in Names /\ n.image = image
  BY DEF Askable
<1>2. CASE Kept(i, image) /\ name = entries[i]
  <2>1. name # None /\ name.image = image /\ ~Foreign(name, i)
    BY <1>2 DEF Kept
  <2>2. name \in Names /\ name \in Known
    BY <1>2, <2>1 DEF Types, Known
  <2> QED
    BY <1>2, <2>1, <2>2 DEF Settled
<1>3. CASE ~Kept(i, image) /\ name \in Candidates(i, image)
  <2>1. name \in Existing /\ name.image = image /\ ~Foreign(name, i) /\ Reusable(name)
    BY <1>3 DEF Candidates, Unclaimed
  <2>2. name \in Names /\ name \in Known
    BY <2>1 DEF Types, Known
  <2> QED
    BY <1>3, <2>1, <2>2 DEF Settled
<1>4. CASE ~Kept(i, image) /\ Candidates(i, image) = {} /\ ~Foreign(n, i) /\ name = n
  <2>1. n.scope = << >>
    <3> SUFFICES ASSUME n.scope # << >>
                 PROVE  FALSE
      OBVIOUS
    <3>1. n = entries[i] /\ n # None
      BY <1>1, RegistryAssumption DEF Askable
    <3>2. Kept(i, image)
      BY <1>1, <1>4, <3>1 DEF Kept
    <3> QED
      BY <1>4, <3>2
  <2>2. n \in Existing => Reusable(n)
    <3> SUFFICES ASSUME n \in Existing, ~Reusable(n)
                 PROVE  FALSE
      OBVIOUS
    <3>1. n \in Incompatible(i, image)
      BY <1>1, <1>4 DEF Incompatible, Unclaimed
    <3> QED
      BY <1>4, <3>1 DEF Resolvable
  <2> QED
    BY <1>1, <1>4, <2>1, <2>2 DEF Settled
<1>5. CASE ~Kept(i, image) /\ Candidates(i, image) = {} /\ Foreign(n, i) /\ name = ScopedName(n, i)
  <2>1. name \in Names /\ name.image = image /\ Last(name) = i /\ name \notin Known
    BY <1>5, MadeIsNew
  <2>2. name \notin Existing /\ \A j \in Instances : entries[j] # name
    BY <2>1, RegistryAssumption DEF Known
  <2>3. ~Foreign(name, i)
    BY <2>2, Sole
  <2> QED
    BY <1>5, <2>1, <2>2, <2>3 DEF Settled
<1> QED
  BY <1>2, <1>3, <1>4, <1>5, NameCases

\* Registering the name gives nobody else's away, ...
LEMMA ReservedIsOwn ==
    ASSUME Types, NEW i \in Instances, NEW image, NEW name, Settled(i, image, name),
           entries' = [entries EXCEPT ![i] = name]
    PROVE  /\ entries'[i] = name
           /\ \A j \in Instances \ {i} : entries'[j] = entries[j]
           /\ name # entries[i] => \A j \in Instances : entries[j] # name
           /\ Leads(entries', i)
           /\ \A j \in Instances : Leads(entries, j) /\ j # i => Leads(entries', j)
<1>1. /\ entries'[i] = name
      /\ \A j \in Instances \ {i} : entries'[j] = entries[j]
  BY DEF Types
<1>2. name \in Names /\ ~Foreign(name, i)
  BY DEF Settled
<1>3. name # None
  BY <1>2, RegistryAssumption
<1>4. name # entries[i] => \A j \in Instances : entries[j] # name
  BY <1>2, NotForeign
<1>5. name = entries[i] => \A j \in Instances : entries[j] = name => i <= j
  BY <1>2, NotForeign
<1>6. i <= i
  BY RegistryAssumption
<1>7. Leads(entries', i)
  <2>1. ASSUME NEW j \in Instances, entries'[j] = name
        PROVE  i <= j
    BY <1>1, <1>4, <1>5, <1>6, <2>1
  <2> QED
    BY <1>1, <1>3, <2>1 DEF Leads
<1>8. ASSUME NEW j \in Instances, Leads(entries, j), j # i
      PROVE  Leads(entries', j)
  <2>1. entries'[j] = entries[j] /\ entries[j] # None
    BY <1>1, <1>8 DEF Leads
  <2>2. ASSUME NEW k \in Instances, entries'[k] = entries[j]
        PROVE  entries[k] = entries[j]
    BY <1>1, <1>4, <2>2
  <2> QED
    BY <1>8, <2>1, <2>2 DEF Leads
<1> QED
  BY <1>1, <1>4, <1>7, <1>8

\* ... and leaves names that were made for instances where they may be.
LEMMA LastIsInstance ==
    ASSUME NEW n \in Names, n.scope # << >>
    PROVE  Last(n) \in Instances
<1> DEFINE s == n.scope
<1>1. s \in Seq(Instances) /\ s # << >>
  BY DEF Names
<1> HIDE DEF s
<1>2. Len(s) \in 1 .. Len(s)
  BY <1>1
<1>3. s[Len(s)] \in Instances
  BY <1>1, <1>2
<1> QED
  BY <1>3 DEF Last, s

LEMMA ReservedIsScoped ==
    ASSUME Types, OfItsImage, Scoped, NEW i \in Instances, NEW image, NEW n,
           Askable(i, image, n), NEW name, Settled(i, image, name),
           entries' = [entries EXCEPT ![i] = name], Existing' \subseteq Existing,
           NEW m \in Known', m.scope # << >>
    PROVE  /\ entries'[Last(m)] # None
           /\ entries'[Last(m)] # m => m.image.version < entries'[Last(m)].image.version
           /\ \A k, j \in Instances : entries'[k] = m /\ entries'[j] = m => k = j
<1> DEFINE k == Last(m)
<1>1. /\ entries'[i] = name
      /\ \A j \in Instances \ {i} : entries'[j] = entries[j]
      /\ name # entries[i] => \A j \in Instances : entries[j] # name
  BY ReservedIsOwn
<1>2. name \in Names /\ name.image = image /\ name # None
  BY RegistryAssumption DEF Settled
<1>3. m \in Names
  BY <1>1, <1>2 DEF Known, Types
<1>4. k \in Instances
  BY <1>3, LastIsInstance
<1>5. CASE m = name
  <2>1. name = entries[i] => m \in Known
    BY <1>2, <1>5 DEF Known
  <2>2. ASSUME NEW h \in Instances, NEW j \in Instances, entries'[h] = m, entries'[j] = m
        PROVE  h = j
    <3>1. CASE name = entries[i]
      <4>1. entries[h] = m /\ entries[j] = m
        BY <1>1, <1>5, <2>2, <3>1
      <4> QED
        BY <2>1, <3>1, <4>1 DEF Scoped
    <3>2. CASE name # entries[i]
      BY <1>1, <1>5, <2>2, <3>2
    <3> QED
      BY <3>1, <3>2
  <2>3. CASE k = i
    BY <1>1, <1>2, <1>5, <2>2, <2>3
  <2>4. CASE k # i
    <3>1. m \in Known
      BY <1>5, <2>4 DEF Settled
    <3>2. /\ entries[k] # None
          /\ entries[k] # m => m.image.version < entries[k].image.version
          /\ \A h, j \in Instances : entries[h] = m /\ entries[j] = m => h = j
      BY <3>1 DEF Scoped
    <3>3. entries[k] # m
      BY <1>1, <1>4, <1>5, <2>4, <3>2
    <3>4. entries'[k] = entries[k]
      BY <1>1, <1>4, <2>4
    <3> QED
      BY <2>2, <3>2, <3>3, <3>4
  <2> QED
    BY <2>3, <2>4
<1>6. CASE m # name
  <2>1. m \in Known
    <3>1. CASE m \in Existing'
      BY <3>1 DEF Known
    <3>2. CASE m \notin Existing'
      <4>1. PICK j \in Instances : entries'[j] = m
        BY <3>2 DEF Known
      <4>2. entries[j] = m
        BY <1>1, <1>6, <4>1
      <4> QED
        BY <1>3, <4>2, RegistryAssumption DEF Known
    <3> QED
      BY <3>1, <3>2
  <2>2. /\ entries[k] # None
        /\ entries[k] # m => m.image.version < entries[k].image.version
        /\ \A h, j \in Instances : entries[h] = m /\ entries[j] = m => h = j
    BY <2>1 DEF Scoped
  <2>3. ASSUME NEW h \in Instances, NEW j \in Instances, entries'[h] = m, entries'[j] = m
        PROVE  h = j
    BY <1>1, <1>6, <2>2, <2>3
  <2>4. CASE k # i
    <3>1. entries'[k] = entries[k]
      BY <1>1, <1>4, <2>4
    <3> QED
      BY <2>2, <2>3, <3>1
  <2>5. CASE k = i
    <3>1. /\ entries[i].image.version <= image.version /\ entries[i] \in Names
          /\ entries[i].image.group = image.group
      BY <2>2, <2>5 DEF Askable, OfItsImage, Types
    <3>2. /\ image.version \in Nat /\ entries[i].image.version \in Nat
          /\ m.image.version \in Nat
      BY <1>2, <1>3, <3>1 DEF Names, Images
    <3>3. m.image.version < image.version
      <4>1. CASE entries[i] # m
        BY <2>2, <2>5, <3>1, <3>2, <4>1
      <4>2. CASE entries[i] = m
        <5>1. ~Foreign(m, i)
          BY <1>3, <4>2, ScopedIsSole
        <5>2. m.image # image
          BY <1>6, <2>2, <2>5, <4>2, <5>1 DEF Kept, Settled
        <5>3. m.image \in Images /\ image \in Images
          BY <1>2, <1>3 DEF Names
        <5>4. m.image.version # image.version
          BY <3>1, <4>2, <5>2, <5>3 DEF Images
        <5> QED
          BY <3>1, <3>2, <4>2, <5>4
      <4> QED
        BY <4>1, <4>2
    <3>4. m.image.version < name.image.version
      BY <1>2, <3>3
    <3> QED
      BY <1>1, <1>2, <2>3, <2>5, <3>4
  <2> QED
    BY <2>4, <2>5
<1> QED
  BY <1>5, <1>6

-----------------------------------------------------------------------------
\* What a step leaves alone when it leaves the registry alone.

LEMMA OfItsImageStays ==
    ASSUME Types, OfItsImage, entries' = entries,
           harness'.version \in Nat, harness.version <= harness'.version
    PROVE  OfItsImage'
<1> SUFFICES ASSUME NEW i \in Instances, entries'[i] # None
             PROVE  /\ entries'[i].image.group = GroupOf[i]
                    /\ entries'[i].image.version <= harness'.version
  BY DEF OfItsImage
<1>1. entries[i] \in Names
  BY DEF Types
<1>2. entries[i].image.version \in Nat /\ harness.version \in Nat
  BY <1>1 DEF Names, Images, Types
<1>3. entries[i].image.group = GroupOf[i] /\ entries[i].image.version <= harness.version
  BY DEF OfItsImage
<1> QED
  BY <1>2, <1>3

LEMMA AskedStays ==
    ASSUME Types, NEW h \in Helpers, Asked(h), helper'[h] = helper[h],
           entries'[helper[h].inst] = entries[helper[h].inst],
           harness'.version \in Nat, harness.version <= harness'.version
    PROVE  Asked(h)'
<1>1. helper[h].name \in Names /\ helper[h].name.image.version <= harness.version
  BY DEF Asked
<1>2. helper[h].name.image.version \in Nat /\ harness.version \in Nat
  BY <1>1 DEF Names, Images, Types
<1>3. helper[h].name.image.version <= harness'.version
  BY <1>1, <1>2
<1> QED
  BY <1>1, <1>3 DEF Asked

LEMMA AskingStays ==
    ASSUME Types, Asking, entries' = entries,
           harness'.version \in Nat, harness.version <= harness'.version,
           \A h \in Helpers : helper'[h].pc = "resolving" => helper'[h] = helper[h]
    PROVE  Asking'
<1> SUFFICES ASSUME NEW h \in Helpers, helper'[h].pc = "resolving"
             PROVE  Asked(h)'
  BY DEF Asking
<1>1. helper'[h] = helper[h] /\ Asked(h)
  BY DEF Asking
<1> QED
  BY <1>1, AskedStays

LEMMA ScopedStays ==
    ASSUME Scoped, entries' = entries, Existing' \subseteq Known
    PROVE  Scoped'
<1>1. Known' \subseteq Known
  BY DEF Known
<1> QED
  BY <1>1 DEF Scoped

\* Containers that were there before keep their identity, and new ones have one no
\* worker has seen.
SameIds ==
    \A n \in Existing' :
        \/ n \in Existing /\ docker'[n].id = docker[n].id
        \/ \A w \in Workers : docker'[n].id \notin worker[w].before

LEMMA ListsOwnStays ==
    ASSUME NEW w \in Workers, ListsOwn(w), SameIds,
           worker'[w].inst = worker[w].inst, worker'[w].before = worker[w].before,
           lifecycle'[w][worker[w].inst] = lifecycle[w][worker[w].inst],
           entries'[worker[w].inst] = entries[worker[w].inst],
           Leads(entries, worker[w].inst) => Leads(entries', worker[w].inst)
    PROVE  ListsOwn(w)'
<1> SUFFICES ASSUME NEW n \in lifecycle'[w][worker'[w].inst]
             PROVE  /\ n = entries'[worker'[w].inst] /\ Leads(entries', worker'[w].inst)
                    /\ n \in Existing' => docker'[n].id \notin worker'[w].before
  BY DEF ListsOwn
<1>1. /\ n = entries[worker[w].inst] /\ Leads(entries, worker[w].inst)
      /\ n \in Existing => docker[n].id \notin worker[w].before
  BY DEF ListsOwn
<1>2. n \in Existing' => docker'[n].id \notin worker[w].before
  BY <1>1 DEF SameIds
<1> QED
  BY <1>1, <1>2

LEMMA ListedStays ==
    ASSUME Listed, entries' = entries, lifecycle' = lifecycle, SameIds,
           \A w \in Workers : ~EarlyFailure /\ Current(w)' =>
               /\ Current(w)
               /\ worker'[w].inst = worker[w].inst /\ worker'[w].before = worker[w].before
    PROVE  Listed'
<1> SUFFICES ASSUME ~EarlyFailure, NEW w \in Workers, Current(w)'
             PROVE  ListsOwn(w)'
  BY DEF Listed
<1>1. ListsOwn(w)
  BY DEF Listed
<1> QED
  BY <1>1, ListsOwnStays

\* Helpers keep the job they have.
SameJobs ==
    \A h \in Helpers :
        /\ helper'[h].inst = helper[h].inst
        /\ helper'[h].dir = helper[h].dir /\ helper'[h].parent = helper[h].parent
        /\ helper'[h].pc = "free" <=> helper[h].pc = "free"

LEMMA LocksStay ==
    ASSUME Locks, worker' = worker, SameJobs
    PROVE  Locks'
<1>1. \A w \in Workers : worker'[w].pc # "idle" => worker'[w].inst \in Instances
  BY DEF Locks
<1>2. \A v, w \in Workers :
         (v # w /\ worker'[v].pc # "idle" /\ worker'[w].pc # "idle")
             => worker'[v].inst # worker'[w].inst
  BY DEF Locks
<1>3. ASSUME NEW w \in Workers, worker'[w].pc = "starting"
      PROVE  /\ worker'[w].by \in Helpers
             /\ helper'[worker'[w].by].pc # "free" /\ helper'[worker'[w].by].dir = w
  BY <1>3 DEF Locks, SameJobs
<1>4. ASSUME NEW h \in Helpers, helper'[h].pc # "free"
      PROVE  /\ helper'[h].dir \in Workers /\ helper'[h].parent = helper'[h].dir
             /\ worker'[helper'[h].dir].pc = "starting" /\ worker'[helper'[h].dir].by = h
             /\ worker'[helper'[h].dir].inst = helper'[h].inst
  BY <1>4 DEF Locks, SameJobs
<1> QED
  BY <1>1, <1>2, <1>3, <1>4 DEF Locks

\* A step of a helper that has a job.
HelperOnly(h) ==
    /\ helper' \in [Helpers -> HelperRecords]
    /\ \A g \in Helpers \ {h} : helper'[g] = helper[g]
    /\ helper[h].pc # "free" /\ helper'[h].pc # "free"
    /\ helper'[h].inst = helper[h].inst
    /\ helper'[h].dir = helper[h].dir /\ helper'[h].parent = helper[h].parent
    /\ UNCHANGED <<harness, worker>>

LEMMA HelperOnlyKeepsLocks ==
    ASSUME Locks, NEW h \in Helpers, HelperOnly(h)
    PROVE  Locks'
<1>1. SameJobs
  BY DEF HelperOnly, SameJobs
<1> QED
  BY <1>1, LocksStay DEF HelperOnly

\* The instance a helper works for, and its worker.
LEMMA JobOf ==
    ASSUME Locks, NEW h \in Helpers, helper[h].pc # "free"
    PROVE  /\ helper[h].dir \in Workers /\ helper[h].inst \in Instances
           /\ helper[h].parent = helper[h].dir
           /\ worker[helper[h].dir].pc = "starting" /\ worker[helper[h].dir].by = h
           /\ worker[helper[h].dir].inst = helper[h].inst
BY DEF Locks

\* A helper past resolve(), which has a name of its instance's own.
WorkPoints == {"waking", "creating", "checking", "confirming", "failing", "done"}

LEMMA WorkingStays ==
    ASSUME Working, entries' = entries, worker' = worker,
           \A h \in Helpers : helper'[h].pc \in WorkPoints =>
               /\ helper[h].pc \in WorkPoints
               /\ helper'[h].name = helper[h].name /\ helper'[h].inst = helper[h].inst
    PROVE  Working'
<1>1. ASSUME NEW h \in Helpers, helper'[h].pc \in WorkPoints
      PROVE  helper'[h].name = entries'[helper'[h].inst] /\ Leads(entries', helper'[h].inst)
  <2>1. /\ helper[h].pc \in WorkPoints
        /\ helper'[h].name = helper[h].name /\ helper'[h].inst = helper[h].inst
    BY <1>1
  <2>2. helper[h].name = entries[helper[h].inst] /\ Leads(entries, helper[h].inst)
    BY <2>1 DEF Working, WorkPoints
  <2> QED
    BY <2>1, <2>2
<1>2. ASSUME NEW w \in Workers, worker'[w].pc = "using"
      PROVE  worker'[w].name = entries'[worker'[w].inst] /\ Leads(entries', worker'[w].inst)
  <2>1. worker[w].name = entries[worker[w].inst] /\ Leads(entries, worker[w].inst)
    BY <1>2 DEF Working
  <2> QED
    BY <2>1
<1> QED
  BY <1>1, <1>2 DEF Working, WorkPoints

\* Steps of a helper after resolve(), and failures before it.
LEMMA HelperKeeps ==
    ASSUME Inv, NEW h \in Helpers, HelperOnly(h),
           entries' = entries, lifecycle' = lifecycle,
           IsFiniteSet(Existing'), docker' \in [Existing' -> [state : ContainerStates, id : Nat]],
           Existing' \subseteq Known, SameIds,
           helper'[h].pc # "resolving",
           helper'[h].pc \in WorkPoints =>
               helper[h].pc \in WorkPoints /\ helper'[h].name = helper[h].name,
           helper[h].pc = "launched" => EarlyFailure
    PROVE  Inv'
<1>0. Types /\ Locks /\ OfItsImage /\ Asking /\ Scoped /\ Working /\ Listed
  BY DEF Inv
<1>1. Types'
  <2>1. Known \subseteq Names
    BY <1>0 DEF Types, Known
  <2>2. Existing' \subseteq Names
    BY <2>1
  <2> QED
    BY <1>0, <2>2 DEF Types, HelperOnly
<1>2. Locks'
  BY <1>0, HelperOnlyKeepsLocks
<1>3. harness'.version \in Nat /\ harness.version <= harness'.version
  BY <1>0 DEF Types, HelperOnly
<1>4. OfItsImage'
  BY <1>0, <1>3, OfItsImageStays
<1>5. Asking'
  <2>1. \A g \in Helpers : helper'[g].pc = "resolving" => helper'[g] = helper[g]
    BY DEF HelperOnly
  <2> QED
    BY <1>0, <1>3, <2>1, AskingStays
<1>6. Scoped'
  BY <1>0, ScopedStays
<1>7. Working'
  <2>1. \A g \in Helpers : helper'[g].pc \in WorkPoints =>
            /\ helper[g].pc \in WorkPoints
            /\ helper'[g].name = helper[g].name /\ helper'[g].inst = helper[g].inst
    BY DEF HelperOnly
  <2> QED
    BY <1>0, <2>1, WorkingStays DEF HelperOnly
<1>8. Listed'
  <2>1. ASSUME NEW w \in Workers, ~EarlyFailure, Current(w)'
        PROVE  Current(w)
    <3>1. CASE worker[w].pc = "cleaning"
      BY <3>1 DEF Current
    <3>2. CASE worker[w].pc = "starting"
      <4>1. worker[w].by \in Helpers
        BY <1>0, <3>2 DEF Locks
      <4>2. helper[worker[w].by].pc # "launched"
        BY <2>1, <3>2, <4>1 DEF Current, HelperOnly
      <4> QED
        BY <3>2, <4>2 DEF Current
    <3> QED
      BY <2>1, <3>1, <3>2 DEF Current, HelperOnly
  <2>2. \A w \in Workers : ~EarlyFailure /\ Current(w)' =>
            /\ Current(w)
            /\ worker'[w].inst = worker[w].inst /\ worker'[w].before = worker[w].before
    BY <2>1 DEF HelperOnly
  <2> QED
    BY <1>0, <2>2, ListedStays
<1> QED
  BY <1>1, <1>2, <1>4, <1>5, <1>6, <1>7, <1>8 DEF Inv

LEMMA StepIs ==
    ASSUME Types, NEW h \in Helpers, NEW p \in HelperPoints, Step(h, p)
    PROVE  /\ helper' \in [Helpers -> HelperRecords]
           /\ \A g \in Helpers \ {h} : helper'[g] = helper[g]
           /\ helper'[h].pc = p
           /\ helper'[h].inst = helper[h].inst /\ helper'[h].dir = helper[h].dir
           /\ helper'[h].parent = helper[h].parent /\ helper'[h].name = helper[h].name
<1>1. helper \in [Helpers -> HelperRecords]
  BY DEF Types
<1>2. helper' = [helper EXCEPT ![h] = [helper[h] EXCEPT !.pc = p]]
  BY DEF Step
<1> DEFINE r == [helper[h] EXCEPT !.pc = p]
<1>3. helper[h] \in HelperRecords
  BY <1>1
<1>4. /\ r \in HelperRecords /\ r.pc = p /\ r.inst = helper[h].inst /\ r.dir = helper[h].dir
      /\ r.parent = helper[h].parent /\ r.name = helper[h].name
  BY <1>3 DEF HelperRecords
<1>5. helper' = [helper EXCEPT ![h] = r]
  BY <1>2
<1> HIDE DEF r
<1>6. helper' \in [Helpers -> HelperRecords] /\ helper'[h] = r
  BY <1>1, <1>4, <1>5
<1>7. \A g \in Helpers \ {h} : helper'[g] = helper[g]
  BY <1>1, <1>5
<1> QED
  BY <1>4, <1>6, <1>7

\* Steps of a helper after which Docker is as it was.
Moves(h, p) ==
    /\ Step(h, p)
    /\ UNCHANGED <<entries, docker, harness, lifecycle, worker>>

LEMMA MovesKeep ==
    ASSUME Inv, NEW h \in Helpers, helper[h].pc # "free",
           NEW p \in {"failed", "confirming", "done", "failing"}, Moves(h, p),
           p # "failed" => helper[h].pc \in WorkPoints,
           helper[h].pc = "launched" => EarlyFailure
    PROVE  Inv'
<1>1. Types
  BY DEF Inv
<1>2. /\ helper' \in [Helpers -> HelperRecords]
      /\ \A g \in Helpers \ {h} : helper'[g] = helper[g]
      /\ helper'[h].pc = p
      /\ helper'[h].inst = helper[h].inst /\ helper'[h].dir = helper[h].dir
      /\ helper'[h].parent = helper[h].parent /\ helper'[h].name = helper[h].name
  BY <1>1, StepIs DEF HelperPoints, Moves
<1>3. HelperOnly(h)
  BY <1>2 DEF HelperOnly, Moves
<1>4. /\ IsFiniteSet(Existing') /\ Existing' \subseteq Known
      /\ docker' \in [Existing' -> [state : ContainerStates, id : Nat]]
  BY <1>1 DEF Types, Moves, Existing, Known
<1>5. SameIds
  BY DEF SameIds, Moves, Existing
<1>6. entries' = entries /\ lifecycle' = lifecycle
  BY DEF Moves
<1>7. helper'[h].pc # "resolving"
  BY <1>2
<1>8. helper'[h].pc \in WorkPoints =>
          helper[h].pc \in WorkPoints /\ helper'[h].name = helper[h].name
  BY <1>2 DEF WorkPoints
<1> QED
  BY <1>3, <1>4, <1>5, <1>6, <1>7, <1>8, HelperKeeps

LEMMA ConcludeIs ==
    ASSUME Inv, NEW h \in Helpers, Conclude(h)
    PROVE  Moves(h, "done")
<1>1. helper[h].pc = "confirming"
  BY DEF Conclude
<1>2. helper[h].name = entries[helper[h].inst] /\ entries \in [Instances -> Names \cup {None}]
  BY <1>1 DEF Inv, Working, Types
<1>3. entries' = [entries EXCEPT ![helper[h].inst] = helper[h].name]
  BY DEF Conclude, Confirm
<1>4. entries' = entries
  BY <1>2, <1>3
<1> QED
  BY <1>4 DEF Conclude, Confirm, Moves

LEMMA FailEarlyKeeps ==
    ASSUME Inv, NEW h \in Helpers, FailEarly(h)
    PROVE  Inv'
<1>1. helper[h].pc = "launched" /\ EarlyFailure /\ Moves(h, "failed")
  BY DEF FailEarly, Moves
<1> QED
  BY <1>1, MovesKeep

LEMMA ResolveFailsKeeps ==
    ASSUME Inv, NEW h \in Helpers, ResolveFails(h)
    PROVE  Inv'
<1>1. helper[h].pc = "resolving" /\ Moves(h, "failed")
  BY DEF ResolveFails, Moves
<1> QED
  BY <1>1, MovesKeep

LEMMA CheckedKeeps ==
    ASSUME Inv, NEW h \in Helpers, Checked(h)
    PROVE  Inv'
<1>1. helper[h].pc = "checking" /\ Moves(h, "confirming")
  BY DEF Checked, Moves
<1> QED
  BY <1>1, MovesKeep DEF WorkPoints

LEMMA ConcludeKeeps ==
    ASSUME Inv, NEW h \in Helpers, Conclude(h)
    PROVE  Inv'
<1>1. helper[h].pc = "confirming" /\ Moves(h, "done")
  BY ConcludeIs DEF Conclude
<1> QED
  BY <1>1, MovesKeep DEF WorkPoints

LEMMA ConfirmFailsKeeps ==
    ASSUME Inv, NEW h \in Helpers, ConfirmFails(h)
    PROVE  Inv'
<1>1. helper[h].pc = "confirming" /\ Moves(h, "failing")
  BY DEF ConfirmFails, Moves
<1> QED
  BY <1>1, MovesKeep DEF WorkPoints

LEMMA CheckFailsKeeps ==
    ASSUME Inv, NEW h \in Helpers, CheckFails(h)
    PROVE  Inv'
<1>1. helper[h].pc \in {"waking", "checking"} /\ Moves(h, "failing")
  BY DEF CheckFails, Moves
<1> QED
  BY <1>1, MovesKeep DEF WorkPoints

\* What Docker has after a removal.
DockerTyped ==
    /\ IsFiniteSet(Existing') /\ Existing' \subseteq Known
    /\ docker' \in [Existing' -> [state : ContainerStates, id : Nat]]
    /\ SameIds

LEMMA RemovalIs ==
    ASSUME Types, NEW names, docker' = Without(names)
    PROVE  /\ DockerTyped
           /\ Existing' = Existing \ names
           /\ \A n \in Existing' : docker'[n] = docker[n]
<1>1. Existing' = Existing \ names
  BY DEF Existing, Without
<1>2. \A n \in Existing' : n \in Existing /\ docker'[n] = docker[n]
  BY <1>1 DEF Without
<1>3. IsFiniteSet(Existing')
  <2>1. IsFiniteSet(Existing) /\ Existing' \in SUBSET Existing
    BY <1>1 DEF Types
  <2> QED
    BY <2>1, FS_Subset
<1>4. docker' \in [Existing' -> [state : ContainerStates, id : Nat]]
  <2>1. docker' = [n \in Existing' |-> docker'[n]]
    BY <1>1 DEF Without
  <2>2. \A n \in Existing : docker[n] \in [state : ContainerStates, id : Nat]
    BY DEF Types
  <2> QED
    BY <1>2, <2>1, <2>2
<1>5. SameIds
  BY <1>2 DEF SameIds
<1>6. Existing' \subseteq Known
  BY <1>1 DEF Known
<1> QED
  BY <1>1, <1>2, <1>3, <1>4, <1>5, <1>6 DEF DockerTyped

\* And after a change of a container's state.
LEMMA StateChangeIs ==
    ASSUME Types, NEW n \in Existing, NEW st \in ContainerStates,
           docker' = [docker EXCEPT ![n].state = st]
    PROVE  /\ DockerTyped
           /\ Existing' = Existing
           /\ \A m \in Existing \ {n} : docker'[m] = docker[m]
           /\ docker'[n].id = docker[n].id
<1> DEFINE r == [docker[n] EXCEPT !.state = st]
           Containers == [state : ContainerStates, id : Nat]
<1>1. docker \in [Existing -> Containers] /\ docker[n] \in Containers
  BY DEF Types
<1>2. r \in Containers /\ r.id = docker[n].id
  BY <1>1
<1>3. docker' = [docker EXCEPT ![n] = r]
  OBVIOUS
<1> HIDE DEF r, Containers
<1>4. Existing' = Existing
  BY <1>3 DEF Existing
<1>5. docker' \in [Existing -> Containers] /\ docker'[n] = r
  BY <1>1, <1>2, <1>3
<1>6. \A m \in Existing \ {n} : docker'[m] = docker[m]
  BY <1>1, <1>3
<1>7. \A m \in Existing : docker'[m].id = docker[m].id
  BY <1>2, <1>5, <1>6
<1>8. SameIds
  BY <1>4, <1>7 DEF SameIds
<1>9. IsFiniteSet(Existing') /\ Existing' \subseteq Known
  BY <1>4 DEF Types, Known
<1>10. docker' \in [Existing' -> [state : ContainerStates, id : Nat]]
  BY <1>4, <1>5 DEF Containers
<1> QED
  BY <1>2, <1>4, <1>5, <1>6, <1>8, <1>9, <1>10 DEF DockerTyped

\* The name of a helper past resolve() is its instance's.
LEMMA WorkNameIs ==
    ASSUME Inv, NEW h \in Helpers, helper[h].pc \in WorkPoints
    PROVE  /\ helper[h].inst \in Instances /\ helper[h].name = entries[helper[h].inst]
           /\ helper[h].name \in Names /\ helper[h].name \in Known
           /\ Leads(entries, helper[h].inst)
<1>1. helper[h].inst \in Instances
  BY JobOf DEF Inv, WorkPoints
<1>2. helper[h].name = entries[helper[h].inst] /\ Leads(entries, helper[h].inst)
  BY DEF Inv, Working, WorkPoints
<1>3. entries[helper[h].inst] \in Names \cup {None} /\ entries[helper[h].inst] # None
  BY <1>1, <1>2 DEF Inv, Types, Leads
<1> QED
  BY <1>1, <1>2, <1>3 DEF Known

\* A helper's steps that change Docker.
LEMMA DockerStepKeeps ==
    ASSUME Inv, NEW h \in Helpers, HelperOnly(h), DockerTyped,
           entries' = entries, lifecycle' = lifecycle,
           helper[h].pc \in WorkPoints, helper'[h].name = helper[h].name,
           helper'[h].pc # "resolving"
    PROVE  Inv'
BY HelperKeeps DEF DockerTyped, WorkPoints

LEMMA WakeKeeps ==
    ASSUME Inv, NEW h \in Helpers, Wake(h)
    PROVE  Inv'
<1>1. helper[h].pc = "waking" /\ Step(h, Started) /\ Started \in {"confirming", "checking"}
  BY DEF Wake, Started
<1>2. Types
  BY DEF Inv
<1>3. /\ helper' \in [Helpers -> HelperRecords]
      /\ \A g \in Helpers \ {h} : helper'[g] = helper[g]
      /\ helper'[h].pc = Started
      /\ helper'[h].inst = helper[h].inst /\ helper'[h].dir = helper[h].dir
      /\ helper'[h].parent = helper[h].parent /\ helper'[h].name = helper[h].name
  BY <1>1, <1>2, StepIs DEF HelperPoints
<1>4. HelperOnly(h)
  BY <1>1, <1>3 DEF HelperOnly, Wake
<1>5. DockerTyped
  <2>1. helper[h].name \in Existing /\ docker' = [docker EXCEPT ![helper[h].name].state = "running"]
    BY DEF Wake, Alive
  <2> QED
    BY <1>2, <2>1, StateChangeIs DEF ContainerStates
<1>6. entries' = entries /\ lifecycle' = lifecycle
  BY DEF Wake
<1> QED
  BY <1>1, <1>3, <1>4, <1>5, <1>6, DockerStepKeeps DEF WorkPoints

LEMMA CleanKeeps ==
    ASSUME Inv, NEW h \in Helpers, Clean(h)
    PROVE  Inv'
<1>1. helper[h].pc = "failing" /\ Step(h, "failed")
  BY DEF Clean
<1>2. Types
  BY DEF Inv
<1>3. /\ helper' \in [Helpers -> HelperRecords]
      /\ \A g \in Helpers \ {h} : helper'[g] = helper[g]
      /\ helper'[h].pc = "failed"
      /\ helper'[h].inst = helper[h].inst /\ helper'[h].dir = helper[h].dir
      /\ helper'[h].parent = helper[h].parent /\ helper'[h].name = helper[h].name
  BY <1>1, <1>2, StepIs DEF HelperPoints
<1>4. HelperOnly(h)
  BY <1>1, <1>3 DEF HelperOnly, Clean
<1>5. DockerTyped
  BY <1>2, RemovalIs DEF Clean
<1>6. entries' = entries /\ lifecycle' = lifecycle
  BY DEF Clean
<1> QED
  BY <1>1, <1>3, <1>4, <1>5, <1>6, DockerStepKeeps DEF WorkPoints

LEMMA CreateFailsKeeps ==
    ASSUME Inv, NEW h \in Helpers, CreateFails(h)
    PROVE  Inv'
<1> DEFINE k == helper[h].tries + 1
           q == IF k < Retries THEN helper[h].pc ELSE "failed"
           r == [helper[h] EXCEPT !.tries = k, !.pc = q]
<1>1. helper[h].pc = "creating"
  BY DEF CreateFails
<1>2. Types /\ helper \in [Helpers -> HelperRecords] /\ helper[h] \in HelperRecords
  BY DEF Inv, Types
<1>3. helper' = [helper EXCEPT ![h] = r]
  BY <1>2 DEF CreateFails
<1>4. k \in Nat /\ q \in {"creating", "failed"}
  BY <1>1, <1>2 DEF HelperRecords
<1> HIDE DEF k, q
<1>5. /\ r \in HelperRecords /\ r.pc = q /\ r.inst = helper[h].inst
      /\ r.dir = helper[h].dir /\ r.parent = helper[h].parent /\ r.name = helper[h].name
  BY <1>2, <1>4 DEF HelperRecords, HelperPoints
<1> HIDE DEF r
<1>6. /\ helper' \in [Helpers -> HelperRecords] /\ helper'[h] = r
      /\ \A g \in Helpers \ {h} : helper'[g] = helper[g]
  BY <1>2, <1>3, <1>5
<1>7. HelperOnly(h)
  BY <1>1, <1>4, <1>5, <1>6 DEF HelperOnly, CreateFails
<1>8. DockerTyped
  BY <1>2, RemovalIs DEF CreateFails
<1>9. entries' = entries /\ lifecycle' = lifecycle
  BY DEF CreateFails
<1> QED
  BY <1>1, <1>4, <1>5, <1>6, <1>7, <1>8, <1>9, DockerStepKeeps DEF WorkPoints

\* A new container has an identity no worker has seen.
LEMMA AdditionIs ==
    ASSUME Types, NEW n \in Known, n \notin Existing,
           docker' = With(n, [state |-> "running", id |-> NewId])
    PROVE  /\ DockerTyped
           /\ Existing' = Existing \cup {n}
           /\ \A m \in Existing : docker'[m] = docker[m]
<1> DEFINE Containers == [state : ContainerStates, id : Nat]
           r == [state |-> "running", id |-> NewId]
<1>1. NewId \in Nat /\ \A w \in Workers : NewId \notin worker[w].before
  BY NewIdIsNew
<1>2. r \in Containers /\ r.id = NewId
  BY <1>1 DEF ContainerStates
<1>3. docker' = [m \in Existing \cup {n} |-> IF m = n THEN r ELSE docker[m]]
  BY DEF With
<1>4. docker \in [Existing -> Containers] /\ IsFiniteSet(Existing) /\ Existing \subseteq Known
  BY DEF Types, Known
<1> HIDE DEF r
<1>5. Existing' = Existing \cup {n}
  BY <1>3 DEF Existing
<1>6. docker'[n] = r /\ \A m \in Existing : docker'[m] = docker[m]
  BY <1>3
<1>7. docker' \in [Existing' -> Containers]
  <2>1. \A m \in Existing \cup {n} : (IF m = n THEN r ELSE docker[m]) \in Containers
    BY <1>2, <1>4
  <2> QED
    BY <1>3, <1>5, <2>1
<1>8. IsFiniteSet(Existing') /\ Existing' \subseteq Known
  BY <1>4, <1>5, FS_AddElement
<1>9. SameIds
  BY <1>1, <1>2, <1>5, <1>6 DEF SameIds
<1> QED
  BY <1>5, <1>6, <1>7, <1>8, <1>9 DEF DockerTyped

LEMMA CreateKeeps ==
    ASSUME Inv, NEW h \in Helpers, Create(h)
    PROVE  Inv'
<1> DEFINE r == [helper[h] EXCEPT !.pc = Started, !.id = NewId, !.own = TRUE]
<1>1. /\ helper[h].pc = "creating" /\ helper[h].name \notin Existing
      /\ Started \in {"confirming", "checking"}
  BY DEF Create, Started
<1>2. Types /\ helper \in [Helpers -> HelperRecords] /\ helper[h] \in HelperRecords
  BY DEF Inv, Types
<1>3. helper' = [helper EXCEPT ![h] = r]
  BY <1>2 DEF Create
<1>4. NewId \in Nat
  BY <1>2, NewIdIsNew
<1>5. /\ r \in HelperRecords /\ r.pc = Started /\ r.inst = helper[h].inst
      /\ r.dir = helper[h].dir /\ r.parent = helper[h].parent /\ r.name = helper[h].name
  BY <1>1, <1>2, <1>4 DEF HelperRecords, HelperPoints
<1> HIDE DEF r
<1>6. /\ helper' \in [Helpers -> HelperRecords] /\ helper'[h] = r
      /\ \A g \in Helpers \ {h} : helper'[g] = helper[g]
  BY <1>2, <1>3, <1>5
<1>7. HelperOnly(h)
  BY <1>1, <1>5, <1>6 DEF HelperOnly, Create
<1>8. DockerTyped
  <2>1. helper[h].name \in Known
    BY <1>1, WorkNameIs DEF WorkPoints
  <2> QED
    BY <1>1, <1>2, <2>1, AdditionIs DEF Create
<1>9. entries' = entries /\ lifecycle' = lifecycle
  BY DEF Create
<1> QED
  BY <1>1, <1>5, <1>6, <1>7, <1>8, <1>9, DockerStepKeeps DEF WorkPoints

\* Emptying or writing the lifecycle file of a helper's instance.
LifecycleOf(h, names) == lifecycle' = [lifecycle EXCEPT ![helper[h].dir][helper[h].inst] = names]

LEMMA LifecycleIs ==
    ASSUME Types, Locks, NEW h \in Helpers, helper[h].pc # "free",
           NEW names \in SUBSET Names, LifecycleOf(h, names)
    PROVE  /\ lifecycle' \in [Workers -> [Instances -> SUBSET Names]]
           /\ lifecycle'[helper[h].dir][helper[h].inst] = names
           /\ \A w \in Workers \ {helper[h].dir} : lifecycle'[w] = lifecycle[w]
<1> DEFINE w == helper[h].dir  i == helper[h].inst
           row == [lifecycle[w] EXCEPT ![i] = names]
           Rows == [Instances -> SUBSET Names]
<1>1. w \in Workers /\ i \in Instances
  BY JobOf
<1>2. lifecycle \in [Workers -> Rows] /\ lifecycle[w] \in Rows
  BY <1>1 DEF Types
<1>3. row \in Rows /\ row[i] = names
  BY <1>1, <1>2
<1>4. lifecycle' = [lifecycle EXCEPT ![w] = row]
  BY DEF LifecycleOf
<1> HIDE DEF row, Rows, w, i
<1>5. /\ lifecycle' \in [Workers -> Rows] /\ lifecycle'[w] = row
      /\ \A v \in Workers \ {w} : lifecycle'[v] = lifecycle[v]
  BY <1>1, <1>2, <1>3, <1>4
<1>6. lifecycle'[w][i] = names
  BY <1>3, <1>5
<1> QED
  BY <1>5, <1>6 DEF Rows, w, i

\* What is identified may be asked for.
LEMMA PreferredIsAskable ==
    ASSUME Types, OfItsImage, NEW i \in Instances, NEW address \in Addresses,
           NEW n, n = IF ~harness.rebuild /\ entries[i] # None THEN entries[i]
                      ELSE HarnessName(ImageOf(i, harness.version), address)
    PROVE  Askable(i, n.image, n) /\ n \in Names /\ n.image \in Images
<1>1. CASE ~harness.rebuild /\ entries[i] # None
  <2>1. n = entries[i] /\ n \in Names
    BY <1>1 DEF Types
  <2>2. n.image \in Images
    BY <2>1 DEF Names
  <2>3. n.image.version <= n.image.version
    BY <2>2, RegistryAssumption DEF Images
  <2>4. n.image.group = GroupOf[i] /\ n.image.version <= harness.version
    BY <1>1, <2>1 DEF OfItsImage
  <2> QED
    BY <2>1, <2>2, <2>3, <2>4 DEF Askable
<1>2. CASE ~(~harness.rebuild /\ entries[i] # None)
  <2> DEFINE image == ImageOf(i, harness.version)
  <2>1. harness.version \in 1 .. MaxHarness /\ GroupOf[i] \in Groups
    BY RegistryAssumption DEF Types
  <2>2. image \in Images /\ image.group = GroupOf[i] /\ image.version = harness.version
    BY <2>1 DEF ImageOf, Images
  <2> HIDE DEF image
  <2>3. n = [image |-> image, address |-> address, scope |-> << >>]
    BY <1>2 DEF HarnessName, image
  <2>4. n \in Names /\ n.image = image /\ n.scope = << >>
    <3> DEFINE s == << >>  S == Seq(Instances)
    <3>1. image \in Images /\ s \in S
      BY <2>2
    <3>2. n \in [image : Images, address : Addresses, scope : S]
      <4> HIDE DEF s, S
      <4> QED
        BY <2>3, <3>1 DEF s
    <3>3. n.image = image /\ n.scope = << >>
      BY <2>3
    <3> QED
      BY <3>2, <3>3 DEF Names
  <2>5. harness.version \in Nat /\ harness.version <= harness.version
    BY <2>1, RegistryAssumption
  <2>6. entries[i] # None => entries[i].image.version <= image.version
    BY <2>2 DEF OfItsImage
  <2> QED
    BY <2>2, <2>4, <2>5, <2>6 DEF Askable
<1> QED
  BY <1>1, <1>2

LEMMA IdentifyKeeps ==
    ASSUME Inv, NEW h \in Helpers, Identify(h)
    PROVE  Inv'
<1> DEFINE i == helper[h].inst
<1>0. Types /\ Locks /\ OfItsImage /\ Asking /\ Scoped /\ Working /\ Listed
  BY DEF Inv
<1>1. /\ helper[h].pc = "launched" /\ i \in Instances /\ helper[h].dir \in Workers
      /\ LifecycleOf(h, {})
      /\ UNCHANGED <<entries, docker, harness, worker>>
  BY <1>0, JobOf DEF Identify, LifecycleOf
<1> DEFINE Preferred(address) ==
               IF ~harness.rebuild /\ entries[i] # None THEN entries[i]
               ELSE HarnessName(ImageOf(i, harness.version), address)
<1>a. PICK address \in Addresses :
          helper' = [helper EXCEPT ![h].pc = "resolving",
                                   ![h].image = Preferred(address).image,
                                   ![h].name = Preferred(address)]
  BY DEF Identify
<1> DEFINE n == Preferred(address)
<1>2. helper' = [helper EXCEPT ![h].pc = "resolving", ![h].image = n.image, ![h].name = n]
  BY <1>a
<1>3. Askable(i, n.image, n) /\ n \in Names /\ n.image \in Images
  BY <1>0, <1>1, PreferredIsAskable
<1> HIDE DEF n
<1> DEFINE m == n.image
           r == [helper[h] EXCEPT !.pc = "resolving", !.image = m, !.name = n]
<1>4. helper \in [Helpers -> HelperRecords] /\ helper[h] \in HelperRecords
  BY <1>0 DEF Types
<1>5. helper' = [helper EXCEPT ![h] = r]
  BY <1>2, <1>4
<1>6. /\ r \in HelperRecords /\ r.pc = "resolving" /\ r.image = m /\ r.name = n
      /\ r.inst = helper[h].inst /\ r.dir = helper[h].dir /\ r.parent = helper[h].parent
  <2>1. m \in Images
    BY <1>3
  <2> HIDE DEF m
  <2> QED
    BY <1>3, <1>4, <2>1 DEF HelperRecords, HelperPoints
<1> HIDE DEF r
<1>7. /\ helper' \in [Helpers -> HelperRecords] /\ helper'[h] = r
      /\ \A g \in Helpers \ {h} : helper'[g] = helper[g]
  BY <1>4, <1>5, <1>6
<1>8. HelperOnly(h)
  BY <1>1, <1>6, <1>7 DEF HelperOnly
<1>9. /\ lifecycle' \in [Workers -> [Instances -> SUBSET Names]]
      /\ lifecycle'[helper[h].dir][i] = {}
      /\ \A w \in Workers \ {helper[h].dir} : lifecycle'[w] = lifecycle[w]
  BY <1>0, <1>1, LifecycleIs
<1>10. Existing' = Existing /\ SameIds
  BY <1>1 DEF Existing, SameIds
<1>11. Types'
  BY <1>0, <1>1, <1>7, <1>9, <1>10 DEF Types
<1>12. Locks'
  BY <1>0, <1>8, HelperOnlyKeepsLocks
<1>13. harness'.version \in Nat /\ harness.version <= harness'.version
  BY <1>0, <1>1 DEF Types
<1>14. OfItsImage'
  BY <1>0, <1>1, <1>13, OfItsImageStays
<1>15. Asking'
  <2>1. Asked(h)'
    BY <1>1, <1>3, <1>6, <1>7 DEF Asked, Askable
  <2>2. ASSUME NEW g \in Helpers, helper'[g].pc = "resolving", g # h
        PROVE  Asked(g)'
    <3>1. helper'[g] = helper[g]
      BY <1>7, <2>2
    <3>2. Asked(g)
      BY <1>0, <2>2, <3>1 DEF Asking
    <3> QED
      BY <1>0, <1>1, <1>13, <3>1, <3>2, AskedStays
  <2> QED
    BY <2>1, <2>2 DEF Asking
<1>16. Scoped'
  BY <1>0, <1>1, <1>10, ScopedStays DEF Known
<1>17. Working'
  <2>1. \A g \in Helpers : helper'[g].pc \in WorkPoints =>
            /\ helper[g].pc \in WorkPoints
            /\ helper'[g].name = helper[g].name /\ helper'[g].inst = helper[g].inst
    BY <1>6, <1>7 DEF WorkPoints
  <2> QED
    BY <1>0, <1>1, <2>1, WorkingStays
<1>18. Listed'
  <2> SUFFICES ASSUME ~EarlyFailure, NEW w \in Workers, Current(w)'
               PROVE  ListsOwn(w)'
    BY DEF Listed
  <2>1. CASE w = helper[h].dir
    <3>1. worker'[w].inst = i
      BY <1>0, <1>1, <2>1, JobOf
    <3> QED
      BY <1>9, <2>1, <3>1 DEF ListsOwn
  <2>2. CASE w # helper[h].dir
    <3>1. Current(w)
      <4>1. CASE worker[w].pc = "starting"
        <5>1. worker[w].by \in Helpers \ {h}
          BY <1>0, <2>2, <4>1 DEF Locks
        <5>2. helper'[worker[w].by] = helper[worker[w].by]
          BY <1>7, <5>1
        <5> QED
          BY <1>1, <5>2 DEF Current
      <4>2. CASE worker[w].pc # "starting"
        BY <1>1, <4>2 DEF Current
      <4> QED
        BY <4>1, <4>2
    <3>2. ListsOwn(w)
      BY <1>0, <3>1 DEF Listed
    <3>3. lifecycle'[w] = lifecycle[w]
      BY <1>9, <2>2
    <3> QED
      BY <1>1, <1>10, <3>2, <3>3, ListsOwnStays
  <2> QED
    BY <2>1, <2>2
<1> QED
  BY <1>11, <1>12, <1>14, <1>15, <1>16, <1>17, <1>18 DEF Inv

\* An instance has one helper, and no other worker.
LEMMA JobsDiffer ==
    ASSUME Locks, NEW h \in Helpers, helper[h].pc # "free"
    PROVE  /\ \A g \in Helpers : g # h /\ helper[g].pc # "free"
                  => helper[g].inst # helper[h].inst /\ helper[g].dir # helper[h].dir
           /\ \A w \in Workers : w # helper[h].dir /\ worker[w].pc # "idle"
                  => worker[w].inst # helper[h].inst
           /\ \A w \in Workers : w # helper[h].dir /\ worker[w].pc = "starting"
                  => worker[w].by \in Helpers /\ worker[w].by # h
<1>1. /\ helper[h].dir \in Workers /\ worker[helper[h].dir].pc = "starting"
      /\ worker[helper[h].dir].by = h /\ worker[helper[h].dir].inst = helper[h].inst
  BY JobOf
<1>2. ASSUME NEW w \in Workers, w # helper[h].dir, worker[w].pc # "idle"
      PROVE  worker[w].inst # helper[h].inst
  <2>1. worker[w].inst # worker[helper[h].dir].inst
    BY <1>1, <1>2 DEF Locks
  <2> QED
    BY <1>1, <2>1
<1>3. ASSUME NEW g \in Helpers, g # h, helper[g].pc # "free"
      PROVE  helper[g].inst # helper[h].inst /\ helper[g].dir # helper[h].dir
  <2>1. /\ helper[g].dir \in Workers /\ worker[helper[g].dir].pc = "starting"
        /\ worker[helper[g].dir].by = g /\ worker[helper[g].dir].inst = helper[g].inst
    BY <1>3, JobOf
  <2>2. helper[g].dir # helper[h].dir
    BY <1>1, <1>3, <2>1
  <2> QED
    BY <1>2, <2>1, <2>2
<1>4. ASSUME NEW w \in Workers, w # helper[h].dir, worker[w].pc = "starting"
      PROVE  worker[w].by \in Helpers /\ worker[w].by # h
  BY <1>4 DEF Locks
<1> QED
  BY <1>2, <1>3, <1>4

\* What resolve() does, in one piece: the helper p is at afterwards has a name of
\* its instance's, and no container is removed but its own.
Resolved(h, name, p) ==
    LET i == helper[h].inst  image == helper[h].image  n == helper[h].name
    IN  /\ helper[h].pc = "resolving" /\ i \in Instances /\ n \in Names
        /\ Askable(i, image, n) /\ Settled(i, image, name)
        /\ entries' = [entries EXCEPT ![i] = name]
        /\ HelperOnly(h)
        /\ helper'[h].pc = p /\ helper'[h].name = name
        /\ LifecycleOf(h, IF p = "waking" THEN {} ELSE {name})
        /\ \E dead \in SUBSET Existing :
              /\ docker' = Without(dead)
              /\ dead # {} => dead = {name} /\ name = entries[i]
              /\ p = "creating" /\ name \in Existing => name \in dead

LEMMA ResolveIs ==
    ASSUME Inv, NEW h \in Helpers, ResolveName(h)
    PROVE  \E name \in Names, p \in {"waking", "creating"} : Resolved(h, name, p)
<1> DEFINE i == helper[h].inst  image == helper[h].image  n == helper[h].name
           name == ResolvedName(i, image, n)
           found == name \in Existing /\ Reusable(name)
           p == IF found THEN "waking" ELSE "creating"
           d == IF found THEN docker[name].id ELSE 0
           dead == {m \in Existing : Kept(i, image) /\ m = name /\ ~Reusable(m)}
           r == [helper[h] EXCEPT !.pc = p, !.name = name, !.id = d]
<1>0. Types /\ Locks /\ Asking /\ Scoped
  BY DEF Inv
<1>1. /\ helper[h].pc = "resolving" /\ Resolvable(i, image)
      /\ entries' = [entries EXCEPT ![i] = name] /\ docker' = Without(dead)
      /\ UNCHANGED <<harness, worker>>
  BY DEF ResolveName, Resolve
<1>2. i \in Instances
  BY <1>0, <1>1, JobOf
<1>3. Askable(i, image, n) /\ n \in Names
  BY <1>0, <1>1, AskedIsAskable DEF Asking, Askable
<1>4. Settled(i, image, name) /\ name \in Names
  <2>1. Settled(i, image, name)
    BY <1>0, <1>1, <1>2, <1>3, ResolvedIsSettled
  <2> QED
    BY <2>1 DEF Settled
<1>5. helper \in [Helpers -> HelperRecords] /\ helper[h] \in HelperRecords
  BY <1>0 DEF Types
<1>6. helper' = [helper EXCEPT ![h] = r]
  BY <1>5 DEF ResolveName
<1>7. LifecycleOf(h, IF found THEN {} ELSE {name})
  BY DEF ResolveName, LifecycleOf
<1>8. p \in {"waking", "creating"} /\ (p = "waking" <=> found)
  OBVIOUS
<1>9. d \in Nat
  BY <1>0 DEF Types
<1>10. /\ dead \in SUBSET Existing
       /\ dead # {} => dead = {name} /\ Kept(i, image)
       /\ ~found /\ name \in Existing /\ Kept(i, image) => name \in dead
  OBVIOUS
<1>11. Kept(i, image) => name = entries[i]
  BY <1>4 DEF Settled
<1>12. ~found /\ name \in Existing => name \in dead
  <2>1. ~found /\ name \in Existing => Kept(i, image)
    BY <1>4 DEF Settled
  <2> QED
    BY <1>10, <2>1
<1>13. LifecycleOf(h, IF p = "waking" THEN {} ELSE {name})
  BY <1>7, <1>8
<1> HIDE DEF found, p, d, dead, name
<1>14. /\ r \in HelperRecords /\ r.pc = p /\ r.name = name
       /\ r.inst = helper[h].inst /\ r.dir = helper[h].dir /\ r.parent = helper[h].parent
  BY <1>4, <1>5, <1>8, <1>9 DEF HelperRecords, HelperPoints
<1> HIDE DEF r
<1>15. /\ helper' \in [Helpers -> HelperRecords] /\ helper'[h] = r
       /\ \A g \in Helpers \ {h} : helper'[g] = helper[g]
  BY <1>5, <1>6, <1>14
<1>16. HelperOnly(h) /\ helper'[h].pc = p /\ helper'[h].name = name
  BY <1>1, <1>8, <1>14, <1>15 DEF HelperOnly
<1>17. /\ docker' = Without(dead)
       /\ dead # {} => dead = {name} /\ name = entries[i]
       /\ p = "creating" /\ name \in Existing => name \in dead
  BY <1>1, <1>8, <1>10, <1>11, <1>12
<1>18. \E s \in SUBSET Existing :
          /\ docker' = Without(s)
          /\ s # {} => s = {name} /\ name = entries[i]
          /\ p = "creating" /\ name \in Existing => name \in s
  BY <1>10, <1>17
<1> QED
  BY <1>1, <1>2, <1>3, <1>4, <1>8, <1>13, <1>16, <1>18 DEF Resolved

LEMMA ResolveNameKeeps ==
    ASSUME Inv, NEW h \in Helpers, ResolveName(h)
    PROVE  Inv'
<1> DEFINE i == helper[h].inst  image == helper[h].image  n == helper[h].name
<1>0. Types /\ Locks /\ OfItsImage /\ Asking /\ Scoped /\ Working /\ Listed
  BY DEF Inv
<1>a. PICK name \in Names, p \in {"waking", "creating"} : Resolved(h, name, p)
  BY ResolveIs
<1>1. /\ helper[h].pc = "resolving" /\ i \in Instances /\ n \in Names
      /\ Askable(i, image, n) /\ Settled(i, image, name)
      /\ entries' = [entries EXCEPT ![i] = name]
      /\ HelperOnly(h)
      /\ helper'[h].pc = p /\ helper'[h].name = name
      /\ LifecycleOf(h, IF p = "waking" THEN {} ELSE {name})
      /\ \E dead \in SUBSET Existing :
            /\ docker' = Without(dead)
            /\ dead # {} => dead = {name} /\ name = entries[i]
            /\ p = "creating" /\ name \in Existing => name \in dead
  BY <1>a DEF Resolved
<1>2. PICK dead \in SUBSET Existing :
          /\ docker' = Without(dead)
          /\ p = "creating" /\ name \in Existing => name \in dead
  BY <1>1
<1>3. /\ DockerTyped /\ Existing' = Existing \ dead
      /\ \A m \in Existing' : docker'[m] = docker[m]
  BY <1>0, <1>2, RemovalIs
<1>4. /\ entries'[i] = name
      /\ \A j \in Instances \ {i} : entries'[j] = entries[j]
      /\ Leads(entries', i)
      /\ \A j \in Instances : Leads(entries, j) /\ j # i => Leads(entries', j)
  <2>1. i \in Instances /\ Settled(i, image, name) /\ entries' = [entries EXCEPT ![i] = name]
    BY <1>1
  <2> HIDE DEF i, image
  <2> QED
    BY <1>0, <2>1, ReservedIsOwn
<1>5. /\ \A g \in Helpers : g # h /\ helper[g].pc # "free"
             => helper[g].inst # i /\ helper[g].inst \in Instances
      /\ \A w \in Workers : w # helper[h].dir /\ worker[w].pc # "idle"
             => worker[w].inst # i /\ worker[w].inst \in Instances
      /\ \A w \in Workers : w # helper[h].dir /\ worker[w].pc = "starting"
             => worker[w].by \in Helpers /\ worker[w].by # h
  BY <1>0, <1>1, JobsDiffer, JobOf DEF Locks
<1>6. /\ helper[h].dir \in Workers /\ worker[helper[h].dir].pc = "starting"
      /\ worker[helper[h].dir].inst = i
  BY <1>0, <1>1, JobOf
<1> DEFINE names == IF p = "waking" THEN {} ELSE {name}
<1>7. /\ lifecycle' \in [Workers -> [Instances -> SUBSET Names]]
      /\ lifecycle'[helper[h].dir][i] = names
      /\ \A w \in Workers \ {helper[h].dir} : lifecycle'[w] = lifecycle[w]
  <2>1. names \in SUBSET Names /\ LifecycleOf(h, names)
    BY <1>1
  <2> HIDE DEF names
  <2> QED
    BY <1>0, <1>1, <2>1, LifecycleIs
<1>8. harness' = harness /\ worker' = worker
  BY <1>1 DEF HelperOnly
<1>9. harness'.version \in Nat /\ harness.version <= harness'.version
  BY <1>0, <1>8 DEF Types
<1>10. Types'
  <2>1. entries' \in [Instances -> Names \cup {None}]
    BY <1>0, <1>1 DEF Types
  <2>2. Existing' \subseteq Names
    BY <1>0, <1>3 DEF Types
  <2> QED
    BY <1>0, <1>1, <1>3, <1>7, <1>8, <2>1, <2>2 DEF Types, DockerTyped, HelperOnly
<1>11. Locks'
  BY <1>0, <1>1, HelperOnlyKeepsLocks
<1>12. OfItsImage'
  <2>1. name.image.group = GroupOf[i] /\ name.image.version <= harness.version
    BY <1>1 DEF Askable, Settled
  <2>2. ASSUME NEW j \in Instances, entries'[j] # None
        PROVE  /\ entries'[j].image.group = GroupOf[j]
               /\ entries'[j].image.version <= harness.version
    <3>1. CASE j = i
      BY <1>4, <2>1, <3>1
    <3>2. CASE j # i
      <4>1. entries'[j] = entries[j]
        BY <1>4, <3>2
      <4> QED
        BY <1>0, <2>2, <4>1 DEF OfItsImage
    <3> QED
      BY <3>1, <3>2
  <2> QED
    BY <1>8, <2>2 DEF OfItsImage
<1>13. Asking'
  <2> SUFFICES ASSUME NEW g \in Helpers, helper'[g].pc = "resolving"
               PROVE  Asked(g)'
    BY DEF Asking
  <2>1. g # h /\ helper'[g] = helper[g]
    BY <1>1 DEF HelperOnly
  <2>2. Asked(g)
    BY <1>0, <2>1 DEF Asking
  <2>3. entries'[helper[g].inst] = entries[helper[g].inst]
    BY <1>4, <1>5, <2>1
  <2> QED
    BY <1>0, <1>9, <2>1, <2>2, <2>3, AskedStays
<1>14. Scoped'
  <2>1. Existing' \subseteq Existing
    BY <1>3
  <2>2. ASSUME NEW m \in Known', m.scope # << >>
        PROVE  /\ entries'[Last(m)] # None
               /\ entries'[Last(m)] # m => m.image.version < entries'[Last(m)].image.version
               /\ \A k, j \in Instances : entries'[k] = m /\ entries'[j] = m => k = j
    BY <1>0, <1>1, <2>1, <2>2, ReservedIsScoped
  <2> QED
    BY <2>2 DEF Scoped
<1>15. Working'
  <2>1. ASSUME NEW g \in Helpers, helper'[g].pc \in WorkPoints
        PROVE  helper'[g].name = entries'[helper'[g].inst] /\ Leads(entries', helper'[g].inst)
    <3>1. CASE g = h
      BY <1>1, <1>4, <3>1 DEF HelperOnly
    <3>2. CASE g # h
      <4>1. helper'[g] = helper[g]
        BY <1>1, <3>2 DEF HelperOnly
      <4>2. helper[g].name = entries[helper[g].inst] /\ Leads(entries, helper[g].inst)
        BY <1>0, <2>1, <4>1 DEF Working, WorkPoints
      <4>3. helper[g].inst # i /\ helper[g].inst \in Instances
        BY <1>5, <2>1, <3>2, <4>1 DEF WorkPoints
      <4> QED
        BY <1>4, <4>1, <4>2, <4>3
    <3> QED
      BY <3>1, <3>2
  <2>2. ASSUME NEW w \in Workers, worker'[w].pc = "using"
        PROVE  worker'[w].name = entries'[worker'[w].inst] /\ Leads(entries', worker'[w].inst)
    <3>1. worker[w].name = entries[worker[w].inst] /\ Leads(entries, worker[w].inst)
      BY <1>0, <1>8, <2>2 DEF Working
    <3>2. worker[w].inst # i /\ worker[w].inst \in Instances
      BY <1>5, <1>6, <1>8, <2>2
    <3> QED
      BY <1>4, <1>8, <3>1, <3>2
  <2> QED
    BY <2>1, <2>2 DEF Working, WorkPoints
<1>16. Listed'
  <2> SUFFICES ASSUME ~EarlyFailure, NEW w \in Workers, Current(w)'
               PROVE  ListsOwn(w)'
    BY DEF Listed
  <2>1. CASE w = helper[h].dir
    <3> SUFFICES ASSUME NEW m \in lifecycle'[w][worker'[w].inst]
                 PROVE  /\ m = entries'[worker'[w].inst] /\ Leads(entries', worker'[w].inst)
                        /\ m \in Existing' => docker'[m].id \notin worker'[w].before
      BY DEF ListsOwn
    <3>1. worker'[w].inst = i
      BY <1>6, <1>8, <2>1
    <3>2. m = name /\ p = "creating"
      BY <1>1, <1>7, <2>1, <3>1
    <3>3. m \notin Existing'
      BY <1>2, <1>3, <3>2
    <3> QED
      BY <1>4, <3>1, <3>2, <3>3
  <2>2. CASE w # helper[h].dir
    <3>1. Current(w) /\ worker[w].pc # "idle"
      <4>1. CASE worker[w].pc = "starting"
        <5>1. worker[w].by \in Helpers \ {h}
          BY <1>5, <2>2, <4>1
        <5>2. helper'[worker[w].by] = helper[worker[w].by]
          BY <1>1, <5>1 DEF HelperOnly
        <5> QED
          BY <1>8, <4>1, <5>2 DEF Current
      <4>2. CASE worker[w].pc # "starting"
        BY <1>8, <4>2 DEF Current
      <4> QED
        BY <4>1, <4>2
    <3>2. ListsOwn(w)
      BY <1>0, <3>1 DEF Listed
    <3>3. lifecycle'[w] = lifecycle[w]
      BY <1>7, <2>2
    <3>4. worker[w].inst # i /\ worker[w].inst \in Instances
      BY <1>5, <2>2, <3>1
    <3>5. /\ entries'[worker[w].inst] = entries[worker[w].inst]
          /\ Leads(entries, worker[w].inst) => Leads(entries', worker[w].inst)
      BY <1>4, <3>4
    <3> QED
      BY <1>3, <1>8, <3>2, <3>3, <3>5, ListsOwnStays DEF DockerTyped
  <2> QED
    BY <2>1, <2>2
<1> QED
  BY <1>10, <1>11, <1>12, <1>13, <1>14, <1>15, <1>16 DEF Inv

-----------------------------------------------------------------------------
\* The steps of the workers.

\* A step of a worker that changes some helpers, and no registry entry.
WorkerOnly(w, hs) ==
    /\ worker' \in [Workers -> WorkerRecords]
    /\ IsFiniteSet(worker'[w].before)
    /\ \A v \in Workers \ {w} : worker'[v] = worker[v]
    /\ helper' \in [Helpers -> HelperRecords]
    /\ \A g \in Helpers \ hs : helper'[g] = helper[g]
    /\ UNCHANGED <<entries, harness, lifecycle>>

\* The helpers it changes are not at work afterwards.
LEMMA WorkerKeeps ==
    ASSUME Inv, NEW w \in Workers, NEW hs \in SUBSET Helpers, WorkerOnly(w, hs), DockerTyped,
           Locks',
           \A v \in Workers \ {w} : worker[v].pc = "starting" => worker[v].by \notin hs,
           \A h \in hs : helper'[h].pc \in {"free", "launched"},
           worker'[w].pc = "using" =>
               worker'[w].name = entries[worker'[w].inst] /\ Leads(entries, worker'[w].inst),
           ~EarlyFailure /\ Current(w)' =>
               /\ Current(w)
               /\ worker'[w].inst = worker[w].inst /\ worker'[w].before = worker[w].before
    PROVE  Inv'
<1>0. Types /\ Locks /\ OfItsImage /\ Asking /\ Scoped /\ Working /\ Listed
  BY DEF Inv
<1>1. Types'
  <2>1. Existing' \subseteq Names
    BY <1>0 DEF Types, Known, DockerTyped
  <2>2. \A v \in Workers : IsFiniteSet(worker'[v].before)
    BY <1>0 DEF Types, WorkerOnly
  <2> QED
    BY <1>0, <2>1, <2>2 DEF Types, WorkerOnly, DockerTyped
<1>2. harness'.version \in Nat /\ harness.version <= harness'.version
  BY <1>0 DEF Types, WorkerOnly
<1>3. entries' = entries /\ lifecycle' = lifecycle /\ SameIds /\ Existing' \subseteq Known
  BY DEF WorkerOnly, DockerTyped
<1>4. OfItsImage'
  BY <1>0, <1>2, <1>3, OfItsImageStays
<1>5. \A g \in Helpers : helper'[g].pc \notin {"free", "launched"} => helper'[g] = helper[g]
  BY DEF WorkerOnly
<1>6. Asking'
  BY <1>0, <1>2, <1>3, <1>5, AskingStays
<1>7. Scoped'
  BY <1>0, <1>3, ScopedStays
<1>8. Working'
  <2>1. ASSUME NEW g \in Helpers, helper'[g].pc \in WorkPoints
        PROVE  helper'[g].name = entries'[helper'[g].inst] /\ Leads(entries', helper'[g].inst)
    <3>1. helper'[g] = helper[g]
      BY <1>5, <2>1 DEF WorkPoints
    <3> QED
      BY <1>0, <1>3, <2>1, <3>1 DEF Working, WorkPoints
  <2>2. ASSUME NEW v \in Workers, worker'[v].pc = "using"
        PROVE  worker'[v].name = entries'[worker'[v].inst] /\ Leads(entries', worker'[v].inst)
    <3>1. CASE v = w
      BY <1>3, <2>2, <3>1
    <3>2. CASE v # w
      BY <1>0, <1>3, <2>2, <3>2 DEF Working, WorkerOnly
    <3> QED
      BY <3>1, <3>2
  <2> QED
    BY <2>1, <2>2 DEF Working, WorkPoints
<1>9. Listed'
  <2>1. ASSUME NEW v \in Workers, ~EarlyFailure, Current(v)'
        PROVE  /\ Current(v)
               /\ worker'[v].inst = worker[v].inst /\ worker'[v].before = worker[v].before
    <3>1. CASE v = w
      BY <2>1, <3>1
    <3>2. CASE v # w
      <4>1. worker'[v] = worker[v]
        BY <3>2 DEF WorkerOnly
      <4>2. worker[v].pc = "starting" => helper'[worker[v].by] = helper[worker[v].by]
        <5>1. worker[v].pc = "starting" => worker[v].by \in Helpers \ hs
          BY <1>0, <3>2 DEF Locks
        <5> QED
          BY <5>1 DEF WorkerOnly
      <4>3. Current(v)
        BY <2>1, <4>1, <4>2 DEF Current
      <4> QED
        BY <4>1, <4>3
    <3> QED
      BY <3>1, <3>2
  <2> QED
    BY <1>0, <1>3, <2>1, ListedStays
<1> QED
  BY <1>1, <1>4, <1>6, <1>7, <1>8, <1>9 DEF Inv

LEMMA TakeKeeps ==
    ASSUME Inv, NEW w \in Workers, NEW i \in Instances, Take(w, i)
    PROVE  Inv'
<1>0. Types /\ Locks
  BY DEF Inv
<1>1. PICK h \in Helpers :
          /\ helper[h] = Free
          /\ worker' = [worker EXCEPT ![w] = [Idle EXCEPT !.pc = "starting", !.inst = i,
                                                          !.before = Present, !.by = h]]
          /\ helper' = [helper EXCEPT ![h] = [Free EXCEPT !.pc = "launched", !.inst = i,
                                                          !.dir = w, !.parent = w]]
  BY DEF Take
<1>2. worker[w] = Idle /\ ~Locked(i) /\ UNCHANGED <<entries, docker, harness, lifecycle>>
  BY DEF Take
<1> DEFINE seen == Present
           r == [Idle EXCEPT !.pc = "starting", !.inst = i, !.before = seen, !.by = h]
           s == [Free EXCEPT !.pc = "launched", !.inst = i, !.dir = w, !.parent = w]
<1>3. seen \in SUBSET Nat /\ IsFiniteSet(seen)
  <2> DEFINE ids == [n \in Existing |-> docker[n].id]
  <2>1. seen = {ids[n] : n \in Existing}
    BY DEF Present
  <2>2. IsFiniteSet(Existing)
    BY <1>0 DEF Types
  <2>3. IsFiniteSet(seen)
    <3> HIDE DEF seen, ids
    <3> QED
      BY <2>1, <2>2, ValuesAreFinite
  <2>4. seen \subseteq Nat
    BY <1>0 DEF Types, Present
  <2> QED
    BY <2>3, <2>4
<1> HIDE DEF seen
<1>4. /\ r \in WorkerRecords /\ r.pc = "starting" /\ r.inst = i /\ r.before = seen /\ r.by = h
  BY <1>3 DEF Idle, WorkerRecords
<1>5. /\ s \in HelperRecords /\ s.pc = "launched" /\ s.inst = i /\ s.dir = w /\ s.parent = w
  BY DEF Free, HelperRecords, HelperPoints
<1>6. worker' = [worker EXCEPT ![w] = r] /\ helper' = [helper EXCEPT ![h] = s]
  BY <1>1 DEF seen
<1> HIDE DEF r, s
<1>7. /\ worker \in [Workers -> WorkerRecords] /\ helper \in [Helpers -> HelperRecords]
  BY <1>0 DEF Types
<1>8. /\ worker' \in [Workers -> WorkerRecords] /\ worker'[w] = r
      /\ \A v \in Workers \ {w} : worker'[v] = worker[v]
      /\ helper' \in [Helpers -> HelperRecords] /\ helper'[h] = s
      /\ \A g \in Helpers \ {h} : helper'[g] = helper[g]
  BY <1>4, <1>5, <1>6, <1>7
<1>9. worker[w].pc = "idle" /\ helper[h].pc = "free"
  BY <1>1, <1>2 DEF Idle, Free
<1>10. \A v \in Workers : worker[v].pc = "starting" => worker[v].by # h
  BY <1>0, <1>9 DEF Locks
<1>11. Locks'
  <2>1. \A v \in Workers : worker'[v].pc # "idle" => worker'[v].inst \in Instances
    BY <1>0, <1>4, <1>8 DEF Locks
  <2>2. ASSUME NEW u \in Workers, NEW v \in Workers,
               u # v /\ worker'[u].pc # "idle" /\ worker'[v].pc # "idle"
        PROVE  worker'[u].inst # worker'[v].inst
    <3>1. \A x \in Workers \ {w} : worker[x].pc # "idle" => worker[x].inst # i
      BY <1>2 DEF Locked
    <3> QED
      BY <1>0, <1>4, <1>8, <2>2, <3>1 DEF Locks
  <2>3. ASSUME NEW v \in Workers, worker'[v].pc = "starting"
        PROVE  /\ worker'[v].by \in Helpers
               /\ helper'[worker'[v].by].pc # "free" /\ helper'[worker'[v].by].dir = v
    <3>1. CASE v = w
      BY <1>4, <1>5, <1>8, <3>1
    <3>2. CASE v # w
      BY <1>0, <1>8, <1>10, <2>3, <3>2 DEF Locks
    <3> QED
      BY <3>1, <3>2
  <2>4. ASSUME NEW g \in Helpers, helper'[g].pc # "free"
        PROVE  /\ helper'[g].dir \in Workers /\ helper'[g].parent = helper'[g].dir
               /\ worker'[helper'[g].dir].pc = "starting" /\ worker'[helper'[g].dir].by = g
               /\ worker'[helper'[g].dir].inst = helper'[g].inst
    <3>1. CASE g = h
      BY <1>4, <1>5, <1>8, <3>1
    <3>2. CASE g # h
      <4>1. helper'[g] = helper[g]
        BY <1>8, <3>2
      <4>2. helper[g].pc # "free"
        BY <2>4, <4>1
      <4>3. /\ helper[g].dir \in Workers /\ helper[g].parent = helper[g].dir
            /\ worker[helper[g].dir].pc = "starting" /\ worker[helper[g].dir].by = g
            /\ worker[helper[g].dir].inst = helper[g].inst
        BY <1>0, <4>2, JobOf
      <4>4. helper[g].dir # w
        BY <1>9, <4>3
      <4> QED
        BY <1>8, <4>1, <4>3, <4>4
    <3> QED
      BY <3>1, <3>2
  <2> QED
    BY <2>1, <2>2, <2>3, <2>4 DEF Locks
<1>12. DockerTyped
  BY <1>0, <1>2 DEF DockerTyped, SameIds, Types, Known, Existing
<1>13. IsFiniteSet(worker'[w].before)
  BY <1>3, <1>4, <1>8
<1>14. WorkerOnly(w, {h})
  BY <1>2, <1>8, <1>13 DEF WorkerOnly
<1>15. ~Current(w)'
  BY <1>4, <1>5, <1>8 DEF Current
<1>16. worker'[w].pc # "using" /\ helper'[h].pc = "launched"
  BY <1>4, <1>5, <1>8
<1> QED
  BY <1>10, <1>11, <1>12, <1>14, <1>15, <1>16, WorkerKeeps

\* The end of a startup: the worker lets go of its helper.
LEMMA StartupEnds ==
    ASSUME Inv, NEW w \in Workers, worker[w].pc = "starting",
           NEW r \in WorkerRecords, worker' = [worker EXCEPT ![w] = r],
           r.pc \in {"cleaning", "using"}, r.inst = worker[w].inst, IsFiniteSet(r.before),
           r.pc = "using" => r.name = entries[r.inst] /\ Leads(entries, r.inst),
           r.pc = "cleaning" /\ ~EarlyFailure =>
               r.before = worker[w].before /\ helper[worker[w].by].pc # "launched",
           helper' = [helper EXCEPT ![worker[w].by] = Free],
           UNCHANGED <<entries, docker, harness, lifecycle>>
    PROVE  Inv'
<1> DEFINE h == worker[w].by
<1>0. Types /\ Locks
  BY DEF Inv
<1>1. h \in Helpers /\ helper[h].pc # "free" /\ helper[h].dir = w
  BY <1>0 DEF Locks
<1>2. Free \in HelperRecords /\ Free.pc = "free"
  BY DEF Free, HelperRecords, HelperPoints
<1>3. worker \in [Workers -> WorkerRecords] /\ helper \in [Helpers -> HelperRecords]
  BY <1>0 DEF Types
<1>4. /\ worker' \in [Workers -> WorkerRecords] /\ worker'[w] = r
      /\ \A v \in Workers \ {w} : worker'[v] = worker[v]
  BY <1>3
<1>5. /\ helper' \in [Helpers -> HelperRecords] /\ helper'[h].pc = "free"
      /\ \A g \in Helpers \ {h} : helper'[g] = helper[g]
  BY <1>1, <1>2, <1>3
<1> HIDE DEF h
<1>6. \A v \in Workers \ {w} : worker[v].pc = "starting" => worker[v].by \in Helpers \ {h}
  BY <1>0, <1>1 DEF Locks
<1>7. Locks'
  <2>1. \A v \in Workers : worker'[v].pc # "idle" => worker'[v].inst \in Instances
    BY <1>0, <1>4 DEF Locks
  <2>2. \A u, v \in Workers :
           (u # v /\ worker'[u].pc # "idle" /\ worker'[v].pc # "idle")
               => worker'[u].inst # worker'[v].inst
    BY <1>0, <1>4 DEF Locks
  <2>3. ASSUME NEW v \in Workers, worker'[v].pc = "starting"
        PROVE  /\ worker'[v].by \in Helpers
               /\ helper'[worker'[v].by].pc # "free" /\ helper'[worker'[v].by].dir = v
    <3>1. v # w
      BY <1>4, <2>3
    <3> QED
      BY <1>0, <1>4, <1>5, <1>6, <2>3, <3>1 DEF Locks
  <2>4. ASSUME NEW g \in Helpers, helper'[g].pc # "free"
        PROVE  /\ helper'[g].dir \in Workers /\ helper'[g].parent = helper'[g].dir
               /\ worker'[helper'[g].dir].pc = "starting" /\ worker'[helper'[g].dir].by = g
               /\ worker'[helper'[g].dir].inst = helper'[g].inst
    <3>1. g # h /\ helper'[g] = helper[g]
      BY <1>5, <2>4
    <3>2. /\ helper[g].dir \in Workers /\ helper[g].parent = helper[g].dir
          /\ worker[helper[g].dir].pc = "starting" /\ worker[helper[g].dir].by = g
          /\ worker[helper[g].dir].inst = helper[g].inst
      BY <1>0, <2>4, <3>1, JobOf
    <3>3. helper[g].dir # w
      BY <3>1, <3>2 DEF h
    <3> QED
      BY <1>4, <3>1, <3>2, <3>3
  <2> QED
    BY <2>1, <2>2, <2>3, <2>4 DEF Locks
<1>8. DockerTyped
  BY <1>0 DEF DockerTyped, SameIds, Types, Known, Existing
<1>9. WorkerOnly(w, {h})
  BY <1>4, <1>5 DEF WorkerOnly
<1>10. ~EarlyFailure /\ Current(w)' =>
           /\ Current(w)
           /\ worker'[w].inst = worker[w].inst /\ worker'[w].before = worker[w].before
  BY <1>4 DEF Current
<1>11. worker'[w].pc = "using" =>
           worker'[w].name = entries[worker'[w].inst] /\ Leads(entries, worker'[w].inst)
  BY <1>4
<1>12. \A g \in {h} : helper'[g].pc \in {"free", "launched"}
  BY <1>5
<1> QED
  BY <1>1, <1>6, <1>7, <1>8, <1>9, <1>10, <1>11, <1>12, WorkerKeeps

LEMMA UseKeeps ==
    ASSUME Inv, NEW w \in Workers, Use(w)
    PROVE  Inv'
<1> DEFINE h == worker[w].by  n == helper[h].name  d == helper[h].id
           r == [worker[w] EXCEPT !.pc = "using", !.by = None,
                                  !.before = {}, !.name = n, !.id = d]
<1>0. Types /\ Locks
  BY DEF Inv
<1>1. worker[w].pc = "starting" /\ helper[h].pc = "done"
  BY DEF Use
<1>2. h \in Helpers /\ helper[h].dir = w
  BY <1>0, <1>1 DEF Locks
<1>3. helper[h].inst = worker[w].inst
  BY <1>0, <1>1, <1>2, JobOf
<1>4. n \in Names /\ n = entries[helper[h].inst] /\ Leads(entries, helper[h].inst)
  BY <1>1, <1>2, WorkNameIs DEF WorkPoints
<1>5. d \in Nat
  BY <1>0, <1>2 DEF Types, HelperRecords
<1>6. worker \in [Workers -> WorkerRecords] /\ worker[w] \in WorkerRecords
  BY <1>0 DEF Types
<1>7. worker' = [worker EXCEPT ![w] = r]
  BY <1>6 DEF Use
<1>8. helper' = [helper EXCEPT ![worker[w].by] = Free] /\ UNCHANGED <<entries, docker, harness, lifecycle>>
  BY DEF Use
<1> HIDE DEF h, n, d
<1>9. /\ r \in WorkerRecords /\ r.pc = "using" /\ r.inst = worker[w].inst
      /\ r.before = {} /\ r.name = n
  BY <1>4, <1>5, <1>6 DEF WorkerRecords
<1> HIDE DEF r
<1>10. IsFiniteSet(r.before)
  BY <1>9, FS_EmptySet
<1> QED
  BY <1>1, <1>3, <1>4, <1>7, <1>8, <1>9, <1>10, StartupEnds

LEMMA LoseKeeps ==
    ASSUME Inv, NEW w \in Workers, Lose(w)
    PROVE  Inv'
<1> DEFINE r == [worker[w] EXCEPT !.pc = "cleaning", !.by = None]
<1>0. Types /\ Locks
  BY DEF Inv
<1>1. /\ worker[w].pc = "starting"
      /\ helper[worker[w].by].pc = "launched" => EarlyFailure
      /\ helper' = [helper EXCEPT ![worker[w].by] = Free]
      /\ UNCHANGED <<entries, docker, harness, lifecycle>>
  BY DEF Lose
<1>2. worker \in [Workers -> WorkerRecords] /\ worker[w] \in WorkerRecords
  BY <1>0 DEF Types
<1>3. worker' = [worker EXCEPT ![w] = r]
  BY <1>2 DEF Lose
<1>4. /\ r \in WorkerRecords /\ r.pc = "cleaning" /\ r.inst = worker[w].inst
      /\ r.before = worker[w].before
  BY <1>2 DEF WorkerRecords
<1> HIDE DEF r
<1>5. IsFiniteSet(r.before)
  BY <1>0, <1>4 DEF Types
<1> QED
  BY <1>1, <1>3, <1>4, <1>5, StartupEnds

\* A worker lets go of its instance.
LEMMA RunEnds ==
    ASSUME Inv, NEW w \in Workers, worker[w].pc \in {"cleaning", "using"},
           worker' = [worker EXCEPT ![w] = Idle], DockerTyped,
           UNCHANGED <<entries, harness, lifecycle, helper>>
    PROVE  Inv'
<1>0. Types /\ Locks
  BY DEF Inv
<1>1. /\ Idle \in WorkerRecords /\ Idle.pc = "idle" /\ Idle.before = {}
  BY DEF Idle, WorkerRecords
<1>2. worker \in [Workers -> WorkerRecords] /\ helper \in [Helpers -> HelperRecords]
  BY <1>0 DEF Types
<1>3. /\ worker' \in [Workers -> WorkerRecords] /\ worker'[w] = Idle
      /\ \A v \in Workers \ {w} : worker'[v] = worker[v]
  BY <1>1, <1>2
<1>4. helper' = helper
  OBVIOUS
<1>5. IsFiniteSet(worker'[w].before)
  BY <1>1, <1>3, FS_EmptySet
<1>6. Locks'
  <2>1. \A v \in Workers : worker'[v].pc # "idle" => worker'[v].inst \in Instances
    BY <1>0, <1>1, <1>3 DEF Locks
  <2>2. \A u, v \in Workers :
           (u # v /\ worker'[u].pc # "idle" /\ worker'[v].pc # "idle")
               => worker'[u].inst # worker'[v].inst
    BY <1>0, <1>1, <1>3 DEF Locks
  <2>3. ASSUME NEW v \in Workers, worker'[v].pc = "starting"
        PROVE  /\ worker'[v].by \in Helpers
               /\ helper'[worker'[v].by].pc # "free" /\ helper'[worker'[v].by].dir = v
    BY <1>0, <1>1, <1>3, <1>4, <2>3 DEF Locks
  <2>4. ASSUME NEW g \in Helpers, helper'[g].pc # "free"
        PROVE  /\ helper'[g].dir \in Workers /\ helper'[g].parent = helper'[g].dir
               /\ worker'[helper'[g].dir].pc = "starting" /\ worker'[helper'[g].dir].by = g
               /\ worker'[helper'[g].dir].inst = helper'[g].inst
    <3>1. /\ helper[g].dir \in Workers /\ helper[g].parent = helper[g].dir
          /\ worker[helper[g].dir].pc = "starting" /\ worker[helper[g].dir].by = g
          /\ worker[helper[g].dir].inst = helper[g].inst
      BY <1>0, <1>4, <2>4, JobOf
    <3>2. helper[g].dir # w
      BY <3>1
    <3> QED
      BY <1>3, <1>4, <3>1, <3>2
  <2> QED
    BY <2>1, <2>2, <2>3, <2>4 DEF Locks
<1>7. WorkerOnly(w, {})
  BY <1>2, <1>3, <1>4, <1>5 DEF WorkerOnly
<1>8. /\ ~Current(w)' /\ worker'[w].pc # "using"
  BY <1>1, <1>3 DEF Current
<1> QED
  BY <1>6, <1>7, <1>8, WorkerKeeps

LEMMA CleanupKeeps ==
    ASSUME Inv, NEW w \in Workers, Cleanup(w)
    PROVE  Inv'
<1>1. /\ worker[w].pc = "cleaning" /\ worker' = [worker EXCEPT ![w] = Idle]
      /\ UNCHANGED <<entries, harness, lifecycle, helper>>
  BY DEF Cleanup
<1>2. DockerTyped
  BY RemovalIs DEF Cleanup, Inv
<1> QED
  BY <1>1, <1>2, RunEnds

\* Stopping a container leaves the others as they were.
LEMMA CloseIs ==
    ASSUME Types, NEW w \in Workers, Close(w)
    PROVE  /\ DockerTyped /\ Existing' = Existing
           /\ \A n \in Existing : n # worker[w].name => docker'[n] = docker[n]
           /\ \A n \in Existing : docker'[n].id = docker[n].id
<1> DEFINE Containers == [state : ContainerStates, id : Nat]
           f == [n \in Existing |-> [docker[n] EXCEPT !.state = "exited"]]
<1>1. docker \in [Existing -> Containers]
  BY DEF Types
<1>2. \A n \in Existing : f[n] \in Containers /\ f[n].id = docker[n].id
  BY <1>1 DEF ContainerStates
<1>3. docker' = [n \in Existing |-> IF n \in Target(worker[w]) THEN f[n] ELSE docker[n]]
  BY DEF Close
<1> HIDE DEF f, Containers
<1>4. Existing' = Existing
  BY <1>3 DEF Existing
<1>5. docker' \in [Existing -> Containers]
  BY <1>1, <1>2, <1>3
<1>6. \A n \in Existing : docker'[n].id = docker[n].id
  BY <1>2, <1>3
<1>7. \A n \in Existing : n # worker[w].name => docker'[n] = docker[n]
  BY <1>3 DEF Target
<1>8. SameIds
  BY <1>4, <1>6 DEF SameIds
<1>9. IsFiniteSet(Existing') /\ Existing' \subseteq Known
  BY <1>4 DEF Types, Known
<1>10. docker' \in [Existing' -> [state : ContainerStates, id : Nat]]
  BY <1>4, <1>5 DEF Containers
<1> QED
  BY <1>4, <1>6, <1>7, <1>8, <1>9, <1>10 DEF DockerTyped

LEMMA CloseKeeps ==
    ASSUME Inv, NEW w \in Workers, Close(w)
    PROVE  Inv'
<1>1. /\ worker[w].pc = "using" /\ worker' = [worker EXCEPT ![w] = Idle]
      /\ UNCHANGED <<entries, harness, lifecycle, helper>>
  BY DEF Close
<1>2. DockerTyped
  BY CloseIs DEF Inv
<1> QED
  BY <1>1, <1>2, RunEnds

-----------------------------------------------------------------------------
\* What happens besides.

\* Everything but Docker and the harness is as it was.
LEMMA AroundKeeps ==
    ASSUME Inv, DockerTyped, UNCHANGED <<entries, lifecycle, worker, helper>>,
           harness' \in [version : 1 .. MaxHarness, rebuild : BOOLEAN],
           harness.version <= harness'.version
    PROVE  Inv'
<1>0. Types /\ Locks /\ OfItsImage /\ Asking /\ Scoped /\ Working /\ Listed
  BY DEF Inv
<1>1. harness'.version \in Nat
  OBVIOUS
<1>2. Types'
  <2>1. Existing' \subseteq Names
    BY <1>0 DEF Types, Known, DockerTyped
  <2> QED
    BY <1>0, <2>1 DEF Types, DockerTyped
<1>3. Locks'
  BY <1>0 DEF Locks
<1>4. OfItsImage'
  BY <1>0, <1>1, OfItsImageStays
<1>5. Asking'
  BY <1>0, <1>1, AskingStays
<1>6. Scoped'
  BY <1>0, ScopedStays DEF DockerTyped
<1>7. Working'
  BY <1>0 DEF Working
<1>8. \A w \in Workers : Current(w)' => Current(w)
  BY DEF Current
<1>9. Listed'
  BY <1>0, <1>8, ListedStays DEF DockerTyped
<1> QED
  BY <1>2, <1>3, <1>4, <1>5, <1>6, <1>7, <1>9 DEF Inv

LEMMA DecayKeeps ==
    ASSUME Inv, Decay
    PROVE  Inv'
<1>0. Types
  BY DEF Inv
<1>1. PICK n \in Existing : docker' = [docker EXCEPT ![n].state = "dead"]
  BY DEF Decay
<1>2. DockerTyped
  BY <1>0, <1>1, StateChangeIs DEF ContainerStates
<1>3. UNCHANGED <<entries, lifecycle, worker, helper>> /\ harness' = harness
  BY DEF Decay
<1>4. /\ harness' \in [version : 1 .. MaxHarness, rebuild : BOOLEAN]
      /\ harness.version <= harness'.version
  BY <1>0, <1>3 DEF Types
<1> QED
  BY <1>2, <1>3, <1>4, AroundKeeps

LEMMA UpgradeKeeps ==
    ASSUME Inv, Upgrade
    PROVE  Inv'
<1>0. Types
  BY DEF Inv
<1>1. DockerTyped
  BY <1>0 DEF DockerTyped, SameIds, Types, Known, Existing, Upgrade
<1>2. harness' = [harness EXCEPT !.version = harness.version + 1] /\ harness.version < MaxHarness
  BY DEF Upgrade
<1>3. harness.version \in 1 .. MaxHarness /\ MaxHarness \in Nat
  BY <1>0, RegistryAssumption DEF Types
<1>4. harness'.version = harness.version + 1 /\ harness'.rebuild = harness.rebuild
  BY <1>0, <1>2 DEF Types
<1>5. harness' \in [version : 1 .. MaxHarness, rebuild : BOOLEAN]
  <2>1. harness.version + 1 \in 1 .. MaxHarness
    BY <1>2, <1>3
  <2> QED
    BY <1>0, <1>2, <2>1 DEF Types
<1>6. harness.version <= harness'.version
  BY <1>3, <1>4
<1>7. UNCHANGED <<entries, lifecycle, worker, helper>>
  BY DEF Upgrade
<1> QED
  BY <1>1, <1>5, <1>6, <1>7, AroundKeeps

-----------------------------------------------------------------------------
\* The invariant holds.

LEMMA LegacyNameIs ==
    ASSUME NEW g \in Groups
    PROVE  /\ LegacyName(g) \in Names /\ LegacyName(g).scope = << >>
           /\ LegacyName(g).image.group = g /\ LegacyName(g).image.version = 1
<1> DEFINE a == CHOOSE x \in Addresses : TRUE
           image == [group |-> g, version |-> 1]
           s == << >>  S == Seq(Instances)
<1>1. a \in Addresses /\ MaxHarness \in Nat \ {0}
  BY RegistryAssumption
<1>2. 1 \in 1 .. MaxHarness
  BY <1>1
<1>3. image \in Images /\ image.group = g /\ image.version = 1
  BY <1>2 DEF Images
<1>4. s \in S
  OBVIOUS
<1>5. LegacyName(g) = [image |-> image, address |-> a, scope |-> s]
  BY DEF LegacyName, HarnessName
<1> HIDE DEF a, image, s, S
<1>6. LegacyName(g) \in [image : Images, address : Addresses, scope : S]
  BY <1>1, <1>3, <1>4, <1>5
<1>7. LegacyName(g).image = image /\ LegacyName(g).scope = s
  BY <1>5
<1> QED
  BY <1>3, <1>6, <1>7 DEF Names, s, S

LEMMA InitialDocker ==
    ASSUME Init
    PROVE  /\ Existing \subseteq {LegacyName(g) : g \in Groups}
           /\ IsFiniteSet(Existing)
           /\ docker \in [Existing -> [state : ContainerStates, id : Nat]]
<1> DEFINE old == [g \in Groups |-> LegacyName(g)]
           all == {old[g] : g \in Groups}
<1>1. PICK left \in {{}, IF Legacy THEN {LegacyName(g) : g \in Groups} ELSE {}},
           st \in {"exited", "dead"} :
          docker = [n \in left |-> [state |-> st, id |-> 0]]
  BY DEF Init
<1>2. all = {LegacyName(g) : g \in Groups}
  OBVIOUS
<1>3. IsFiniteSet(all)
  <2> HIDE DEF old
  <2> QED
    BY ValuesAreFinite, RegistryAssumption
<1>4. left \in {{}, all}
  BY <1>1, <1>2
<1> HIDE DEF all, old
<1>5. Existing = left
  BY <1>1 DEF Existing
<1>6. IsFiniteSet(Existing) /\ Existing \subseteq all
  BY <1>3, <1>4, <1>5, FS_EmptySet
<1> DEFINE r == [state |-> st, id |-> 0]  Containers == [state : ContainerStates, id : Nat]
<1>7. r \in Containers
  BY DEF ContainerStates
<1>8. docker = [n \in left |-> r]
  BY <1>1
<1> HIDE DEF r, Containers
<1>9. docker \in [left -> Containers]
  BY <1>7, <1>8
<1> QED
  BY <1>2, <1>5, <1>6, <1>9 DEF Containers

LEMMA InitInv ==
    ASSUME Init
    PROVE  Inv
<1> DEFINE olds == {LegacyName(g) : g \in Groups}
<1>1. PICK shared \in {FALSE, Legacy} :
          entries = [i \in Instances |-> IF shared THEN LegacyName(GroupOf[i]) ELSE None]
  BY DEF Init
<1>2. \A i \in Instances : GroupOf[i] \in Groups
  BY RegistryAssumption
<1>3. ASSUME NEW i \in Instances, entries[i] # None
      PROVE  entries[i] = LegacyName(GroupOf[i])
  BY <1>1, <1>3
<1>4. \A n \in olds : n \in Names /\ n.scope = << >>
  BY LegacyNameIs
<1>5. entries \in [Instances -> Names \cup {None}]
  BY <1>1, <1>2, <1>4
<1>6. /\ Existing \subseteq Names /\ IsFiniteSet(Existing) /\ Existing \subseteq olds
      /\ docker \in [Existing -> [state : ContainerStates, id : Nat]]
  BY <1>4, InitialDocker
<1>7. harness \in [version : {1}, rebuild : Rebuilds]
  BY DEF Init
<1>8. harness.version = 1 /\ harness \in [version : 1 .. MaxHarness, rebuild : BOOLEAN]
  <2>1. 1 \in 1 .. MaxHarness /\ Rebuilds \subseteq BOOLEAN
    BY RegistryAssumption, RuntimeAssumption
  <2> QED
    BY <1>7, <2>1
<1>9. /\ worker = [w \in Workers |-> Idle] /\ helper = [h \in Helpers |-> Free]
      /\ lifecycle = [w \in Workers |-> [i \in Instances |-> {}]]
  BY DEF Init
<1>10. /\ Idle \in WorkerRecords /\ Idle.pc = "idle" /\ IsFiniteSet(Idle.before)
  BY FS_EmptySet DEF Idle, WorkerRecords
<1>11. /\ Free \in HelperRecords /\ Free.pc = "free"
  BY DEF Free, HelperRecords, HelperPoints
<1>12. Types
  <2>1. worker \in [Workers -> WorkerRecords] /\ helper \in [Helpers -> HelperRecords]
    BY <1>9, <1>10, <1>11
  <2>2. lifecycle \in [Workers -> [Instances -> SUBSET Names]]
    BY <1>9
  <2>3. \A w \in Workers : IsFiniteSet(worker[w].before)
    BY <1>9, <1>10
  <2> QED
    BY <1>5, <1>6, <1>8, <2>1, <2>2, <2>3 DEF Types
<1>13. /\ \A w \in Workers : worker[w].pc = "idle"
       /\ \A h \in Helpers : helper[h].pc = "free"
  BY <1>9, <1>10, <1>11
<1>14. Locks
  BY <1>13 DEF Locks
<1>15. OfItsImage
  <2>1. ASSUME NEW i \in Instances, entries[i] # None
        PROVE  /\ entries[i].image.group = GroupOf[i]
               /\ entries[i].image.version <= harness.version
    <3>1. entries[i].image.group = GroupOf[i] /\ entries[i].image.version = 1
      BY <1>2, <1>3, <2>1, LegacyNameIs
    <3> QED
      BY <1>8, <3>1
  <2> QED
    BY <2>1 DEF OfItsImage
<1>16. Asking
  BY <1>13 DEF Asking
<1>17. Scoped
  <2>1. \A i \in Instances : entries[i] # None => entries[i] \in olds
    BY <1>2, <1>3
  <2>2. Known \subseteq olds
    BY <1>6, <2>1 DEF Known
  <2> QED
    BY <1>4, <2>2 DEF Scoped
<1>18. Working
  BY <1>13 DEF Working
<1>19. Listed
  BY <1>13 DEF Listed, Current
<1> QED
  BY <1>12, <1>14, <1>15, <1>16, <1>17, <1>18, <1>19 DEF Inv

\* The actions of a system whose workers are not killed; no helper is without a
\* worker.
LEMMA StepCases ==
    ASSUME Inv, ~Deaths, Next
    PROVE  \/ \E w \in Workers : \/ \E i \in Instances : Take(w, i)
                                 \/ Use(w)
                                 \/ Lose(w)
                                 \/ Cleanup(w)
                                 \/ Close(w)
           \/ \E h \in Helpers : \/ Identify(h)
                                 \/ FailEarly(h)
                                 \/ ResolveName(h)
                                 \/ ResolveFails(h)
                                 \/ Wake(h)
                                 \/ Create(h)
                                 \/ CreateFails(h)
                                 \/ Checked(h)
                                 \/ Conclude(h)
                                 \/ ConfirmFails(h)
                                 \/ CheckFails(h)
                                 \/ Clean(h)
           \/ Decay
           \/ Upgrade
<1>1. \A w \in Workers : ~Die(w)
  BY DEF Die
<1>2. ASSUME NEW h \in Helpers, OrphanEnds(h)
      PROVE  FALSE
  <2>1. helper[h].pc # "free" /\ helper[h].parent = None
    BY <1>2 DEF OrphanEnds
  <2>2. helper[h].parent \in Workers
    BY <2>1, JobOf DEF Inv
  <2> QED
    BY <2>1, <2>2, RuntimeAssumption
<1> QED
  BY <1>1, <1>2, Zenon DEF Next, WorkerStep, HelperStep, HelperFault

LEMMA NextKeeps ==
    ASSUME Inv, ~Deaths, Next
    PROVE  Inv'
<1>1. CASE \E w \in Workers : \/ \E i \in Instances : Take(w, i)
                              \/ Use(w)
                              \/ Lose(w)
                              \/ Cleanup(w)
                              \/ Close(w)
  BY <1>1, TakeKeeps, UseKeeps, LoseKeeps, CleanupKeeps, CloseKeeps
<1>2. CASE \E h \in Helpers : \/ Identify(h)
                              \/ FailEarly(h)
                              \/ ResolveName(h)
                              \/ ResolveFails(h)
                              \/ Wake(h)
                              \/ Create(h)
                              \/ CreateFails(h)
                              \/ Checked(h)
                              \/ Conclude(h)
                              \/ ConfirmFails(h)
                              \/ CheckFails(h)
                              \/ Clean(h)
  BY <1>2, IdentifyKeeps, FailEarlyKeeps, ResolveNameKeeps, ResolveFailsKeeps, WakeKeeps,
     CreateKeeps, CreateFailsKeeps, CheckedKeeps, ConcludeKeeps, ConfirmFailsKeeps,
     CheckFailsKeeps, CleanKeeps
<1> QED
  BY <1>1, <1>2, StepCases, DecayKeeps, UpgradeKeeps

LEMMA StutterKeeps ==
    ASSUME Inv, UNCHANGED vars
    PROVE  Inv'
<1>0. Types /\ Locks /\ OfItsImage /\ Asking /\ Scoped /\ Working /\ Listed
  BY DEF Inv
<1>1. DockerTyped
  BY <1>0 DEF vars, DockerTyped, SameIds, Types, Known, Existing
<1>2. harness' \in [version : 1 .. MaxHarness, rebuild : BOOLEAN]
  BY <1>0 DEF vars, Types
<1>3. harness.version <= harness'.version
  BY <1>0 DEF vars, Types
<1> QED
  BY <1>1, <1>2, <1>3, AroundKeeps DEF vars

LEMMA Invariant ==
    ASSUME ~Deaths
    PROVE  Spec => []Inv
<1>1. Init => Inv
  BY InitInv
<1>2. Inv /\ [Next]_vars => Inv'
  BY NextKeeps, StutterKeeps
<1> QED
  BY <1>1, <1>2, PTL DEF Spec

-----------------------------------------------------------------------------
\* The type invariant.

\* A helper that may still try has not used up its attempts.
Bounds ==
    /\ \A h \in Helpers :
          /\ helper[h].tries \in 0 .. Retries
          /\ helper[h].pc # "failed" => helper[h].tries < Retries
    /\ harness.rebuild \in Rebuilds
    /\ faults \in 0 .. MaxFaults

LEMMA BoundsStay ==
    ASSUME Inv, Bounds, ~Deaths, Next
    PROVE  Bounds'
<1>1. helper \in [Helpers -> HelperRecords] /\ Retries \in Nat \ {0}
  BY RuntimeAssumption DEF Inv, Types
<1>2. faults' \in 0 .. MaxFaults
  <2>1. faults' = faults \/ Fault
    BY StepCases, Zenon
    DEF Take, Use, Lose, Cleanup, Close, Identify, FailEarly, ResolveName, ResolveFails, Wake,
        Create, CreateFails, Checked, Conclude, ConfirmFails, CheckFails, Clean, Decay, Upgrade,
        NoFault
  <2> QED
    BY <2>1, RuntimeAssumption DEF Bounds, Fault
<1>3. harness'.rebuild \in Rebuilds
  <2>1. harness' = harness \/ harness' = [harness EXCEPT !.version = @ + 1]
    BY StepCases, Zenon
    DEF Take, Use, Lose, Cleanup, Close, Identify, FailEarly, ResolveName, ResolveFails, Wake,
        Create, CreateFails, Checked, Conclude, ConfirmFails, CheckFails, Clean, Decay, Upgrade
  <2> QED
    BY <2>1 DEF Bounds, Inv, Types
<1>4. ASSUME NEW h \in Helpers
      PROVE  \/ helper'[h].tries = helper[h].tries /\ helper[h].pc # "failed"
             \/ helper'[h] = helper[h]
             \/ helper'[h].tries = 0
             \/ /\ helper'[h].tries = helper[h].tries + 1 /\ helper[h].pc = "creating"
                /\ helper'[h].pc # "failed" => helper[h].tries + 1 < Retries
  <2>1. ASSUME NEW w \in Workers,
               (\E i \in Instances : Take(w, i)) \/ Use(w) \/ Lose(w) \/ Cleanup(w) \/ Close(w)
        PROVE  helper'[h] = helper[h] \/ helper'[h].tries = 0
    <3>1. ASSUME NEW i \in Instances, Take(w, i)
          PROVE  helper'[h] = helper[h] \/ helper'[h].tries = 0
      <4>1. PICK g \in Helpers : helper' = [helper EXCEPT ![g] = [Free EXCEPT !.pc = "launched",
                                               !.inst = i, !.dir = w, !.parent = w]]
        BY <3>1 DEF Take
      <4>2. [Free EXCEPT !.pc = "launched", !.inst = i, !.dir = w, !.parent = w].tries = 0
        BY DEF Free
      <4> QED
        BY <1>1, <4>1, <4>2
    <3>2. CASE Use(w) \/ Lose(w)
      <4>1. helper' = [helper EXCEPT ![worker[w].by] = Free]
        BY <3>2 DEF Use, Lose
      <4> QED
        BY <1>1, <4>1 DEF Free
    <3>3. CASE Cleanup(w) \/ Close(w)
      BY <3>3 DEF Cleanup, Close
    <3> QED
      BY <2>1, <3>1, <3>2, <3>3
  <2>2. ASSUME NEW g \in Helpers, CreateFails(g)
        PROVE  \/ helper'[h] = helper[h]
               \/ /\ helper'[h].tries = helper[h].tries + 1 /\ helper[h].pc = "creating"
                  /\ helper'[h].pc # "failed" => helper[h].tries + 1 < Retries
    BY <1>1, <2>2 DEF CreateFails
  <2>3. ASSUME NEW g \in Helpers,
               \/ Identify(g) \/ FailEarly(g) \/ ResolveName(g) \/ ResolveFails(g) \/ Wake(g)
               \/ Create(g) \/ Checked(g) \/ Conclude(g) \/ ConfirmFails(g) \/ CheckFails(g)
               \/ Clean(g)
        PROVE  \/ helper'[h] = helper[h]
               \/ helper'[h].tries = helper[h].tries /\ helper[h].pc # "failed"
    <3>1. CASE Identify(g)
      BY <1>1, <3>1 DEF Identify
    <3>2. CASE ResolveName(g)
      BY <1>1, <3>2 DEF ResolveName
    <3>3. CASE Create(g)
      BY <1>1, <3>3 DEF Create
    <3>4. ASSUME NEW q, Step(g, q), helper[g].pc # "failed"
          PROVE  \/ helper'[h] = helper[h]
                 \/ helper'[h].tries = helper[h].tries /\ helper[h].pc # "failed"
      BY <1>1, <3>4 DEF Step
    <3>5. CASE FailEarly(g) \/ ResolveFails(g) \/ Wake(g) \/ Checked(g) \/ Clean(g)
      <4>1. helper[g].pc # "failed"
        BY <3>5 DEF FailEarly, ResolveFails, Wake, Checked, Clean
      <4>2. \E q : Step(g, q)
        BY <3>5, Zenon DEF FailEarly, ResolveFails, Wake, Checked, Clean
      <4> QED
        BY <3>4, <4>1, <4>2
    <3>6. CASE Conclude(g) \/ ConfirmFails(g) \/ CheckFails(g)
      <4>1. helper[g].pc # "failed"
        BY <3>6 DEF Conclude, ConfirmFails, CheckFails
      <4>2. \E q : Step(g, q)
        BY <3>6, Zenon DEF Conclude, ConfirmFails, CheckFails
      <4> QED
        BY <3>4, <4>1, <4>2
    <3> QED
      BY <2>3, <3>1, <3>2, <3>3, <3>5, <3>6
  <2>4. Decay \/ Upgrade => helper' = helper
    BY DEF Decay, Upgrade
  <2> QED
    BY <2>1, <2>2, <2>3, <2>4, StepCases, Zenon
<1>5. ASSUME NEW h \in Helpers
      PROVE  /\ helper'[h].tries \in 0 .. Retries
             /\ helper'[h].pc # "failed" => helper'[h].tries < Retries
  BY <1>1, <1>4 DEF Bounds
<1> QED
  BY <1>2, <1>3, <1>5 DEF Bounds

\* The types of the registry, of the containers, of workers and of helpers: a helper
\* makes at most BRT_OFFICIAL_BUILD_RETRIES attempts.
THEOREM TypeCorrect ==
    ASSUME ~Deaths
    PROVE  Spec => []TypeOK
<1>1. Init => Bounds
  BY RuntimeAssumption DEF Init, Free, Bounds
<1>2. Inv /\ Bounds /\ [Next]_vars => Bounds'
  BY BoundsStay DEF vars, Bounds
<1>3. Inv /\ Bounds => TypeOK
  BY DEF Inv, Types, Locks, Bounds, TypeOK, WorkerRecords, HelperRecords, HelperPoints, ContainerStates
<1> QED
  BY <1>1, <1>2, <1>3, Invariant, PTL DEF Spec

-----------------------------------------------------------------------------
\* What it says of the containers.

\* As long as no worker is killed, no container is ever used by two workers: what
\* resolve() of official_container_registry.py hands out is nobody else's, whatever
\* the registry shared before, and the lock of an instance keeps its other workers
\* out.
THEOREM ContainersAreExclusive ==
    ASSUME ~Deaths
    PROVE  Spec => []NeverShared
<1>1. Inv => NeverShared
  <2> SUFFICES ASSUME Inv, NEW v \in Workers, NEW w \in Workers, v # w,
                      worker[v].pc = "using", worker[w].pc = "using"
               PROVE  worker[v].name # worker[w].name
    BY DEF NeverShared
  <2> DEFINE i == worker[v].inst  j == worker[w].inst
  <2>1. i \in Instances /\ j \in Instances /\ i # j
    BY DEF Inv, Locks
  <2>2. /\ worker[v].name = entries[i] /\ Leads(entries, i)
        /\ worker[w].name = entries[j] /\ Leads(entries, j)
    BY DEF Inv, Working
  <2>3. i \in Nat /\ j \in Nat
    BY <2>1, RegistryAssumption
  <2> HIDE DEF i, j
  <2>4. entries[i] # entries[j]
    <3> SUFFICES ASSUME entries[i] = entries[j]
                 PROVE  FALSE
      OBVIOUS
    <3>1. i <= j /\ j <= i
      BY <2>1, <2>2 DEF Leads
    <3> QED
      BY <2>1, <2>3, <3>1
  <2> QED
    BY <2>2, <2>4
<1> QED
  BY <1>1, Invariant, PTL

\* Only resolve() changes the registry: confirm() finds what it would write.
LEMMA RegistryChanges ==
    ASSUME Inv, ~Deaths, Next, entries' # entries
    PROVE  \E h \in Helpers : ResolveName(h)
<1>1. ASSUME NEW h \in Helpers, Conclude(h)
      PROVE  entries' = entries
  BY <1>1, ConcludeIs DEF Moves
<1>2. ASSUME NEW w \in Workers,
             (\E i \in Instances : Take(w, i)) \/ Use(w) \/ Lose(w) \/ Cleanup(w) \/ Close(w)
      PROVE  entries' = entries
  BY <1>2 DEF Take, Use, Lose, Cleanup, Close
<1>3. ASSUME NEW h \in Helpers,
             \/ Identify(h) \/ FailEarly(h) \/ ResolveFails(h) \/ Wake(h) \/ Create(h)
             \/ CreateFails(h) \/ Checked(h) \/ ConfirmFails(h) \/ CheckFails(h) \/ Clean(h)
      PROVE  entries' = entries
  BY <1>3 DEF Identify, FailEarly, ResolveFails, Wake, Create, CreateFails, Checked,
              ConfirmFails, CheckFails, Clean
<1>4. Decay \/ Upgrade => entries' = entries
  BY DEF Decay, Upgrade
<1> QED
  BY <1>1, <1>2, <1>3, <1>4, StepCases, Zenon

\* As long as no worker is killed, two instances that are registered for different
\* containers stay so: resolve() of official_container_registry.py never registers
\* another's name, nor one it has just made for somebody.
THEOREM OwnersStay ==
    ASSUME ~Deaths
    PROVE  Spec => OwnershipExclusive
<1> DEFINE Apart == \A i, j \in Instances :
                        i # j /\ entries[i] # entries[j]
                            => entries'[i] # entries'[j] \/ entries'[i] = None
<1>1. Inv /\ [Next]_vars => [Apart]_vars
  <2> SUFFICES ASSUME Inv, Next
               PROVE  Apart
    OBVIOUS
  <2>1. CASE entries' = entries
    BY <2>1
  <2>2. CASE entries' # entries
    <3>1. PICK h \in Helpers : ResolveName(h)
      BY <2>2, RegistryChanges
    <3> DEFINE k == helper[h].inst
    <3>2. PICK name \in Names, p \in {"waking", "creating"} : Resolved(h, name, p)
      BY <3>1, ResolveIs
    <3>3. /\ k \in Instances /\ Settled(k, helper[h].image, name)
          /\ entries' = [entries EXCEPT ![k] = name]
      BY <3>2 DEF Resolved
    <3> HIDE DEF k
    <3>4. /\ entries'[k] = name
          /\ \A j \in Instances \ {k} : entries'[j] = entries[j]
          /\ name # entries[k] => \A j \in Instances : entries[j] # name
      BY <3>3, ReservedIsOwn DEF Inv
    <3> QED
      BY <3>4
  <2> QED
    BY <2>1, <2>2
<1>2. Spec => []Inv
  BY Invariant
<1> QED
  BY <1>1, <1>2, PTL DEF Spec, OwnershipExclusive

\* A container in use is not one that is the own of another instance.
LEMMA UsedIsNot ==
    ASSUME Inv, NEW w \in Workers, worker[w].pc = "using",
           NEW i \in Instances, i # worker[w].inst, Leads(entries, i)
    PROVE  worker[w].name # entries[i]
<1> DEFINE j == worker[w].inst
<1>1. j \in Instances /\ worker[w].name = entries[j] /\ Leads(entries, j)
  BY DEF Inv, Locks, Working
<1>2. i \in Nat /\ j \in Nat
  BY <1>1, RegistryAssumption
<1> HIDE DEF j
<1>3. i # j
  BY DEF j
<1>4. entries[i] # entries[j]
  <2> SUFFICES ASSUME entries[i] = entries[j]
               PROVE  FALSE
    OBVIOUS
  <2>1. i <= j /\ j <= i
    BY <1>1 DEF Leads
  <2> QED
    BY <1>2, <1>3, <2>1
<1> QED
  BY <1>1, <1>4

\* Nothing happens to a container.
Spared(n) == n \in Existing' /\ docker'[n] = docker[n]

LEMMA HelperSpares ==
    ASSUME Inv, NEW w \in Workers, worker[w].pc = "using", worker[w].name \in Existing,
           NEW h \in Helpers,
           \/ ResolveName(h) \/ Wake(h) \/ Create(h) \/ CreateFails(h) \/ Clean(h)
    PROVE  Spared(worker[w].name)
<1> DEFINE n == worker[w].name
<1>0. Types /\ Locks
  BY DEF Inv
<1>1. helper[h].pc # "free"
  BY DEF ResolveName, Wake, Create, CreateFails, Clean
<1>2. helper[h].inst \in Instances /\ helper[h].inst # worker[w].inst
  <2>1. w # helper[h].dir
    BY <1>0, <1>1, JobOf
  <2> QED
    BY <1>0, <1>1, <2>1, JobOf, JobsDiffer
<1>3. helper[h].pc \in WorkPoints => helper[h].name # n
  BY <1>2, WorkNameIs, UsedIsNot
<1>4. ASSUME ResolveName(h)
      PROVE  Spared(n)
  <2> DEFINE i == helper[h].inst
  <2>1. PICK name \in Names, dead \in SUBSET Existing :
            /\ Settled(i, helper[h].image, name) /\ docker' = Without(dead)
            /\ dead # {} => dead = {name} /\ name = entries[i]
    <3>1. PICK name \in Names, p \in {"waking", "creating"} : Resolved(h, name, p)
      BY <1>4, ResolveIs
    <3> QED
      BY <3>1 DEF Resolved
  <2>2. n \notin dead
    <3> SUFFICES ASSUME n \in dead
                 PROVE  FALSE
      OBVIOUS
    <3>1. n = name /\ name = entries[i]
      BY <2>1
    <3>2. n \in Names /\ n # None
      BY <2>1, <3>1, RegistryAssumption
    <3>3. \A j \in Instances : entries[j] = n => i <= j
      BY <1>2, <2>1, <3>1, NotForeign DEF Settled
    <3>4. Leads(entries, i)
      BY <3>1, <3>2, <3>3 DEF Leads
    <3> QED
      BY <1>2, <3>1, <3>4, UsedIsNot
  <2>3. /\ Existing' = Existing \ dead
        /\ \A m \in Existing' : docker'[m] = docker[m]
    BY <1>0, <2>1, RemovalIs
  <2> QED
    BY <2>2, <2>3 DEF Spared
<1>5. ASSUME Wake(h)
      PROVE  Spared(n)
  <2>1. /\ helper[h].pc = "waking" /\ helper[h].name \in Existing
        /\ docker' = [docker EXCEPT ![helper[h].name].state = "running"]
    BY <1>5 DEF Wake, Alive
  <2>2. Existing' = Existing /\ \A m \in Existing \ {helper[h].name} : docker'[m] = docker[m]
    BY <1>0, <2>1, StateChangeIs DEF ContainerStates
  <2> QED
    BY <1>3, <2>1, <2>2 DEF Spared, WorkPoints
<1>6. ASSUME Create(h)
      PROVE  Spared(n)
  <2>1. /\ helper[h].pc = "creating" /\ helper[h].name \notin Existing
        /\ docker' = With(helper[h].name, [state |-> "running", id |-> NewId])
    BY <1>6 DEF Create
  <2>2. helper[h].name \in Known
    BY <2>1, WorkNameIs DEF WorkPoints
  <2>3. /\ Existing' = Existing \cup {helper[h].name}
        /\ \A m \in Existing : docker'[m] = docker[m]
    BY <1>0, <2>1, <2>2, AdditionIs
  <2> QED
    BY <2>3 DEF Spared
<1>7. ASSUME CreateFails(h)
      PROVE  Spared(n)
  <2>1. helper[h].pc = "creating" /\ docker' = Without({helper[h].name})
    BY <1>7 DEF CreateFails
  <2>2. /\ Existing' = Existing \ {helper[h].name}
        /\ \A m \in Existing' : docker'[m] = docker[m]
    BY <1>0, <2>1, RemovalIs
  <2> QED
    BY <1>3, <2>1, <2>2 DEF Spared, WorkPoints
<1>8. ASSUME Clean(h)
      PROVE  Spared(n)
  <2> DEFINE names == IF helper[h].own THEN Target(helper[h]) ELSE {}
  <2>1. helper[h].pc = "failing" /\ docker' = Without(names)
    BY <1>8 DEF Clean
  <2>2. n \notin names
    BY <1>3, <2>1 DEF Target, WorkPoints
  <2> HIDE DEF names
  <2>3. Existing' = Existing \ names /\ \A m \in Existing' : docker'[m] = docker[m]
    BY <1>0, <2>1, RemovalIs
  <2> QED
    BY <2>2, <2>3 DEF Spared
<1> QED
  BY <1>4, <1>5, <1>6, <1>7, <1>8

LEMMA WorkerSpares ==
    ASSUME Inv, ~EarlyFailure, NEW w \in Workers, worker[w].pc = "using",
           worker[w].name \in Existing, NEW v \in Workers, v # w, Cleanup(v) \/ Close(v)
    PROVE  Spared(worker[w].name)
<1> DEFINE n == worker[w].name
<1>0. Types /\ Locks
  BY DEF Inv
<1>1. worker[v].pc # "idle" /\ worker[v].inst \in Instances /\ worker[v].inst # worker[w].inst
  <2>1. worker[v].pc # "idle"
    BY DEF Cleanup, Close
  <2> QED
    BY <1>0, <2>1 DEF Locks
<1>2. ASSUME Cleanup(v)
      PROVE  Spared(n)
  <2> DEFINE names == lifecycle[v][worker[v].inst]
  <2>1. worker[v].pc = "cleaning" /\ docker' = Without(names)
    BY <1>2 DEF Cleanup
  <2>2. ListsOwn(v)
    BY <2>1 DEF Inv, Listed, Current
  <2>3. n \notin names
    BY <1>1, <2>2, UsedIsNot DEF ListsOwn
  <2> HIDE DEF names
  <2>4. Existing' = Existing \ names /\ \A m \in Existing' : docker'[m] = docker[m]
    BY <1>0, <2>1, RemovalIs
  <2> QED
    BY <2>3, <2>4 DEF Spared
<1>3. ASSUME Close(v)
      PROVE  Spared(n)
  <2>1. /\ worker[v].pc = "using" /\ worker[v].name = entries[worker[v].inst]
        /\ Leads(entries, worker[v].inst)
    BY <1>3 DEF Close, Inv, Working
  <2>2. n # worker[v].name
    BY <1>1, <2>1, UsedIsNot
  <2> QED
    BY <1>0, <1>3, <2>2, CloseIs DEF Spared
<1> QED
  BY <1>2, <1>3

\* As long as no worker is killed and helpers write their lifecycle file before they
\* can fail, a container in use is removed, stopped or replaced by nobody: not by
\* the removal of a dead container in resolve(), nor by retries of the creation,
\* the exception handler of a helper, or the _cleanup_failed_startup() and close()
\* of another worker.
THEOREM UsersAreUndisturbed ==
    ASSUME ~Deaths, ~EarlyFailure
    PROVE  Spec => InUseUndisturbed
<1> DEFINE Peace == \A w \in Workers :
               worker[w].pc = "using" /\ worker'[w].pc = "using" /\ Alive(worker[w])
                   => Alive(worker[w])' /\ docker'[worker[w].name] = docker[worker[w].name]
<1>1. Inv /\ [Next]_vars => [Peace]_vars
  <2> SUFFICES ASSUME Inv, Next, NEW w \in Workers,
                      worker[w].pc = "using", worker'[w].pc = "using", Alive(worker[w])
               PROVE  Alive(worker[w])' /\ docker'[worker[w].name] = docker[worker[w].name]
    OBVIOUS
  <2> DEFINE n == worker[w].name
  <2>0. n \in Existing /\ docker[n].id = worker[w].id
    BY DEF Alive
  <2>1. Spared(n) /\ worker'[w] = worker[w]
    <3>1. ASSUME NEW v \in Workers, NEW i \in Instances, Take(v, i)
          PROVE  Spared(n) /\ worker'[w] = worker[w]
      <4>1. v # w
        BY <3>1 DEF Take, Idle
      <4> QED
        BY <2>0, <3>1, <4>1 DEF Take, Spared, Existing, Inv, Types
    <3>2. ASSUME NEW v \in Workers, Use(v) \/ Lose(v)
          PROVE  Spared(n) /\ worker'[w] = worker[w]
      <4>1. v # w
        BY <3>2 DEF Use, Lose
      <4> QED
        BY <2>0, <3>2, <4>1 DEF Use, Lose, Spared, Existing, Inv, Types
    <3>3. ASSUME NEW v \in Workers, Cleanup(v) \/ Close(v)
          PROVE  Spared(n) /\ worker'[w] = worker[w]
      <4>1. v # w
        <5>1. worker' = [worker EXCEPT ![v] = Idle]
          BY <3>3 DEF Cleanup, Close
        <5>2. v = w => worker'[w] = Idle
          BY <5>1 DEF Inv, Types
        <5> QED
          BY <5>2 DEF Idle
      <4>2. worker'[w] = worker[w]
        BY <3>3, <4>1 DEF Cleanup, Close, Inv, Types
      <4> QED
        BY <2>0, <3>3, <4>1, <4>2, WorkerSpares
    <3>4. ASSUME NEW h \in Helpers,
                 \/ ResolveName(h) \/ Wake(h) \/ Create(h) \/ CreateFails(h) \/ Clean(h)
          PROVE  Spared(n) /\ worker'[w] = worker[w]
      <4>1. worker' = worker
        BY <3>4 DEF ResolveName, Wake, Create, CreateFails, Clean
      <4> QED
        BY <2>0, <3>4, <4>1, HelperSpares
    <3>5. ASSUME NEW h \in Helpers,
                 \/ Identify(h) \/ FailEarly(h) \/ ResolveFails(h) \/ Checked(h)
                 \/ ConfirmFails(h) \/ CheckFails(h)
          PROVE  Spared(n) /\ worker'[w] = worker[w]
      <4>1. docker' = docker /\ worker' = worker
        BY <3>5 DEF Identify, FailEarly, ResolveFails, Checked, ConfirmFails, CheckFails
      <4> QED
        BY <2>0, <4>1 DEF Spared, Existing
    <3>6. ASSUME NEW h \in Helpers, Conclude(h)
          PROVE  Spared(n) /\ worker'[w] = worker[w]
      BY <2>0, <3>6, ConcludeIs DEF Moves, Spared, Existing
    <3>7. ASSUME Decay
          PROVE  Spared(n) /\ worker'[w] = worker[w]
      <4>1. PICK m \in Existing :
                /\ \A v \in Workers : worker[v].name # m
                /\ docker' = [docker EXCEPT ![m].state = "dead"]
        BY <3>7 DEF Decay
      <4>2. Existing' = Existing /\ \A x \in Existing \ {m} : docker'[x] = docker[x]
        BY <4>1, StateChangeIs DEF ContainerStates, Inv
      <4>3. n # m
        BY <4>1
      <4> QED
        BY <2>0, <3>7, <4>2, <4>3 DEF Spared, Decay
    <3>8. ASSUME Upgrade
          PROVE  Spared(n) /\ worker'[w] = worker[w]
      BY <2>0, <3>8 DEF Upgrade, Spared, Existing
    <3> QED
      BY <3>1, <3>2, <3>3, <3>4, <3>5, <3>6, <3>7, <3>8, StepCases
  <2>2. Alive(worker[w])'
    BY <2>0, <2>1 DEF Alive, Spared
  <2> QED
    BY <2>1, <2>2 DEF Spared
<1>2. Spec => []Inv
  BY Invariant
<1> QED
  BY <1>1, <1>2, PTL DEF Spec, InUseUndisturbed

-----------------------------------------------------------------------------
\* Lifecycle files of earlier startups, as long as images are not rebuilt: what a
\* file lists is still the instance's registered container, because a helper that
\* does not rebuild asks for the registered one.
Remembered ==
    /\ ~harness.rebuild
    /\ \A h \in Helpers :
          helper[h].pc = "resolving" /\ entries[helper[h].inst] # None
              => helper[h].name = entries[helper[h].inst]
    /\ \A w \in Workers, i \in Instances :
          \A n \in lifecycle[w][i] : entries[i] = n /\ Leads(entries, i)

\* The first owner of a container is no stranger to it.
LEMMA LeaderIsNotForeign ==
    ASSUME Types, NEW i \in Instances, Leads(entries, i)
    PROVE  ~Foreign(entries[i], i)
<1>1. i \in Owners(entries[i])
  BY DEF Owners
<1>2. FirstOwner(entries[i]) \in Owners(entries[i]) /\ FirstOwner(entries[i]) <= i
  BY <1>1, FirstOwnerIs
<1>3. FirstOwner(entries[i]) \in Instances /\ i <= FirstOwner(entries[i])
  BY <1>2 DEF Owners, Leads
<1>4. FirstOwner(entries[i]) \in Nat /\ i \in Nat
  BY <1>3, RegistryAssumption
<1>5. FirstOwner(entries[i]) = i
  BY <1>2, <1>3, <1>4
<1> QED
  BY <1>5 DEF Foreign

LEMMA LifecycleRows ==
    ASSUME Types, Locks, NEW h \in Helpers, helper[h].pc # "free",
           NEW names \in SUBSET Names, LifecycleOf(h, names)
    PROVE  \A w \in Workers, i \in Instances :
               lifecycle'[w][i] = IF w = helper[h].dir /\ i = helper[h].inst
                                  THEN names ELSE lifecycle[w][i]
<1>1. helper[h].dir \in Workers /\ helper[h].inst \in Instances
  BY JobOf
<1>2. lifecycle \in [Workers -> [Instances -> SUBSET Names]]
  BY DEF Types
<1> QED
  BY <1>1, <1>2 DEF LifecycleOf

LEMMA IdentifyRemembers ==
    ASSUME Inv, Remembered, NEW h \in Helpers, Identify(h)
    PROVE  Remembered'
<1> DEFINE i == helper[h].inst
<1>0. Types /\ Locks
  BY DEF Inv
<1>1. /\ helper[h].pc = "launched" /\ LifecycleOf(h, {})
      /\ UNCHANGED <<entries, docker, harness, worker>>
  BY DEF Identify, LifecycleOf
<1>2. \A g \in Helpers \ {h} : helper'[g] = helper[g]
  BY <1>0 DEF Identify, Types
<1>3. entries[i] # None => helper'[h].name = entries[i]
  BY <1>0 DEF Identify, Types, Remembered, HelperRecords
<1>4. helper'[h].inst = i
  BY <1>0 DEF Identify, Types, HelperRecords
<1>5. \A w \in Workers, j \in Instances : lifecycle'[w][j] \subseteq lifecycle[w][j]
  BY <1>0, <1>1, LifecycleRows
<1> HIDE DEF i
<1>6. ASSUME NEW g \in Helpers, helper'[g].pc = "resolving", entries[helper'[g].inst] # None
      PROVE  helper'[g].name = entries[helper'[g].inst]
  BY <1>2, <1>3, <1>4, <1>6 DEF Remembered
<1> QED
  BY <1>1, <1>5, <1>6 DEF Remembered

LEMMA ResolveRemembers ==
    ASSUME Inv, Remembered, NEW h \in Helpers, ResolveName(h)
    PROVE  Remembered'
<1> DEFINE i == helper[h].inst  image == helper[h].image
<1>0. Types /\ Locks /\ Asking
  BY DEF Inv
<1>a. PICK name \in Names, p \in {"waking", "creating"} : Resolved(h, name, p)
  BY ResolveIs
<1> DEFINE names == IF p = "waking" THEN {} ELSE {name}
<1>1. /\ helper[h].pc = "resolving" /\ i \in Instances /\ Settled(i, image, name)
      /\ entries' = [entries EXCEPT ![i] = name]
      /\ HelperOnly(h) /\ helper'[h].pc = p
      /\ LifecycleOf(h, names)
  BY <1>a DEF Resolved
<1> HIDE DEF i, image, names
<1>2. /\ entries'[i] = name /\ Leads(entries', i)
      /\ \A j \in Instances \ {i} : entries'[j] = entries[j]
      /\ \A j \in Instances : Leads(entries, j) /\ j # i => Leads(entries', j)
  <2>1. i \in Instances /\ Settled(i, image, name) /\ entries' = [entries EXCEPT ![i] = name]
    BY <1>1
  <2> QED
    BY <1>0, <2>1, ReservedIsOwn
<1>3. entries[i] # None => helper[h].name = entries[i] /\ image = entries[i].image
  BY <1>0, <1>1 DEF Remembered, Asking, Asked, i, image
<1>4. Leads(entries, i) => name = entries[i]
  <2>1. Leads(entries, i) => Kept(i, image)
    BY <1>0, <1>1, <1>3, LeaderIsNotForeign DEF Leads, Kept
  <2> QED
    BY <1>1, <2>1 DEF Settled
<1>5. helper[h].pc # "free" /\ \A g \in Helpers : g # h /\ helper[g].pc # "free"
                                  => helper[g].inst # i /\ helper[g].inst \in Instances
  <2>1. helper[h].pc # "free"
    BY <1>1
  <2> QED
    BY <1>0, <2>1, JobsDiffer, JobOf DEF i
<1>6. \A w \in Workers, j \in Instances : lifecycle'[w][j] =
          IF w = helper[h].dir /\ j = i THEN names ELSE lifecycle[w][j]
  <2>1. names \in SUBSET Names
    BY DEF names
  <2> QED
    BY <1>0, <1>1, <1>5, <2>1, LifecycleRows DEF i
<1>7. ASSUME NEW g \in Helpers, helper'[g].pc = "resolving", entries'[helper'[g].inst] # None
      PROVE  helper'[g].name = entries'[helper'[g].inst]
  <2>1. g # h
    BY <1>1, <1>7
  <2>2. helper'[g] = helper[g]
    BY <1>1, <2>1 DEF HelperOnly
  <2>3. helper[g].inst # i /\ helper[g].inst \in Instances
    BY <1>5, <1>7, <2>1, <2>2
  <2> QED
    BY <1>2, <1>7, <2>2, <2>3 DEF Remembered
<1>8. ASSUME NEW w \in Workers, NEW j \in Instances, NEW n \in lifecycle'[w][j]
      PROVE  entries'[j] = n /\ Leads(entries', j)
  <2>1. CASE w = helper[h].dir /\ j = i
    BY <1>2, <1>6, <1>8, <2>1 DEF names
  <2>2. CASE ~(w = helper[h].dir /\ j = i)
    <3>1. entries[j] = n /\ Leads(entries, j)
      BY <1>6, <1>8, <2>2 DEF Remembered
    <3> QED
      BY <1>2, <1>4, <3>1
  <2> QED
    BY <2>1, <2>2
<1>9. harness' = harness
  BY <1>1 DEF HelperOnly
<1> QED
  BY <1>7, <1>8, <1>9 DEF Remembered

\* Any other step leaves registry and files, and who is about to resolve.
LEMMA Quiet ==
    ASSUME Remembered, harness'.rebuild = harness.rebuild, UNCHANGED <<entries, lifecycle>>,
           \A h \in Helpers : helper'[h].pc = "resolving" => helper'[h] = helper[h]
    PROVE  Remembered'
BY DEF Remembered

LEMMA StepsRemember ==
    ASSUME Inv, Remembered, ~Deaths, Next
    PROVE  Remembered'
<1>0. Types /\ helper \in [Helpers -> HelperRecords]
  BY DEF Inv, Types
<1>1. ASSUME NEW w \in Workers,
             (\E i \in Instances : Take(w, i)) \/ Use(w) \/ Lose(w) \/ Cleanup(w) \/ Close(w)
      PROVE  Remembered'
  <2>1. UNCHANGED <<entries, lifecycle, harness>>
    BY <1>1 DEF Take, Use, Lose, Cleanup, Close
  <2>2. \/ helper' = helper
        \/ \E h \in Helpers : \E r : helper' = [helper EXCEPT ![h] = r] /\ r.pc # "resolving"
    <3>1. CASE \E i \in Instances : Take(w, i)
      <4>1. PICK i \in Instances : Take(w, i)
        BY <3>1
      <4>2. PICK h \in Helpers :
              helper' = [helper EXCEPT ![h] = [Free EXCEPT !.pc = "launched", !.inst = i,
                                                           !.dir = w, !.parent = w]]
        BY <4>1 DEF Take
      <4>3. [Free EXCEPT !.pc = "launched", !.inst = i, !.dir = w, !.parent = w].pc = "launched"
        BY DEF Free
      <4> QED
        BY <4>2, <4>3
    <3>2. CASE Use(w) \/ Lose(w)
      <4>1. worker[w].pc = "starting" /\ helper' = [helper EXCEPT ![worker[w].by] = Free]
        BY <3>2 DEF Use, Lose
      <4>2. worker[w].by \in Helpers
        BY <4>1 DEF Inv, Locks
      <4>3. Free.pc # "resolving"
        BY DEF Free
      <4> QED
        BY <4>1, <4>2, <4>3
    <3>3. CASE Cleanup(w) \/ Close(w)
      BY <3>3 DEF Cleanup, Close
    <3> QED
      BY <1>1, <3>1, <3>2, <3>3
  <2>3. \A h \in Helpers : helper'[h].pc = "resolving" => helper'[h] = helper[h]
    BY <1>0, <2>2
  <2> QED
    BY <2>1, <2>3, Quiet
<1>2. ASSUME NEW h \in Helpers, Conclude(h)
      PROVE  Remembered'
  <2>1. entries' = entries
    BY <1>2, ConcludeIs DEF Moves
  <2>2. \A g \in Helpers : helper'[g].pc = "resolving" => helper'[g] = helper[g]
    BY <1>0, <1>2 DEF Conclude, Step
  <2> QED
    BY <1>2, <2>1, <2>2, Quiet DEF Conclude
<1>3. ASSUME NEW h \in Helpers,
             \/ FailEarly(h) \/ ResolveFails(h) \/ Wake(h) \/ Create(h)
             \/ CreateFails(h) \/ Checked(h) \/ ConfirmFails(h) \/ CheckFails(h) \/ Clean(h)
      PROVE  Remembered'
  <2>1. UNCHANGED <<entries, lifecycle, harness>>
    BY <1>3 DEF FailEarly, ResolveFails, Wake, Create, CreateFails, Checked, ConfirmFails,
                CheckFails, Clean
  <2>2. /\ \A g \in Helpers \ {h} : helper'[g] = helper[g]
        /\ helper'[h].pc # "resolving"
    <3>1. ASSUME NEW p \in {"failed", "failing", "confirming", "checking"}, Step(h, p)
          PROVE  /\ \A g \in Helpers \ {h} : helper'[g] = helper[g]
                 /\ helper'[h].pc # "resolving"
      BY <1>0, <3>1, StepIs DEF HelperPoints
    <3>2. CASE \/ FailEarly(h) \/ ResolveFails(h) \/ Wake(h) \/ Checked(h)
               \/ ConfirmFails(h) \/ CheckFails(h) \/ Clean(h)
      BY <3>1, <3>2 DEF FailEarly, ResolveFails, Wake, Checked, ConfirmFails,
                        CheckFails, Clean, Started
    <3>3. CASE Create(h)
      BY <1>0, <3>3 DEF Create, Started, HelperRecords
    <3>4. CASE CreateFails(h)
      BY <1>0, <3>4 DEF CreateFails, HelperRecords
    <3> QED
      BY <1>3, <3>2, <3>3, <3>4
  <2>3. \A g \in Helpers : helper'[g].pc = "resolving" => helper'[g] = helper[g]
    BY <2>2
  <2> QED
    BY <2>1, <2>3, Quiet
<1>4. ASSUME Decay \/ Upgrade
      PROVE  Remembered'
  <2>1. UNCHANGED <<entries, lifecycle, helper>> /\ harness'.rebuild = harness.rebuild
    BY <1>0, <1>4 DEF Decay, Upgrade, Types
  <2> QED
    BY <2>1, Quiet
<1> QED
  BY <1>1, <1>2, <1>3, <1>4, IdentifyRemembers, ResolveRemembers, StepCases

LEMMA InitRemembers ==
    ASSUME Init
    PROVE  Rebuilds = {FALSE} => Remembered
<1>1. harness \in [version : {1}, rebuild : Rebuilds]
  BY DEF Init
<1>2. helper = [h \in Helpers |-> Free] /\ lifecycle = [w \in Workers |-> [i \in Instances |-> {}]]
  BY DEF Init
<1>3. Free.pc # "resolving"
  BY DEF Free
<1>4. Rebuilds = {FALSE} => ~harness.rebuild
  <2>1. harness.rebuild \in Rebuilds
    BY <1>1
  <2> QED
    BY <2>1
<1>5. \A h \in Helpers : helper[h].pc # "resolving"
  BY <1>2, <1>3
<1>6. \A w \in Workers, i \in Instances : lifecycle[w][i] = {}
  BY <1>2
<1> QED
  BY <1>4, <1>5, <1>6 DEF Remembered

\* As long as no worker is killed and images are not rebuilt,
\* _cleanup_failed_startup() removes no container that is another instance's, not
\* even when the helper failed before it wrote the lifecycle file and the file is
\* that of an earlier startup.
THEOREM CleanupSpares ==
    ASSUME ~Deaths, Rebuilds = {FALSE}
    PROVE  Spec => CleanupSparesOthers
<1> DEFINE Sparing == \A w \in Workers :
               worker[w].pc = "cleaning" /\ worker'[w].pc = "idle"
                   => \A n \in Existing \ DOMAIN docker' : ~Foreign(n, worker[w].inst)
<1>1. Init => Remembered
  BY InitRemembers
<1>2. Inv /\ Remembered /\ [Next]_vars => Remembered'
  BY StepsRemember, Quiet DEF vars
<1>3. Inv /\ Remembered /\ [Next]_vars => [Sparing]_vars
  <2> SUFFICES ASSUME Inv, Remembered, Next, NEW w \in Workers,
                      worker[w].pc = "cleaning", worker'[w].pc = "idle",
                      NEW n \in Existing \ DOMAIN docker'
               PROVE  ~Foreign(n, worker[w].inst)
    OBVIOUS
  <2>1. Cleanup(w)
    <3> SUFFICES ASSUME ~Cleanup(w)
                 PROVE  worker'[w].pc = worker[w].pc
      OBVIOUS
    <3>1. ASSUME NEW v \in Workers, NEW i \in Instances, Take(v, i)
          PROVE  worker'[w].pc = worker[w].pc
      <4>1. v # w
        BY <3>1 DEF Take, Idle
      <4> QED
        BY <3>1, <4>1 DEF Take, Inv, Types
    <3>2. ASSUME NEW v \in Workers, Use(v) \/ Lose(v) \/ Cleanup(v) \/ Close(v)
          PROVE  worker'[w].pc = worker[w].pc
      <4>1. v # w
        BY <3>2 DEF Use, Lose, Close
      <4> QED
        BY <3>2, <4>1 DEF Use, Lose, Cleanup, Close, Inv, Types
    <3>3. ASSUME NEW h \in Helpers,
                 \/ Identify(h) \/ FailEarly(h) \/ ResolveName(h) \/ ResolveFails(h) \/ Wake(h)
                 \/ Create(h) \/ CreateFails(h) \/ Checked(h) \/ Conclude(h) \/ ConfirmFails(h)
                 \/ CheckFails(h) \/ Clean(h)
          PROVE  worker'[w].pc = worker[w].pc
      <4>1. worker' = worker
        BY <3>3 DEF Identify, FailEarly, ResolveName, ResolveFails, Wake, Create, CreateFails,
                    Checked, Conclude, ConfirmFails, CheckFails, Clean
      <4> QED
        BY <4>1
    <3>4. Decay \/ Upgrade => worker'[w].pc = worker[w].pc
      BY DEF Decay, Upgrade
    <3> QED
      BY <3>1, <3>2, <3>3, <3>4, StepCases
  <2>2. n \in lifecycle[w][worker[w].inst]
    BY <2>1 DEF Cleanup, Without
  <2>3. worker[w].inst \in Instances /\ Types
    BY DEF Inv, Locks
  <2>4. entries[worker[w].inst] = n /\ Leads(entries, worker[w].inst)
    BY <2>2, <2>3 DEF Remembered
  <2> QED
    BY <2>3, <2>4, LeaderIsNotForeign
<1>4. Spec => []Inv
  BY Invariant
<1> QED
  BY <1>1, <1>2, <1>3, <1>4, PTL DEF Spec, CleanupSparesOthers

=============================================================================
