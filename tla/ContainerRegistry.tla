------------------------- MODULE ContainerRegistry -------------------------
(***************************************************************************)
(* src/runtime/official_container_registry.py: the file that says which     *)
(* Docker container belongs to which benchmark instance, and the decisions  *)
(* resolve() and confirm() take from it.  Both read, decide and replace the *)
(* file under one flock, so each is one step; an exception writes nothing.  *)
(*                                                                         *)
(* Several instances may have the same image.  A container's name is its    *)
(* image, the address id(spec) happened to have, and the instances whose    *)
(* ids were appended to it.                                                 *)
(***************************************************************************)
EXTENDS Naturals, Sequences, FiniteSets

CONSTANTS
    Instances,      \* numbered in the lexical order of their ids
    Groups,         \* instances of a group share their image
    GroupOf,        \* the group of an instance
    Addresses,      \* what id(spec) may be
    MaxHarness,     \* bound: versions of the harness's setup scripts
    None

Images == [group : Groups, version : 1 .. MaxHarness]
Names  == [image : Images, address : Addresses, scope : Seq(Instances)]

ASSUME RegistryAssumption ==
    /\ Instances \subseteq Nat
    /\ IsFiniteSet(Instances) /\ IsFiniteSet(Groups)
    /\ GroupOf \in [Instances -> Groups]
    /\ Addresses # {}
    /\ MaxHarness \in Nat \ {0}
    /\ None \notin Names

VARIABLES
    entries,        \* container name registered for an instance, or None
    docker          \* existing containers by name: their state and identity

\* instance_image_key and get_instance_container_name() of a harness version
ImageOf(i, version) == [group |-> GroupOf[i], version |-> version]
HarnessName(image, address) == [image |-> image, address |-> address, scope |-> << >>]

\* instance_scoped_container_name()
ScopedName(name, i) == [name EXCEPT !.scope = Append(@, i)]

Existing == DOMAIN docker

\* container_is_reusable(), of a container that has the image of its name
Reusable(name) == docker[name].state \in {"created", "running", "exited"}

Without(names) == [n \in Existing \ names |-> docker[n]]
With(name, container) ==
    [n \in Existing \cup {name} |-> IF n = name THEN container ELSE docker[n]]

Owners(name) == {i \in Instances : entries[i] = name}
FirstOwner(name) == CHOOSE i \in Owners(name) : \A j \in Owners(name) : i <= j

\* In owned_names, with another instance.
Foreign(name, i) == Owners(name) # {} /\ FirstOwner(name) # i

\* The entry stays: it is of the current image, and of several owners of its
\* container this instance is the lexically first.
Kept(i, image) ==
    entries[i] # None /\ entries[i].image = image /\ ~Foreign(entries[i], i)

\* Containers of the image that no other instance owns.
Unclaimed(i, image) == {n \in Existing : n.image = image /\ ~Foreign(n, i)}
Incompatible(i, image) == {n \in Unclaimed(i, image) : ~Reusable(n)}
Candidates(i, image) == {n \in Unclaimed(i, image) : Reusable(n)}

Resolvable(i, image) ==
    \/ Kept(i, image)
    \/ Incompatible(i, image) = {} /\ Cardinality(Candidates(i, image)) <= 1

\* Mutant: a name that another instance owns is taken all the same.
NameUnscoped(i, image, preferred) ==
    IF Kept(i, image) THEN entries[i]
    ELSE IF Candidates(i, image) # {}
         THEN CHOOSE n \in Candidates(i, image) : TRUE
         ELSE preferred

\* The name resolve() settles on ...
ResolvedName(i, image, preferred) ==
    CASE Kept(i, image)                -> entries[i]
      [] ~Kept(i, image) /\ Candidates(i, image) # {} ->
             CHOOSE n \in Candidates(i, image) : TRUE
      [] ~Kept(i, image) /\ Candidates(i, image) = {} ->
             IF Foreign(preferred, i) THEN ScopedName(preferred, i) ELSE preferred

\* ... and registers, after removing a container of its own that is beyond use.
Resolve(i, image, preferred) ==
    LET name == ResolvedName(i, image, preferred)
        dead == {n \in Existing : Kept(i, image) /\ n = name /\ ~Reusable(n)}
    IN  /\ Resolvable(i, image)
        /\ entries' = [entries EXCEPT ![i] = name]
        /\ docker' = Without(dead)

\* Mutant: an entry that resolve() has reserved is taken for a conflict.
ConfirmableNew(i, name) == \A j \in Instances : entries[j] # name

\* confirm() accepts a container nobody else has registered, for an entry that
\* has not changed since.
Confirmable(i, name) ==
    /\ \A j \in Instances \ {i} : entries[j] # name
    /\ entries[i] \in {None, name}

Confirm(i, name) ==
    /\ Confirmable(i, name)
    /\ entries' = [entries EXCEPT ![i] = name]
    /\ UNCHANGED docker
=============================================================================
