--------------------------- MODULE RegistryProofs ---------------------------
(***************************************************************************)
(* Ownership of userdata, dispatch and the lookup cache of the registry,   *)
(* for any number of functions, userdata, targets and registrations.       *)
(*                                                                         *)
(* cxpr_registry_add_struct and cxpr_registry_define_fn do not clear the   *)
(* callbacks of an entry that has some (see Registry).  What rests on      *)
(* their being called for new names says so: OverlaysNewNames.             *)
(*                                                                         *)
(* The last section is about EngineResolver: the engine that installs its  *)
(* own resolver in a host's registry and restores the host's at the end.   *)
(***************************************************************************)
EXTENDS Registry, EngineResolver, FiniteSetTheorems, TLAPS

(* Struct producers and bodies are registered under names without callbacks. *)
OverlaysNewNames ==
    \A u \in Uses : {"struct", "body"} \cap u.operations \subseteq u.newOnly

(* Two sequences, one after the other. *)
LEMMA Joined ==
    ASSUME NEW S, NEW s \in Seq(S), NEW t \in Seq(S)
    PROVE  /\ s \o t \in Seq(S) /\ Len(s \o t) = Len(s) + Len(t)
           /\ \A k \in 1 .. Len(s) + Len(t) :
                 (s \o t)[k] = IF k <= Len(s) THEN s[k] ELSE t[k - Len(s)]
  OBVIOUS

-----------------------------------------------------------------------------
(* The invariant *)

Pointers == Userdata \cup {None}

EntryType ==
    [name : Functions, installed : SUBSET Callbacks, ud : [Slots -> Pointers],
     owns : [Slots -> BOOLEAN], by : [Callbacks -> Pointers], last : Callbacks \cup {"none"}]

IndexType == [target : Targets, ud : Userdata, owns : BOOLEAN]

At == 1 .. Len(entries)
IndexAt == 1 .. Len(index)

Shape ==
    /\ use \in Uses
    /\ entries \in Seq(EntryType)
    /\ \A i, j \in At : entries[i].name = entries[j].name => i = j
    /\ lookback \in [ud : Pointers, owns : BOOLEAN]
    /\ index \in Seq(IndexType)
    /\ given \subseteq Userdata /\ owned \subseteq given
    /\ freed \in [Userdata -> Nat]
    /\ alive \in BOOLEAN

(* Beside a handler and a code generator an entry holds what was registered
   last, and each of its callbacks has the userdata it came with. *)
Single(e) ==
    /\ e.installed \ {"handler", "codegen"} = IF e.last = "none" THEN {} ELSE {e.last}
    /\ e.last \notin {"handler", "codegen"}
    /\ "codegen" \in e.installed => e.last = "struct"
    /\ \A k \in e.installed \ {"body", "record"} : e.ud[SlotOf(k)] = e.by[k]
    /\ e.last \notin Plain \cup {"struct"} => e.ud["main"] = None

Singles == \A i \in At : Single(entries[i])

(* A userdata has one place: a slot of an entry, the lookback resolver, or the
   targets of one index capability. *)
Apart ==
    /\ \A i, j \in At, s, t \in Slots :
          entries[i].ud[s] \in Userdata /\ entries[i].ud[s] = entries[j].ud[t] => i = j /\ s = t
    /\ \A i \in At, s \in Slots :
          entries[i].ud[s] \in Userdata =>
              /\ lookback.ud # entries[i].ud[s]
              /\ \A k \in IndexAt : index[k].ud # entries[i].ud[s]
    /\ \A k \in IndexAt : index[k].ud # lookback.ud

(* An owned userdata is owned where it is placed, once. *)
OwnedInPlace ==
    /\ \A i \in At, s \in Slots : entries[i].owns[s] <=> entries[i].ud[s] \in owned
    /\ lookback.owns <=> lookback.ud \in owned
    /\ \A k \in IndexAt : index[k].owns => index[k].ud \in owned
    /\ \A k \in IndexAt : index[k].ud \in owned =>
          \E m \in IndexAt : index[m].owns /\ index[m].ud = index[k].ud
    /\ \A k, m \in IndexAt : index[k].owns /\ index[m].owns /\ index[k].ud = index[m].ud => k = m

EntryPlaces(e, u) == \E s \in Slots : e.ud[s] = u

Placed(u) ==
    \/ \E i \in At : EntryPlaces(entries[i], u)
    \/ lookback.ud = u
    \/ \E k \in IndexAt : index[k].ud = u

(* What is placed was handed over, and an owned userdata was cleaned up once iff
   it lost its place. *)
FreedWhenDisplaced ==
    \A u \in Userdata :
        /\ Placed(u) => u \in given
        /\ freed[u] = IF u \in owned /\ (alive => ~Placed(u)) THEN 1 ELSE 0

IInv == Shape /\ Singles /\ Apart /\ OwnedInPlace /\ FreedWhenDisplaced

-----------------------------------------------------------------------------
(* The entry of a name *)

(* A new entry has no callback and owns nothing. *)
LEMMA NewEntryTyped ==
    ASSUME NEW n \in Functions
    PROVE  /\ NewEntry(n) \in EntryType /\ NewEntry(n).name = n
           /\ Single(NewEntry(n))
           /\ \A s \in Slots : NewEntry(n).ud[s] = None /\ NewEntry(n).owns[s] = FALSE
BY Zenon DEF NewEntry, EntryType, Pointers, Single, Slots

(* The current entry of a name is the one at its only position, or a new one. *)
LEMMA CurrentIs ==
    ASSUME Shape, NEW n \in Functions
    PROVE  /\ Current(n) \in EntryType /\ Current(n).name = n
           /\ \A i \in At : entries[i].name = n => entries[i] = Current(n) /\ Position(n) = {i}
           /\ Position(n) = {} => Current(n) = NewEntry(n)
           /\ Position(n) # {} => \E i \in At : entries[i].name = n
<1>1. DOMAIN entries = At /\ \A i \in At : entries[i] \in EntryType
    BY DEF Shape, At
<1>2. \A i \in Position(n) : i \in At /\ entries[i].name = n
    BY <1>1, Zenon DEF Position
<1>3. \A i \in At : entries[i].name = n => i \in Position(n)
    BY <1>1, Zenon DEF Position
<1>4. CASE Position(n) = {}
    BY <1>3, <1>4, NewEntryTyped, Zenon DEF Current
<1>5. CASE Position(n) # {}
    <2> DEFINE c == CHOOSE i \in Position(n) : TRUE
    <2>1. c \in Position(n)
        BY <1>5, Zenon
    <2>2. \A i \in At : entries[i].name = n => i = c
        BY <2>1, <1>2, Zenon DEF Shape
    <2>3. Current(n) = entries[c]
        BY <1>5, Zenon DEF Current, Find
    <2>4. Position(n) = {c}
        BY <2>1, <2>2, <1>2, <1>3, Zenon
    <2> QED BY <2>1, <2>2, <2>3, <2>4, <1>1, <1>2, <1>5, Zenon
<1> QED BY <1>4, <1>5, Zenon

(* Put changes one position: that of the name, or a new one. *)
LEMMA PutIs ==
    ASSUME Shape, NEW n \in Functions, NEW e \in EntryType, e.name = n, Put(n, e)
    PROVE  /\ entries' \in Seq(EntryType)
           /\ \A i, j \in At' : entries'[i].name = entries'[j].name => i = j
           /\ \E p \in At' :
                 /\ entries'[p] = e
                 /\ \A i \in At' \ {p} : i \in At /\ entries'[i] = entries[i]
                 /\ \A i \in At \ {p} : i \in At'
                 /\ p \in At => entries[p] = Current(n)
                 /\ p \notin At => Current(n) = NewEntry(n)
<1>1. DOMAIN entries = At /\ Len(entries) \in Nat /\ \A i \in At : entries[i] \in EntryType
    BY DEF Shape, At
<1>2. \A i \in At : i \in Position(n) <=> entries[i].name = n
    BY <1>1, Zenon DEF Position
<1>3. CASE Position(n) # {}
    <2>1. PICK p \in At : entries[p].name = n
        BY <1>3, CurrentIs, Zenon
    <2>2. Position(n) = {p} /\ entries[p] = Current(n)
        BY <2>1, CurrentIs, Zenon
    <2>3. entries' = [i \in At |-> IF i = p THEN e ELSE entries[i]]
        BY <1>1, <1>3, <2>2, Zenon DEF Put
    <2>4. entries' \in Seq(EntryType) /\ Len(entries') = Len(entries) /\ At' = At
        BY <1>1, <2>3 DEF At
    <2>5. entries'[p] = e /\ \A i \in At \ {p} : entries'[i] = entries[i]
        BY <2>1, <2>3, Zenon
    <2>6. \A i \in At \ {p} : entries[i].name # n
        BY <2>1, Zenon DEF Shape
    <2>7. \A i, j \in At' : entries'[i].name = entries'[j].name => i = j
        BY <2>4, <2>5, <2>6, SMTT(30) DEF Shape
    <2> QED BY <2>1, <2>2, <2>4, <2>5, <2>7, Zenon
<1>4. CASE Position(n) = {}
    <2> DEFINE p == Len(entries) + 1
    <2>1. entries' = Append(entries, e)
        BY <1>4, Zenon DEF Put
    <2>2. /\ entries' \in Seq(EntryType) /\ Len(entries') = p
          /\ entries'[p] = e /\ \A i \in At : entries'[i] = entries[i]
        BY <2>1, <1>1 DEF Shape, At
    <2>3. At' = At \cup {p} /\ p \notin At
        BY <2>2, <1>1 DEF At
    <2>4. \A i \in At : entries[i].name # n
        BY <1>2, <1>4, Zenon
    <2>5. \A i, j \in At' : entries'[i].name = entries'[j].name => i = j
        <3> SUFFICES ASSUME NEW i \in At', NEW j \in At', entries'[i].name = entries'[j].name
                     PROVE  i = j
            OBVIOUS
        <3>1. CASE i \in At /\ j \in At
            BY <3>1, <2>2, Zenon DEF Shape
        <3>2. CASE i = p \/ j = p
            BY <3>2, <2>2, <2>3, <2>4, Zenon
        <3> QED BY <3>1, <3>2, <2>3, Zenon
    <2>6. Current(n) = NewEntry(n)
        BY <1>4, CurrentIs, Zenon
    <2> QED BY <2>2, <2>3, <2>5, <2>6, Zenon
<1> QED BY <1>3, <1>4, Zenon

-----------------------------------------------------------------------------
(* One registration *)

(* What every registration does to the entry c of its name and to the userdata:
   e replaces c; what e places it had placed, or is new; e owns what it places
   and is owned; what is newly owned is placed in e; and what c owned and e does
   not place is cleaned up. *)
Replaces(c, e) ==
    /\ Single(e)
    /\ \A s, t \in Slots : e.ud[s] \in Userdata /\ e.ud[s] = e.ud[t] => s = t
    /\ \A s \in Slots : e.ud[s] \in Userdata => EntryPlaces(c, e.ud[s]) \/ e.ud[s] \notin given
    /\ \A s \in Slots : e.ud[s] \in Userdata => e.ud[s] \in given'
    /\ \A s \in Slots : e.owns[s] <=> e.ud[s] \in owned'
    /\ given \subseteq given' /\ owned \subseteq owned' /\ owned' \subseteq given'
    /\ given' \subseteq Userdata
    /\ \A u \in owned' \ owned : EntryPlaces(e, u)
    /\ freed' = [u \in Userdata |->
                    freed[u] + IF u \in owned /\ EntryPlaces(c, u) /\ ~EntryPlaces(e, u)
                               THEN 1 ELSE 0]

(* A registration keeps the invariant. *)
LEMMA RegistrationKeeps ==
    ASSUME IInv, alive, Rest,
           NEW n \in Functions, NEW e \in EntryType, e.name = n, Put(n, e),
           Replaces(Current(n), e)
    PROVE  IInv'
<1>1. PICK p \in At' :
         /\ entries'[p] = e
         /\ \A i \in At' \ {p} : i \in At /\ entries'[i] = entries[i]
         /\ \A i \in At \ {p} : i \in At'
         /\ p \in At => entries[p] = Current(n)
         /\ p \notin At => Current(n) = NewEntry(n)
    BY PutIs, Zenon DEF IInv
<1>2. /\ use' = use /\ lookback' = lookback /\ index' = index /\ alive' = alive /\ IndexAt' = IndexAt
    BY Zenon DEF Rest, IndexAt
<1>3. Shape'
    <2>1. freed' \in [Userdata -> Nat]
        BY DEF Replaces, IInv, Shape
    <2> QED BY <1>2, <2>1, PutIs, Zenon DEF IInv, Shape, Replaces
<1>4. Singles'
    BY <1>1, Zenon DEF IInv, Singles, Replaces
<1> DEFINE c == Current(n)
<1>5. \A u \in Userdata : EntryPlaces(c, u) => p \in At /\ EntryPlaces(entries[p], u)
    <2>1. CASE p \in At
        BY <2>1, <1>1, Zenon
    <2>2. CASE p \notin At
        <3>1. c = NewEntry(n)
            BY <2>2, <1>1, Zenon
        <3>2. \A s \in Slots : c.ud[s] = None
            <4>1. \A s \in Slots : NewEntry(n).ud[s] = None
                BY NewEntryTyped, Zenon
            <4> HIDE DEF c
            <4> QED BY <3>1, <4>1, Zenon
        <3> QED BY <3>2, RegistryAssumption, Zenon DEF EntryPlaces
    <2> QED BY <2>1, <2>2, Zenon
(* What e places is placed nowhere else. *)
<1>6. \A u \in Userdata : EntryPlaces(e, u) =>
         /\ \A i \in At \ {p} : ~EntryPlaces(entries[i], u)
         /\ lookback.ud # u /\ \A k \in IndexAt : index[k].ud # u
    <2> SUFFICES ASSUME NEW u \in Userdata, EntryPlaces(e, u)
                 PROVE  /\ \A i \in At \ {p} : ~EntryPlaces(entries[i], u)
                        /\ lookback.ud # u /\ \A k \in IndexAt : index[k].ud # u
        OBVIOUS
    <2>1. EntryPlaces(c, u) \/ u \notin given
        BY DEF Replaces, EntryPlaces
    <2>2. CASE EntryPlaces(c, u)
        BY <2>2, <1>5 DEF EntryPlaces, IInv, Apart
    <2>3. CASE u \notin given
        BY <2>3, Zenon DEF IInv, FreedWhenDisplaced, Placed
    <2> QED BY <2>1, <2>2, <2>3, Zenon
<1>7. Apart'
    <2>1. ASSUME NEW i \in At', NEW j \in At', NEW s \in Slots, NEW t \in Slots,
                 entries'[i].ud[s] \in Userdata, entries'[i].ud[s] = entries'[j].ud[t]
          PROVE  i = j /\ s = t
        <3>1. CASE i = p /\ j = p
            BY <3>1, <2>1, <1>1, Zenon DEF Replaces
        <3>2. CASE i = p /\ j # p
            BY <3>2, <2>1, <1>1, <1>6, Zenon DEF EntryPlaces
        <3>3. CASE i # p /\ j = p
            BY <3>3, <2>1, <1>1, <1>6, Zenon DEF EntryPlaces
        <3>4. CASE i # p /\ j # p
            BY <3>4, <2>1, <1>1 DEF IInv, Apart
        <3> QED BY <3>1, <3>2, <3>3, <3>4, Zenon
    <2>2. ASSUME NEW i \in At', NEW s \in Slots, entries'[i].ud[s] \in Userdata
          PROVE  /\ lookback'.ud # entries'[i].ud[s]
                 /\ \A k \in IndexAt' : index'[k].ud # entries'[i].ud[s]
        <3>1. CASE i = p
            BY <3>1, <2>2, <1>1, <1>2, <1>6, Zenon DEF EntryPlaces
        <3>2. CASE i # p
            BY <3>2, <2>2, <1>1, <1>2 DEF IInv, Apart
        <3> QED BY <3>1, <3>2, Zenon
    <2>3. \A k \in IndexAt' : index'[k].ud # lookback'.ud
        BY <1>2, Zenon DEF IInv, Apart
    <2> QED BY <2>1, <2>2, <2>3, Zenon DEF Apart
<1>8. OwnedInPlace'
    <2>1. \A u \in owned' \ owned : EntryPlaces(e, u) /\ u \in Userdata
        BY Zenon DEF Replaces
    <2>2. ASSUME NEW i \in At', NEW s \in Slots
          PROVE  entries'[i].owns[s] <=> entries'[i].ud[s] \in owned'
        <3>1. CASE i = p
            BY <3>1, <1>1, Zenon DEF Replaces
        <3>2. CASE i # p
            BY <3>2, <1>1, <1>6, <2>1 DEF IInv, OwnedInPlace, EntryPlaces, Replaces
        <3> QED BY <3>1, <3>2, Zenon
    <2>3. lookback'.owns <=> lookback'.ud \in owned'
        BY <1>2, <1>6, <2>1, Zenon DEF IInv, OwnedInPlace, Replaces
    <2>4. \A k \in IndexAt : index[k].ud \in owned <=> index[k].ud \in owned'
        BY <1>6, <2>1, Zenon DEF Replaces
    <2> QED BY <1>2, <2>2, <2>3, <2>4, Zenon DEF IInv, OwnedInPlace
<1>9. FreedWhenDisplaced'
    <2> SUFFICES ASSUME NEW u \in Userdata
                 PROVE  /\ Placed(u)' => u \in given'
                        /\ freed'[u] = IF u \in owned' /\ (alive' => ~Placed(u)') THEN 1 ELSE 0
        BY Zenon DEF FreedWhenDisplaced
    <2> DEFINE Elsewhere == \/ \E i \in At \ {p} : EntryPlaces(entries[i], u)
                            \/ lookback.ud = u
                            \/ \E k \in IndexAt : index[k].ud = u
    <2>1. Placed(u) <=> EntryPlaces(c, u) \/ Elsewhere
        BY <1>1, <1>5, Zenon DEF Placed
    <2>2. Placed(u)' <=> EntryPlaces(e, u) \/ Elsewhere
        BY <1>1, <1>2, Zenon DEF Placed, EntryPlaces
    <2>3. EntryPlaces(e, u) => ~Elsewhere
        BY <1>6, Zenon
    <2>4. EntryPlaces(c, u) => ~Elsewhere
        BY <1>5 DEF EntryPlaces, IInv, Apart
    <2>5. EntryPlaces(e, u) => u \in given' /\ (EntryPlaces(c, u) \/ u \notin given)
        BY DEF Replaces, EntryPlaces
    <2>6. /\ u \in given => u \in given'
          /\ u \in owned => u \in owned' /\ u \in given
          /\ u \in owned' /\ u \notin owned => EntryPlaces(e, u)
        BY Zenon DEF Replaces, IInv, Shape
    <2>7. /\ Placed(u) => u \in given
          /\ freed[u] = IF u \in owned /\ ~Placed(u) THEN 1 ELSE 0
        BY Zenon DEF IInv, FreedWhenDisplaced
    <2>8. freed'[u] = freed[u] + IF u \in owned /\ EntryPlaces(c, u) /\ ~EntryPlaces(e, u)
                                 THEN 1 ELSE 0
        BY Zenon DEF Replaces
    <2> HIDE DEF c, Elsewhere
    <2> QED BY <2>1, <2>2, <2>3, <2>4, <2>5, <2>6, <2>7, <2>8, <1>2
<1> QED BY <1>3, <1>4, <1>7, <1>8, <1>9, Zenon DEF IInv

-----------------------------------------------------------------------------
(* The registrations *)

(* The current entry keeps what the invariant says of every entry. *)
LEMMA CurrentKeeps ==
    ASSUME IInv, NEW n \in Functions
    PROVE  /\ Current(n) \in EntryType /\ Current(n).name = n /\ Single(Current(n))
           /\ \A s, t \in Slots :
                 Current(n).ud[s] \in Userdata /\ Current(n).ud[s] = Current(n).ud[t] => s = t
           /\ \A s \in Slots : Current(n).ud[s] \in Userdata => Current(n).ud[s] \in given
           /\ \A s \in Slots : Current(n).owns[s] <=> Current(n).ud[s] \in owned
<1>1. CASE Position(n) = {}
    <2>1. Current(n) = NewEntry(n)
        BY <1>1, CurrentIs, Zenon DEF IInv
    <2>2. None \notin Userdata /\ None \notin owned
        BY RegistryAssumption, Zenon DEF IInv, Shape
    <2> QED BY <2>1, <2>2, NewEntryTyped, Zenon
<1>2. CASE Position(n) # {}
    <2>1. PICK i \in At : Current(n) = entries[i]
        BY <1>2, CurrentIs, Zenon DEF IInv
    <2>2. \A s \in Slots : entries[i].ud[s] \in Userdata => entries[i].ud[s] \in given
        BY Zenon DEF IInv, FreedWhenDisplaced, Placed, EntryPlaces
    <2> QED BY <2>1, <2>2, CurrentIs, SMTT(30) DEF IInv, Singles, Apart, OwnedInPlace
<1> QED BY <1>1, <1>2, Zenon

(* Clearing an entry cleans up each userdata it owns, once. *)
LEMMA CleanupsAre ==
    ASSUME IInv, NEW n \in Functions, NEW u \in Userdata
    PROVE  Cleanups(Current(n), u) =
               IF u \in owned /\ EntryPlaces(Current(n), u) THEN 1 ELSE 0
<1> DEFINE c == Current(n)
           held == {s \in Slots : c.owns[s] /\ c.ud[s] = u}
<1>1. CASE u \in owned /\ EntryPlaces(c, u)
    <2>1. PICK s \in Slots : c.ud[s] = u
        BY <1>1, Zenon DEF EntryPlaces
    <2>2. held = {s}
        BY <2>1, <1>1, CurrentKeeps
    <2> QED BY <1>1, <2>2, FS_Singleton, Zenon DEF Cleanups
<1>2. CASE ~(u \in owned /\ EntryPlaces(c, u))
    <2>1. held = {}
        BY <1>2, CurrentKeeps DEF EntryPlaces
    <2> QED BY <1>2, <2>1, FS_EmptySet, Zenon DEF Cleanups
<1> QED BY <1>1, <1>2, Zenon

(* What a registration adds to the userdata handed over. *)
LEMMA TakeIs ==
    ASSUME Shape, NEW u \in Userdata, NEW o \in BOOLEAN, Take(u, o)
    PROVE  /\ u \in given' /\ given \subseteq given' /\ owned \subseteq owned'
           /\ owned' \subseteq given' /\ given' \subseteq Userdata
           /\ \A v : v # u => (v \in owned' <=> v \in owned)
           /\ u \in owned' <=> o \/ u \in owned
BY Zenon DEF Take, Shape

(* f is the entry e with the callback k and its userdata in the slot, and the
   other callbacks and slots as they were. *)
Installs(f, e, k, slot, u, o) ==
    /\ f \in EntryType /\ f.name = e.name /\ f.last = e.last
    /\ f.installed = e.installed \cup {k}
    /\ f.by[k] = u
    /\ \A j \in Callbacks \ {k} : f.by[j] = e.by[j]
    /\ f.ud[slot] = u /\ f.owns[slot] = o
    /\ \A s \in Slots \ {slot} : f.ud[s] = e.ud[s] /\ f.owns[s] = e.owns[s]

(* A callback comes with its userdata in its slot; the other slots stay. *)
LEMMA InstallIs ==
    ASSUME NEW e \in EntryType, NEW k \in Callbacks, NEW u \in Userdata, NEW o \in BOOLEAN
    PROVE  Installs(Install(e, k, u, o), e, k, SlotOf(k), u, o)
<1> DEFINE f == Install(e, k, u, o)
           slot == SlotOf(k)
<1>1. slot \in Slots
    BY Zenon DEF SlotOf, Slots
<1>2. /\ f = [e EXCEPT !.installed = e.installed \cup {k}, !.by = [e.by EXCEPT ![k] = u],
                      !.ud = [e.ud EXCEPT ![slot] = u], !.owns = [e.owns EXCEPT ![slot] = o]]
    BY Zenon DEF Install, EntryType
<1>3. /\ f.name = e.name /\ f.last = e.last /\ f.installed = e.installed \cup {k}
      /\ f.by = [e.by EXCEPT ![k] = u]
      /\ f.ud = [e.ud EXCEPT ![slot] = u] /\ f.owns = [e.owns EXCEPT ![slot] = o]
    BY <1>2, Zenon DEF EntryType
<1>4. /\ e.ud \in [Slots -> Pointers] /\ e.owns \in [Slots -> BOOLEAN]
      /\ e.by \in [Callbacks -> Pointers] /\ e.installed \subseteq Callbacks
    BY Zenon DEF EntryType
<1>5. f \in EntryType
    <2>1. f = [name |-> e.name, installed |-> e.installed \cup {k},
               ud |-> [e.ud EXCEPT ![slot] = u], owns |-> [e.owns EXCEPT ![slot] = o],
               by |-> [e.by EXCEPT ![k] = u], last |-> e.last]
        BY <1>2, Zenon DEF EntryType
    <2>2. /\ [e.ud EXCEPT ![slot] = u] \in [Slots -> Pointers]
          /\ [e.owns EXCEPT ![slot] = o] \in [Slots -> BOOLEAN]
          /\ [e.by EXCEPT ![k] = u] \in [Callbacks -> Pointers]
          /\ e.installed \cup {k} \in SUBSET Callbacks
        BY <1>1, <1>4, Zenon DEF Pointers
    <2>3. e.name \in Functions /\ e.last \in Callbacks \cup {"none"}
        BY Zenon DEF EntryType
    <2> HIDE DEF f, slot
    <2> QED BY <2>1, <2>2, <2>3, Zenon DEF EntryType
<1> HIDE DEF f, slot
<1>6. /\ f.by[k] = u /\ f.ud[slot] = u /\ f.owns[slot] = o
      /\ \A j \in Callbacks \ {k} : f.by[j] = e.by[j]
      /\ \A s \in Slots \ {slot} : f.ud[s] = e.ud[s] /\ f.owns[s] = e.owns[s]
    BY <1>1, <1>3, <1>4, Zenon
<1>7. Installs(f, e, k, slot, u, o)
    BY <1>3, <1>5, <1>6, Zenon DEF Installs
<1> QED BY <1>7, Zenon DEF f, slot

(* Noting the last registration changes nothing else of an entry. *)
LEMMA LastIs ==
    ASSUME NEW e \in EntryType, NEW k \in Callbacks
    PROVE  /\ [e EXCEPT !.last = k] \in EntryType
           /\ [e EXCEPT !.last = k].name = e.name /\ [e EXCEPT !.last = k].last = k
           /\ [e EXCEPT !.last = k].installed = e.installed
           /\ [e EXCEPT !.last = k].by = e.by
           /\ [e EXCEPT !.last = k].ud = e.ud /\ [e EXCEPT !.last = k].owns = e.owns
BY Zenon DEF EntryType

(* cxpr_registry_add_numeric, _value, _typed and _ast keep the invariant. *)
LEMMA AddKeeps ==
    ASSUME IInv, NEW kind \in Plain, NEW n \in Functions, NEW u \in Fresh, NEW o \in BOOLEAN,
           Add(kind, n, u, o)
    PROVE  IInv'
<1> DEFINE c == Current(n)
           e == [Install(Cleared(c), kind, u, o) EXCEPT !.last = kind]
<1>1. c.name = n /\ u \in Userdata /\ u \notin given /\ u # None /\ None \notin owned'
    BY CurrentKeeps, RegistryAssumption, TakeIs DEF Fresh, Add, IInv, Shape
<1>2. /\ e \in EntryType /\ e.name = n /\ e.installed = {kind} /\ e.last = kind
      /\ e.ud["main"] = u /\ e.owns["main"] = o /\ e.by[kind] = u
      /\ \A s \in Slots \ {"main"} : e.ud[s] = None /\ e.owns[s] = FALSE
    <2> DEFINE f == Install(NewEntry(n), kind, u, o)
    <2>1. e = [f EXCEPT !.last = kind] /\ kind \in Callbacks /\ SlotOf(kind) = "main"
        BY <1>1, Zenon DEF Cleared, Callbacks, Plain, SlotOf
    <2>2. /\ f \in EntryType /\ f.name = n /\ f.installed = NewEntry(n).installed \cup {kind}
          /\ f.by[kind] = u /\ f.ud["main"] = u /\ f.owns["main"] = o
          /\ \A s \in Slots \ {"main"} : f.ud[s] = None /\ f.owns[s] = FALSE
        <3>1. /\ NewEntry(n) \in EntryType /\ NewEntry(n).name = n
              /\ \A s \in Slots : NewEntry(n).ud[s] = None /\ NewEntry(n).owns[s] = FALSE
            BY NewEntryTyped, Zenon
        <3>2. Installs(f, NewEntry(n), kind, "main", u, o)
            BY <1>1, <2>1, <3>1, InstallIs
        <3> HIDE DEF f
        <3> QED BY <3>1, <3>2, Zenon DEF Installs
    <2>3. NewEntry(n).installed = {}
        BY Zenon DEF NewEntry
    <2> HIDE DEF f, e
    <2> QED BY <2>1, <2>2, <2>3, LastIs
<1>3. Single(e)
    BY <1>2, Zenon DEF Single, Plain, SlotOf
<1>4. freed' = [v \in Userdata |-> freed[v] + Cleanups(c, v)]
    BY Zenon DEF Add, Freeing
<1>5. \A v \in Userdata : EntryPlaces(e, v) <=> v = u
    <2>1. "main" \in Slots
        BY Zenon DEF Slots
    <2> HIDE DEF c, e
    <2> QED BY <1>1, <1>2, <2>1, RegistryAssumption, Zenon DEF EntryPlaces
<1>6. \A v \in Userdata : Cleanups(c, v) =
          IF v \in owned /\ EntryPlaces(c, v) /\ ~EntryPlaces(e, v) THEN 1 ELSE 0
    BY <1>1, <1>5, CleanupsAre, Zenon DEF IInv, Shape
<1>7. /\ u \in given' /\ given \subseteq given' /\ owned \subseteq owned'
      /\ owned' \subseteq given' /\ given' \subseteq Userdata
      /\ \A v : v # u => (v \in owned' <=> v \in owned)
      /\ u \in owned' <=> o
    BY <1>1, TakeIs DEF Add, IInv, Shape
<1> HIDE DEF c, e
<1>8. Replaces(c, e)
    <2>1. /\ \A s, t \in Slots : e.ud[s] \in Userdata /\ e.ud[s] = e.ud[t] => s = t
          /\ \A s \in Slots : e.ud[s] \in Userdata => e.ud[s] = u
          /\ \A s \in Slots : e.owns[s] <=> e.ud[s] \in owned'
        BY <1>1, <1>2, <1>7, RegistryAssumption, SMTT(30)
    <2>2. \A v \in owned' \ owned : EntryPlaces(e, v)
        BY <1>5, <1>7, Zenon
    <2> QED BY <1>1, <1>3, <1>4, <1>6, <1>7, <2>1, <2>2, Zenon DEF Replaces
<1> QED BY <1>2, <1>8, RegistrationKeeps, Zenon DEF Add, Can, c, e

(* A step that lays the entry e over c: the slot changes, the others stay, and
   what the slot owned is cleaned up unless it is registered again. *)
Overlays(c, e, slot, u, o) ==
    /\ alive /\ Rest /\ Take(u, o) /\ Put(c.name, e) /\ e.name = c.name /\ Single(e)
    /\ u \notin given \/ u = c.ud[slot]
    /\ e.ud[slot] = u
    /\ e.owns[slot] <=> o \/ (c.ud[slot] = u /\ c.owns[slot])
    /\ \A s \in Slots \ {slot} : e.ud[s] = c.ud[s] /\ e.owns[s] = c.owns[s]
    /\ freed' = [v \in Userdata |->
                    freed[v] + IF c.ud[slot] # u /\ c.owns[slot] /\ c.ud[slot] = v
                               THEN 1 ELSE 0]

(* A callback laid over the current entry keeps the invariant. *)
LEMMA OverlayKeeps ==
    ASSUME IInv, NEW n \in Functions, NEW slot \in Slots, NEW u \in Userdata,
           NEW o \in BOOLEAN, NEW e \in EntryType, Overlays(Current(n), e, slot, u, o)
    PROVE  IInv'
<1> DEFINE c == Current(n)
<1>0. c.name = n
    BY CurrentKeeps, Zenon
<1> /\ alive /\ Rest /\ Take(u, o) /\ Put(n, e) /\ e.name = n /\ Single(e)
    /\ u \notin given \/ u = c.ud[slot]
    /\ e.ud[slot] = u
    /\ e.owns[slot] <=> o \/ (c.ud[slot] = u /\ c.owns[slot])
    /\ \A s \in Slots \ {slot} : e.ud[s] = c.ud[s] /\ e.owns[s] = c.owns[s]
    /\ freed' = [v \in Userdata |->
                    freed[v] + IF c.ud[slot] # u /\ c.owns[slot] /\ c.ud[slot] = v
                               THEN 1 ELSE 0]
    BY <1>0, Zenon DEF Overlays
<1>1. /\ \A s, t \in Slots : c.ud[s] \in Userdata /\ c.ud[s] = c.ud[t] => s = t
      /\ \A s \in Slots : c.ud[s] \in Userdata => c.ud[s] \in given
      /\ \A s \in Slots : c.owns[s] <=> c.ud[s] \in owned
    BY CurrentKeeps, Zenon
<1>2. owned \subseteq given /\ given \subseteq Userdata
    BY Zenon DEF IInv, Shape
<1>3. /\ u \in given' /\ given \subseteq given' /\ owned \subseteq owned'
      /\ owned' \subseteq given' /\ given' \subseteq Userdata
      /\ \A v : v # u => (v \in owned' <=> v \in owned)
      /\ u \in owned' <=> o \/ u \in owned
    BY TakeIs, Zenon DEF IInv
<1> HIDE DEF c
<1>4. \A s \in Slots \ {slot} : c.ud[s] # u
    BY <1>1, Zenon DEF c
<1>5. \A s, t \in Slots : e.ud[s] \in Userdata /\ e.ud[s] = e.ud[t] => s = t
    BY <1>1, <1>4, SMTT(30) DEF c
<1>6. \A s \in Slots : e.ud[s] \in Userdata =>
          (EntryPlaces(c, e.ud[s]) \/ e.ud[s] \notin given) /\ e.ud[s] \in given'
    <2>1. \A s \in Slots : EntryPlaces(c, c.ud[s])
        BY Zenon DEF EntryPlaces
    <2> QED BY <2>1, <1>1, <1>3, Zenon DEF c
<1>7. \A s \in Slots : e.owns[s] <=> e.ud[s] \in owned'
    <2>1. e.owns[slot] <=> u \in owned'
        BY <1>1, <1>2, <1>3, Zenon DEF c
    <2>2. \A s \in Slots \ {slot} : e.owns[s] <=> e.ud[s] \in owned'
        BY <1>1, <1>3, <1>4, Zenon DEF c
    <2> QED BY <2>1, <2>2, Zenon
<1>8. \A v \in owned' \ owned : EntryPlaces(e, v)
    BY <1>3, Zenon DEF EntryPlaces
<1>9. \A v \in Userdata :
         (c.ud[slot] # u /\ c.owns[slot] /\ c.ud[slot] = v)
             <=> (v \in owned /\ EntryPlaces(c, v) /\ ~EntryPlaces(e, v))
    <2> SUFFICES ASSUME NEW v \in Userdata
                 PROVE  (c.ud[slot] # u /\ c.owns[slot] /\ c.ud[slot] = v)
                            <=> (v \in owned /\ EntryPlaces(c, v) /\ ~EntryPlaces(e, v))
        OBVIOUS
    <2>1. ASSUME c.ud[slot] # u, c.owns[slot], c.ud[slot] = v
          PROVE  v \in owned /\ EntryPlaces(c, v) /\ ~EntryPlaces(e, v)
        <3>1. v \in owned /\ EntryPlaces(c, v)
            BY <2>1, <1>1, Zenon DEF EntryPlaces
        <3>2. \A s \in Slots : e.ud[s] # v
            BY <2>1, <1>1, Zenon DEF c
        <3> QED BY <3>1, <3>2, Zenon DEF EntryPlaces
    <2>2. ASSUME v \in owned, EntryPlaces(c, v), ~EntryPlaces(e, v)
          PROVE  c.ud[slot] # u /\ c.owns[slot] /\ c.ud[slot] = v
        <3>1. PICK s \in Slots : c.ud[s] = v
            BY <2>2, Zenon DEF EntryPlaces
        <3>2. s = slot /\ v # u
            BY <3>1, <2>2, Zenon DEF EntryPlaces, c
        <3> QED BY <3>1, <3>2, <2>2, <1>1, Zenon
    <2> QED BY <2>1, <2>2, Zenon
<1>10. freed' = [v \in Userdata |->
                    freed[v] + IF v \in owned /\ EntryPlaces(c, v) /\ ~EntryPlaces(e, v)
                               THEN 1 ELSE 0]
    BY <1>9, Zenon DEF c
<1>11. Replaces(c, e)
    BY <1>3, <1>5, <1>6, <1>7, <1>8, <1>10, Zenon DEF Replaces
<1> QED BY <1>11, RegistrationKeeps, Zenon DEF c

(* cxpr_registry_add_ast_handler keeps the invariant. *)
LEMMA HandlerKeeps ==
    ASSUME IInv, NEW n \in Functions, NEW u \in Fresh, NEW o \in BOOLEAN, AddHandler(n, u, o)
    PROVE  IInv'
<1> DEFINE c == Current(n)
           e == Install(c, "handler", u, o)
<1>1. /\ c \in EntryType /\ c.name = n /\ Single(c)
      /\ \A s \in Slots : c.ud[s] \in Userdata => c.ud[s] \in given
    BY CurrentKeeps, Zenon
<1>2. u \in Userdata /\ u \notin given /\ "handler" \in Slots /\ "handler" \in Callbacks
      /\ SlotOf("handler") = "handler"
    BY Zenon DEF Fresh, Slots, Callbacks, SlotOf
<1>3. /\ e \in EntryType /\ e.name = n /\ e.last = c.last
      /\ e.installed = c.installed \cup {"handler"}
      /\ e.by["handler"] = u
      /\ \A j \in Callbacks \ {"handler"} : e.by[j] = c.by[j]
      /\ e.ud["handler"] = u /\ e.owns["handler"] = o
      /\ \A s \in Slots \ {"handler"} : e.ud[s] = c.ud[s] /\ e.owns[s] = c.owns[s]
    <2> HIDE DEF c
    <2>1. Installs(e, c, "handler", SlotOf("handler"), u, o)
        BY <1>1, <1>2, InstallIs, Zenon
    <2> HIDE DEF e
    <2> QED BY <1>1, <1>2, <2>1, Zenon DEF Installs
<1>4. /\ alive /\ Rest /\ Take(u, o) /\ Put(n, e)
      /\ freed' = [v \in Userdata |->
                      freed[v] + IF c.owns["handler"] /\ c.ud["handler"] = v THEN 1 ELSE 0]
    BY Zenon DEF AddHandler, Can, Freeing
<1> HIDE DEF c, e
<1>5. c.ud["handler"] # u
    BY <1>1, <1>2, Zenon
<1>6. Single(e)
    <2>1. \A k \in e.installed \ {"body", "record"} : e.ud[SlotOf(k)] = e.by[k]
        <3> SUFFICES ASSUME NEW k \in e.installed \ {"body", "record"}
                     PROVE  e.ud[SlotOf(k)] = e.by[k]
            OBVIOUS
        <3>1. CASE k = "handler"
            BY <3>1, <1>2, <1>3, Zenon
        <3>2. CASE k # "handler"
            <4>1. k \in Callbacks /\ c.ud[SlotOf(k)] = c.by[k]
                BY <3>2, <1>1, <1>3, Zenon DEF Single, EntryType
            <4>2. SlotOf(k) \in Slots \ {"handler"}
                BY <3>2, Zenon DEF SlotOf, Slots
            <4> QED BY <4>1, <4>2, <3>2, <1>3, Zenon
        <3> QED BY <3>1, <3>2, Zenon
    <2>2. e.ud["main"] = c.ud["main"]
        BY <1>3, Zenon DEF Slots
    <2> QED BY <1>1, <1>3, <2>1, <2>2, Zenon DEF Single
<1>7. freed' = [v \in Userdata |->
                   freed[v] + IF c.ud["handler"] # u /\ c.owns["handler"] /\ c.ud["handler"] = v
                              THEN 1 ELSE 0]
    BY <1>4, <1>5, Zenon
<1>8. e.owns["handler"] <=> o \/ (c.ud["handler"] = u /\ c.owns["handler"])
    BY <1>3, <1>5, Zenon
<1>9. Overlays(c, e, "handler", u, o)
    BY <1>1, <1>2, <1>3, <1>4, <1>6, <1>7, <1>8, Zenon DEF Overlays
<1> QED BY <1>2, <1>3, <1>9, OverlayKeeps, Zenon DEF c

(* add_struct under a name without callbacks, whose main slot is empty. *)
LEMMA StructKeeps ==
    ASSUME OverlaysNewNames, IInv, NEW n \in Functions, NEW u \in Fresh, NEW o \in BOOLEAN,
           AddStruct(n, u, o)
    PROVE  IInv'
<1> DEFINE c == Current(n)
           f == Install(c, "struct", u, o)
           e == [f EXCEPT !.last = "struct"]
<1>1. /\ c \in EntryType /\ c.name = n /\ Single(c)
      /\ \A s \in Slots : c.owns[s] <=> c.ud[s] \in owned
    BY CurrentKeeps, Zenon
<1>2. u \in Userdata /\ u \notin given /\ "main" \in Slots /\ "struct" \in Callbacks
      /\ SlotOf("struct") = "main" /\ None \notin Userdata /\ None \notin owned
    BY RegistryAssumption, Zenon DEF Fresh, Slots, Callbacks, SlotOf, IInv, Shape
<1>3. c.installed \subseteq {"handler"}
    BY Zenon DEF OverlaysNewNames, AddStruct, Can, IInv, Shape
<1>4. c.last = "none" /\ c.ud["main"] = None
    BY <1>1, <1>3, Zenon DEF Single, Plain
<1>5. /\ alive /\ Rest /\ Take(u, o) /\ Put(n, e) /\ freed' = freed
    <2>1. c.installed \cap {"sync", "value", "typed"} = {}
        BY <1>3, Zenon
    <2> QED BY <2>1, Zenon DEF AddStruct, Can, FreeingNone
<1>6. /\ f \in EntryType /\ f.name = n /\ f.installed = c.installed \cup {"struct"}
      /\ f.by["struct"] = u
      /\ \A j \in Callbacks \ {"struct"} : f.by[j] = c.by[j]
      /\ f.ud["main"] = u /\ f.owns["main"] = o
      /\ \A s \in Slots \ {"main"} : f.ud[s] = c.ud[s] /\ f.owns[s] = c.owns[s]
    <2> HIDE DEF c
    <2>1. Installs(f, c, "struct", SlotOf("struct"), u, o)
        BY <1>1, <1>2, InstallIs, Zenon
    <2> HIDE DEF f
    <2> QED BY <1>1, <1>2, <2>1, Zenon DEF Installs
<1> HIDE DEF c, f
<1>7. /\ e \in EntryType /\ e.name = n /\ e.last = "struct"
      /\ e.installed = f.installed /\ e.by = f.by /\ e.ud = f.ud /\ e.owns = f.owns
    BY <1>2, <1>6, LastIs, Zenon
<1> HIDE DEF e
<1>8. Single(e)
    <2>1. \A k \in e.installed : k = "handler" \/ k = "struct"
        BY <1>3, <1>6, <1>7, Zenon
    <2>2. ASSUME NEW k \in e.installed
          PROVE  e.ud[SlotOf(k)] = e.by[k]
        <3>1. CASE k = "struct"
            BY <3>1, <1>2, <1>6, <1>7, Zenon
        <3>2. CASE k = "handler"
            <4>1. c.ud["handler"] = c.by["handler"]
                BY <3>2, <2>2, <1>1, <1>6, <1>7, Zenon DEF Single, SlotOf
            <4>2. "handler" \in Slots \ {"main"} /\ "handler" \in Callbacks \ {"struct"}
                  /\ SlotOf("handler") = "handler"
                BY Zenon DEF Slots, Callbacks, SlotOf
            <4> QED BY <3>2, <4>1, <4>2, <1>6, <1>7, Zenon
        <3> QED BY <2>1, <3>1, <3>2, Zenon
    <2>3. e.installed \ {"handler", "codegen"} = {"struct"}
        BY <1>3, <1>6, <1>7, Zenon
    <2> QED BY <1>7, <2>1, <2>2, <2>3, Zenon DEF Single
<1>9. ~c.owns["main"]
    BY <1>1, <1>2, <1>4, Zenon
<1>10. freed' = [v \in Userdata |->
                    freed[v] + IF c.ud["main"] # u /\ c.owns["main"] /\ c.ud["main"] = v
                               THEN 1 ELSE 0]
    BY <1>5, <1>9, SMTT(30) DEF IInv, Shape
<1>11. e.owns["main"] <=> o \/ (c.ud["main"] = u /\ c.owns["main"])
    BY <1>6, <1>7, <1>9, Zenon
<1>12. /\ e.ud["main"] = u
       /\ \A s \in Slots \ {"main"} : e.ud[s] = c.ud[s] /\ e.owns[s] = c.owns[s]
    BY <1>6, <1>7, Zenon
<1>13. Overlays(c, e, "main", u, o)
    BY <1>1, <1>2, <1>5, <1>7, <1>8, <1>10, <1>11, <1>12, Zenon DEF Overlays
<1> QED BY <1>2, <1>7, <1>13, OverlayKeeps, Zenon DEF c

(* cxpr_registry_set_struct_codegen keeps the invariant, also when it is given
   the userdata it holds. *)
LEMMA CodegenKeeps ==
    ASSUME IInv, NEW n \in Functions, NEW o \in BOOLEAN,
           NEW u \in Fresh \cup ({Current(n).ud["codegen"]} \ {None}), SetCodegen(n, u, o)
    PROVE  IInv'
<1> DEFINE c == Current(n)
           q == o \/ (c.ud["codegen"] = u /\ c.owns["codegen"])
           e == Install(c, "codegen", u, q)
<1>1. /\ c \in EntryType /\ c.name = n /\ Single(c) /\ c = Find(n)
    BY CurrentKeeps, Zenon DEF SetCodegen, Current
<1>2. "codegen" \in Slots /\ "codegen" \in Callbacks /\ SlotOf("codegen") = "codegen"
    BY Zenon DEF Slots, Callbacks, SlotOf
<1>3. u \in Userdata /\ (u \notin given \/ u = c.ud["codegen"]) /\ q \in BOOLEAN
    BY <1>1, <1>2, Zenon DEF Fresh, EntryType, Pointers
<1>4. /\ e \in EntryType /\ e.name = n /\ e.last = c.last
      /\ e.installed = c.installed \cup {"codegen"}
      /\ e.by["codegen"] = u
      /\ \A j \in Callbacks \ {"codegen"} : e.by[j] = c.by[j]
      /\ e.ud["codegen"] = u /\ e.owns["codegen"] = q
      /\ \A s \in Slots \ {"codegen"} : e.ud[s] = c.ud[s] /\ e.owns[s] = c.owns[s]
    <2> HIDE DEF c, q
    <2>1. Installs(e, c, "codegen", SlotOf("codegen"), u, q)
        BY <1>1, <1>2, <1>3, InstallIs, Zenon
    <2> HIDE DEF e
    <2> QED BY <1>1, <1>2, <2>1, Zenon DEF Installs
<1>5. /\ alive /\ Rest /\ Take(u, o) /\ Put(n, e) /\ "struct" \in c.installed
      /\ freed' = [v \in Userdata |->
                      freed[v] + IF c.ud["codegen"] # u /\ c.owns["codegen"] /\ c.ud["codegen"] = v
                                 THEN 1 ELSE 0]
    BY <1>1, Zenon DEF SetCodegen, Can, Freeing
<1>6. e.owns["codegen"] <=> o \/ (c.ud["codegen"] = u /\ c.owns["codegen"])
    BY <1>4, Zenon
<1> HIDE DEF c, e, q
<1>7. Single(e)
    <2>1. \A k \in e.installed \ {"body", "record"} : e.ud[SlotOf(k)] = e.by[k]
        <3> SUFFICES ASSUME NEW k \in e.installed \ {"body", "record"}
                     PROVE  e.ud[SlotOf(k)] = e.by[k]
            OBVIOUS
        <3>1. CASE k = "codegen"
            BY <3>1, <1>2, <1>4, Zenon
        <3>2. CASE k # "codegen"
            <4>1. k \in Callbacks /\ c.ud[SlotOf(k)] = c.by[k]
                BY <3>2, <1>1, <1>4, Zenon DEF Single, EntryType
            <4>2. SlotOf(k) \in Slots \ {"codegen"}
                BY <3>2, Zenon DEF SlotOf, Slots
            <4> QED BY <4>1, <4>2, <3>2, <1>4, Zenon
        <3> QED BY <3>1, <3>2, Zenon
    <2>2. e.ud["main"] = c.ud["main"]
        BY <1>4, Zenon DEF Slots
    <2>3. c.last = "struct"
        <3>1. "struct" \in c.installed \ {"handler", "codegen"}
            BY <1>5, Zenon
        <3> QED BY <3>1, <1>1, Zenon DEF Single
    <2> QED BY <1>1, <1>4, <2>1, <2>2, <2>3, Zenon DEF Single
<1>8. Overlays(c, e, "codegen", u, o)
    BY <1>1, <1>3, <1>4, <1>5, <1>6, <1>7, Zenon DEF Overlays
<1> QED BY <1>2, <1>3, <1>4, <1>8, OverlayKeeps, Zenon DEF c

(* An entry cleared of its callbacks and userdata. *)
LEMMA ClearKeeps ==
    ASSUME IInv, alive, Rest, TakeNone, NEW n \in Functions,
           NEW e \in EntryType, e.name = n, Put(n, e), Single(e),
           \A s \in Slots : e.ud[s] = None /\ e.owns[s] = FALSE,
           freed' = [v \in Userdata |-> freed[v] + Cleanups(Current(n), v)]
    PROVE  IInv'
<1> DEFINE c == Current(n)
<1>1. None \notin Userdata /\ given \subseteq Userdata /\ owned \subseteq given
    BY RegistryAssumption, Zenon DEF IInv, Shape
<1>2. given' = given /\ owned' = owned
    BY Zenon DEF TakeNone
<1>3. \A v \in Userdata : ~EntryPlaces(e, v)
    BY <1>1, Zenon DEF EntryPlaces
<1>4. \A v \in Userdata : Cleanups(c, v) =
          IF v \in owned /\ EntryPlaces(c, v) /\ ~EntryPlaces(e, v) THEN 1 ELSE 0
    BY <1>3, CleanupsAre, Zenon
<1> HIDE DEF c
<1>5. freed' = [v \in Userdata |->
                   freed[v] + IF v \in owned /\ EntryPlaces(c, v) /\ ~EntryPlaces(e, v)
                              THEN 1 ELSE 0]
    BY <1>4, Zenon DEF c
<1>6. Replaces(c, e)
    BY <1>1, <1>2, <1>5, Zenon DEF Replaces
<1> QED BY <1>6, RegistrationKeeps, Zenon DEF c

(* cxpr_registry_define_fn keeps the invariant under a name without callbacks. *)
LEMMA DefineKeeps ==
    ASSUME OverlaysNewNames, IInv, NEW n \in Functions, Define(n)
    PROVE  IInv'
<1> DEFINE c == Current(n)
           e == [ClearedForBody(c) EXCEPT !.installed = @ \cup {"body"}, !.last = "body"]
<1>1. /\ c \in EntryType /\ c.name = n /\ c.by \in [Callbacks -> Pointers]
    BY CurrentKeeps, Zenon DEF EntryType
<1>2. c.installed \subseteq {"handler"}
    BY Zenon DEF OverlaysNewNames, Define, Can, IInv, Shape
<1>3. e = [name |-> n, installed |-> {"body"}, ud |-> [s \in Slots |-> None],
           owns |-> [s \in Slots |-> FALSE], by |-> c.by, last |-> "body"]
    <2>1. c.installed \cap {"ast", "struct"} = {}
        BY <1>2, Zenon
    <2>2. ClearedForBody(c) = [name |-> n, installed |-> {}, ud |-> [s \in Slots |-> None],
                               owns |-> [s \in Slots |-> FALSE], by |-> c.by, last |-> "none"]
        <3> HIDE DEF c
        <3>1. Cleared(c) = NewEntry(n)
            BY <1>1, Zenon DEF Cleared
        <3>2. ClearedForBody(c) = [NewEntry(n) EXCEPT !.installed = {}, !.by = c.by]
            BY <3>1, <2>1, Zenon DEF ClearedForBody
        <3> QED BY <3>2, Zenon DEF NewEntry
    <2> DEFINE b == ClearedForBody(c)
    <2>3. e = [b EXCEPT !.installed = b.installed \cup {"body"}, !.last = "body"]
        OBVIOUS
    <2>4. b.installed \cup {"body"} = {"body"}
        BY <2>2
    <2> HIDE DEF b, c, e
    <2>5. b = [name |-> n, installed |-> {}, ud |-> [s \in Slots |-> None],
               owns |-> [s \in Slots |-> FALSE], by |-> c.by, last |-> "none"]
        BY <2>2, Zenon DEF b
    <2> QED BY <2>3, <2>4, <2>5, Zenon
<1>4. Put(n, e) /\ alive /\ Rest /\ TakeNone
      /\ freed' = [v \in Userdata |-> freed[v] + Cleanups(Current(n), v)]
    BY Zenon DEF Define, Can, Freeing
<1> HIDE DEF c, e
<1>5. e \in EntryType
    BY <1>1, <1>3, Zenon DEF EntryType, Pointers, Callbacks
<1>6. Single(e) /\ e.name = n /\ \A s \in Slots : e.ud[s] = None /\ e.owns[s] = FALSE
    BY <1>3, Zenon DEF Single, Plain, Slots
<1> QED BY <1>4, <1>5, <1>6, ClearKeeps, Zenon

(* cxpr_registry_define_record_fn keeps the invariant. *)
LEMMA DefineRecordKeeps ==
    ASSUME IInv, NEW n \in Functions, DefineRecord(n)
    PROVE  IInv'
<1> DEFINE c == Current(n)
           e == [Cleared(c) EXCEPT !.installed = {"record"}, !.last = "record"]
<1>1. c.name = n
    BY CurrentKeeps, Zenon
<1>2. e = [name |-> n, installed |-> {"record"}, ud |-> [s \in Slots |-> None],
           owns |-> [s \in Slots |-> FALSE], by |-> [k \in Callbacks |-> None], last |-> "record"]
    <2>1. Cleared(c) = NewEntry(n)
        BY <1>1, Zenon DEF Cleared
    <2>2. e = [NewEntry(n) EXCEPT !.installed = {"record"}, !.last = "record"]
        BY <2>1, Zenon
    <2> HIDE DEF c, e
    <2> QED BY <2>2, Zenon DEF NewEntry
<1>3. Put(n, e) /\ alive /\ Rest /\ TakeNone
      /\ freed' = [v \in Userdata |-> freed[v] + Cleanups(Current(n), v)]
    BY Zenon DEF DefineRecord, Can, Freeing
<1> HIDE DEF c, e
<1>4. e \in EntryType
    BY <1>2, Zenon DEF EntryType, Pointers, Callbacks
<1>5. Single(e) /\ e.name = n /\ \A s \in Slots : e.ud[s] = None /\ e.owns[s] = FALSE
    BY <1>2, Zenon DEF Single, Plain, Slots
<1> QED BY <1>3, <1>4, <1>5, ClearKeeps, Zenon

-----------------------------------------------------------------------------
(* The lookback resolver, the index capabilities and the end *)

(* cxpr_registry_set_lookback_resolver keeps the invariant, also when it is given
   the userdata it holds. *)
LEMMA LookbackKeeps ==
    ASSUME IInv, NEW o \in BOOLEAN, NEW u \in Fresh \cup ({lookback.ud} \ {None}),
           SetLookback(u, o)
    PROVE  IInv'
<1>1. /\ u \in Userdata /\ (u \notin given \/ u = lookback.ud)
      /\ lookback.ud \in Pointers /\ None \notin Userdata /\ owned \subseteq given
      /\ given \subseteq Userdata
    BY RegistryAssumption, Zenon DEF Fresh, IInv, Shape, Pointers
<1>2. /\ lookback' = [ud |-> u, owns |-> o \/ (lookback.ud = u /\ lookback.owns)]
      /\ freed' = [v \in Userdata |->
                      freed[v] + IF lookback.ud # u /\ lookback.owns /\ lookback.ud = v
                                 THEN 1 ELSE 0]
      /\ use' = use /\ entries' = entries /\ index' = index /\ alive' = alive
      /\ alive /\ At' = At /\ IndexAt' = IndexAt /\ Take(u, o)
    BY Zenon DEF SetLookback, Freeing, At, IndexAt
<1>3. /\ u \in given' /\ given \subseteq given' /\ owned \subseteq owned'
      /\ owned' \subseteq given' /\ given' \subseteq Userdata
      /\ \A v : v # u => (v \in owned' <=> v \in owned)
      /\ u \in owned' <=> o \/ u \in owned
    BY <1>1, <1>2, TakeIs, Zenon DEF IInv
<1>4. Shape'
    <2>1. freed' \in [Userdata -> Nat]
        BY <1>2 DEF IInv, Shape
    <2>2. lookback' \in [ud : Pointers, owns : BOOLEAN]
        BY <1>1, <1>2, Zenon DEF Pointers
    <2> QED BY <1>2, <1>3, <2>1, <2>2, Zenon DEF IInv, Shape
<1>5. Singles'
    BY <1>2, Zenon DEF IInv, Singles
(* The new userdata is placed nowhere else. *)
<1>6. /\ \A i \in At, s \in Slots : entries[i].ud[s] # u
      /\ \A k \in IndexAt : index[k].ud # u
    <2>1. CASE u \notin given
        BY <2>1, <1>1, Zenon DEF IInv, FreedWhenDisplaced, Placed, EntryPlaces
    <2>2. CASE u = lookback.ud
        BY <2>2, <1>1, Zenon DEF IInv, Apart
    <2> QED BY <1>1, <2>1, <2>2, Zenon
<1>7. Apart'
    BY <1>2, <1>6, SMTT(30) DEF IInv, Apart
<1>8. OwnedInPlace'
    <2>1. lookback'.owns <=> lookback'.ud \in owned'
        <3>1. lookback.owns <=> lookback.ud \in owned
            BY Zenon DEF IInv, OwnedInPlace
        <3>2. lookback'.ud = u /\ (lookback'.owns <=> o \/ (lookback.ud = u /\ lookback.owns))
            BY <1>2, Zenon
        <3> QED BY <3>1, <3>2, <1>1, <1>3, Zenon
    <2>2. \A i \in At, s \in Slots : entries[i].owns[s] <=> entries[i].ud[s] \in owned'
        BY <1>3, <1>6, Zenon DEF IInv, OwnedInPlace
    <2>3. \A k \in IndexAt : index[k].ud \in owned <=> index[k].ud \in owned'
        BY <1>3, <1>6, Zenon
    <2> QED BY <1>2, <2>1, <2>2, <2>3, Zenon DEF IInv, OwnedInPlace
<1>9. FreedWhenDisplaced'
    <2> SUFFICES ASSUME NEW v \in Userdata
                 PROVE  /\ Placed(v)' => v \in given'
                        /\ freed'[v] = IF v \in owned' /\ (alive' => ~Placed(v)') THEN 1 ELSE 0
        BY Zenon DEF FreedWhenDisplaced
    <2> DEFINE Elsewhere == \/ \E i \in At : EntryPlaces(entries[i], v)
                            \/ \E k \in IndexAt : index[k].ud = v
    <2>1. Placed(v) <=> lookback.ud = v \/ Elsewhere
        BY Zenon DEF Placed
    <2>2. Placed(v)' <=> v = u \/ Elsewhere
        BY <1>2, Zenon DEF Placed, EntryPlaces
    <2>3. v = u \/ v = lookback.ud => ~Elsewhere
        BY <1>6, <1>1, Zenon DEF IInv, Apart, EntryPlaces
    <2>4. lookback.owns <=> lookback.ud \in owned
        BY Zenon DEF IInv, OwnedInPlace
    <2>5. /\ Placed(v) => v \in given
          /\ freed[v] = IF v \in owned /\ ~Placed(v) THEN 1 ELSE 0
        <3>1. FreedWhenDisplaced
            BY Zenon DEF IInv
        <3> QED BY <1>2, <3>1, Zenon DEF FreedWhenDisplaced
    <2>6. freed'[v] = freed[v] + IF lookback.ud # u /\ lookback.owns /\ lookback.ud = v
                                 THEN 1 ELSE 0
        BY <1>2, Zenon
    <2> HIDE DEF Elsewhere
    <2>7. CASE v = u
        <3>1. Placed(v)' /\ v \in given' /\ alive'
            BY <2>2, <2>7, <1>2, <1>3, Zenon
        <3>2. v \notin owned \/ Placed(v)
            BY <2>1, <2>7, <1>1, Zenon
        <3>3. freed[v] = 0 /\ freed'[v] = freed[v] + 0
            BY <2>5, <2>6, <2>7, <3>2, Zenon
        <3> QED BY <3>1, <3>3
    <2>8. CASE v # u
        <3>1. /\ alive' /\ (Placed(v)' <=> Elsewhere) /\ (v \in owned' <=> v \in owned)
              /\ (v \in given => v \in given')
            BY <2>2, <2>8, <1>2, <1>3, Zenon
        <3>2. CASE v = lookback.ud
            <4>1. ~Elsewhere /\ Placed(v) /\ (lookback.owns <=> v \in owned) /\ lookback.ud # u
                BY <2>1, <2>3, <2>4, <2>8, <3>2, Zenon
            <4>2. freed[v] = 0 /\ freed'[v] = IF v \in owned THEN 1 ELSE 0
                BY <2>5, <2>6, <3>2, <4>1
            <4> QED BY <3>1, <4>1, <4>2, Zenon
        <3>3. CASE v # lookback.ud
            <4>1. Placed(v) <=> Elsewhere
                BY <2>1, <3>3, Zenon
            <4>2. freed'[v] = freed[v] + 0 /\ freed[v] \in {0, 1}
                BY <2>5, <2>6, <3>3, Zenon
            <4> QED BY <2>5, <3>1, <4>1, <4>2
        <3> QED BY <3>2, <3>3, Zenon
    <2> QED BY <2>7, <2>8, Zenon
<1> QED BY <1>4, <1>5, <1>7, <1>8, <1>9, Zenon DEF IInv

(* A capability for several targets is owned by the entry of the first. *)
LEMMA IndexKeeps ==
    ASSUME IInv, NEW targets \in Seq(Targets), targets # <<>>,
           NEW u \in Fresh, NEW o \in BOOLEAN, AddIndex(targets, u, o)
    PROVE  IInv'
<1> DEFINE added == [i \in DOMAIN targets |-> [target |-> targets[i], ud |-> u, owns |-> o /\ i = 1]]
           len == Len(index)
<1>1. u \in Userdata /\ u \notin given /\ owned \subseteq given /\ given \subseteq Userdata
    BY Zenon DEF Fresh, IInv, Shape
<1>2. /\ index' = index \o added /\ Take(u, o) /\ freed' = freed
      /\ use' = use /\ entries' = entries /\ lookback' = lookback /\ alive' = alive /\ alive
      /\ At' = At
    BY Zenon DEF AddIndex, FreeingNone, At
<1>3. /\ u \in given' /\ given \subseteq given' /\ owned \subseteq owned'
      /\ owned' \subseteq given' /\ given' \subseteq Userdata
      /\ \A v : v # u => (v \in owned' <=> v \in owned)
      /\ u \in owned' <=> o
    BY <1>1, <1>2, TakeIs, Zenon DEF IInv
<1>4. /\ added \in Seq(IndexType) /\ Len(added) = Len(targets) /\ Len(added) \in Nat \ {0}
      /\ \A i \in 1 .. Len(added) : added[i].ud = u /\ (added[i].owns <=> o /\ i = 1)
    <2>1. DOMAIN targets = 1 .. Len(targets) /\ Len(targets) \in Nat \ {0}
        OBVIOUS
    <2>2. \A i \in DOMAIN targets : [target |-> targets[i], ud |-> u, owns |-> o /\ i = 1] \in IndexType
        BY <1>1, SMTT(30) DEF IndexType
    <2>3. added \in [1 .. Len(targets) -> IndexType]
        BY <2>1, <2>2, Zenon
    <2>4. \A i \in 1 .. Len(targets) : added[i].ud = u /\ (added[i].owns <=> o /\ i = 1)
        BY <2>1, Zenon
    <2> HIDE DEF added
    <2>5. added \in Seq(IndexType) /\ Len(added) = Len(targets)
        BY <2>1, <2>3
    <2> QED BY <2>1, <2>4, <2>5, Zenon
<1> HIDE DEF added
<1>5. /\ index' \in Seq(IndexType) /\ Len(index') = len + Len(added)
      /\ \A k \in 1 .. Len(index') : index'[k] = IF k <= len THEN index[k] ELSE added[k - len]
    <2>1. index \in Seq(IndexType)
        BY Zenon DEF IInv, Shape
    <2>2. /\ index \o added \in Seq(IndexType) /\ Len(index \o added) = len + Len(added)
          /\ \A k \in 1 .. len + Len(added) :
                (index \o added)[k] = IF k <= len THEN index[k] ELSE added[k - len]
        BY <1>4, <2>1, Joined, Zenon
    <2> QED BY <1>2, <2>2, Zenon
<1>6. /\ len \in Nat /\ IndexAt = 1 .. len /\ IndexAt' = 1 .. (len + Len(added))
      /\ IndexAt \subseteq IndexAt' /\ len + 1 \in IndexAt'
    BY <1>4, <1>5 DEF IInv, Shape, IndexAt
<1>7. /\ \A k \in IndexAt : index'[k] = index[k]
      /\ \A k \in IndexAt' \ IndexAt : index'[k].ud = u /\ (index'[k].owns <=> o /\ k = len + 1)
    <2>1. \A k \in IndexAt : index'[k] = index[k]
        BY <1>5, <1>6
    <2>2. ASSUME NEW k \in IndexAt' \ IndexAt
          PROVE  index'[k].ud = u /\ (index'[k].owns <=> o /\ k = len + 1)
        <3>1. k - len \in 1 .. Len(added) /\ (k - len = 1 <=> k = len + 1)
            BY <1>4, <1>6
        <3>2. index'[k] = added[k - len]
            <4>1. k \in 1 .. Len(index') /\ ~(k <= len)
                BY <1>4, <1>5, <1>6
            <4> QED BY <1>5, <4>1, Zenon
        <3> QED BY <3>1, <3>2, <1>4, Zenon
    <2> QED BY <2>1, <2>2, Zenon
<1>8. ~Placed(u)
    BY <1>1, Zenon DEF IInv, FreedWhenDisplaced
<1>9. Shape'
    BY <1>2, <1>3, <1>5, Zenon DEF IInv, Shape
<1>10. Singles'
    BY <1>2, Zenon DEF IInv, Singles
<1>11. Apart'
    <2>1. /\ \A i \in At, s \in Slots : entries[i].ud[s] # u
          /\ lookback.ud # u
        BY <1>8, Zenon DEF Placed, EntryPlaces
    <2>2. \A k \in IndexAt' : (k \in IndexAt /\ index'[k] = index[k]) \/ index'[k].ud = u
        BY <1>7, Zenon
    <2>3. \A i \in At, s \in Slots : entries[i].ud[s] \in Userdata =>
             \A k \in IndexAt' : index'[k].ud # entries[i].ud[s]
        BY <2>1, <2>2 DEF IInv, Apart
    <2>4. \A k \in IndexAt' : index'[k].ud # lookback.ud
        BY <2>1, <2>2, Zenon DEF IInv, Apart
    <2>5. \A i, j \in At, s, t \in Slots :
             entries[i].ud[s] \in Userdata /\ entries[i].ud[s] = entries[j].ud[t] => i = j /\ s = t
        BY Zenon DEF IInv, Apart
    <2>6. \A i \in At, s \in Slots : entries[i].ud[s] \in Userdata => lookback.ud # entries[i].ud[s]
        BY Zenon DEF IInv, Apart
    <2>7. At' = At /\ entries' = entries /\ lookback' = lookback
        BY <1>2, Zenon
    <2> QED BY <2>3, <2>4, <2>5, <2>6, <2>7, SMTT(30) DEF Apart
<1>12. OwnedInPlace'
    <2>1. /\ \A i \in At, s \in Slots : entries[i].ud[s] # u
          /\ lookback.ud # u
          /\ \A k \in IndexAt : index[k].ud # u
        BY <1>8, Zenon DEF Placed, EntryPlaces
    <2>2. /\ \A i \in At, s \in Slots : entries[i].owns[s] <=> entries[i].ud[s] \in owned'
          /\ lookback.owns <=> lookback.ud \in owned'
        <3>1. OwnedInPlace
            BY Zenon DEF IInv
        <3> QED BY <1>3, <2>1, <3>1, SMTT(30) DEF OwnedInPlace
    <2>3. \A k \in IndexAt' : index'[k].owns => index'[k].ud \in owned'
        BY <1>3, <1>7, Zenon DEF IInv, OwnedInPlace
    <2>4. ASSUME NEW k \in IndexAt', index'[k].ud \in owned'
          PROVE  \E m \in IndexAt' : index'[m].owns /\ index'[m].ud = index'[k].ud
        <3>1. CASE k \in IndexAt
            <4>1. index[k].ud \in owned
                BY <3>1, <2>1, <2>4, <1>3, <1>7, Zenon
            <4>2. PICK m \in IndexAt : index[m].owns /\ index[m].ud = index[k].ud
                BY <3>1, <4>1, Zenon DEF IInv, OwnedInPlace
            <4> QED BY <3>1, <4>2, <1>6, <1>7, Zenon
        <3>2. CASE k \notin IndexAt
            <4>1. index'[k].ud = u /\ o
                BY <3>2, <2>4, <1>3, <1>7, Zenon
            <4>2. len + 1 \in IndexAt' \ IndexAt
                BY <1>6
            <4> QED BY <4>1, <4>2, <1>7, Zenon
        <3> QED BY <3>1, <3>2, Zenon
    <2>5. ASSUME NEW k \in IndexAt', NEW m \in IndexAt',
                 index'[k].owns, index'[m].owns, index'[k].ud = index'[m].ud
          PROVE  k = m
        <3>1. CASE k \in IndexAt /\ m \in IndexAt
            BY <3>1, <2>5, <1>7, Zenon DEF IInv, OwnedInPlace
        <3>2. CASE k \notin IndexAt /\ m \notin IndexAt
            BY <3>2, <2>5, <1>7
        <3>3. CASE ~(k \in IndexAt <=> m \in IndexAt)
            BY <3>3, <2>5, <1>7, <2>1, Zenon
        <3> QED BY <3>1, <3>2, <3>3, Zenon
    <2> QED BY <1>2, <2>2, <2>3, <2>4, <2>5, Zenon DEF OwnedInPlace
<1>13. FreedWhenDisplaced'
    <2> SUFFICES ASSUME NEW v \in Userdata
                 PROVE  /\ Placed(v)' => v \in given'
                        /\ freed'[v] = IF v \in owned' /\ (alive' => ~Placed(v)') THEN 1 ELSE 0
        BY Zenon DEF FreedWhenDisplaced
    <2>1. Placed(v)' <=> Placed(v) \/ v = u
        <3>1. (\E k \in IndexAt' : index'[k].ud = v) <=> (\E k \in IndexAt : index[k].ud = v) \/ v = u
            <4>1. len + 1 \in IndexAt' \ IndexAt
                BY <1>6
            <4> QED BY <4>1, <1>6, <1>7, Zenon
        <3> QED BY <3>1, <1>2, Zenon DEF Placed, EntryPlaces
    <2>2. /\ Placed(v) => v \in given
          /\ freed[v] = IF v \in owned /\ ~Placed(v) THEN 1 ELSE 0
        BY <1>2, Zenon DEF IInv, FreedWhenDisplaced
    <2>3. v # u => (v \in owned' <=> v \in owned)
        BY <1>3, Zenon
    <2>4. CASE v = u
        BY <2>1, <2>2, <2>4, <1>1, <1>2, <1>3, Zenon
    <2>5. CASE v # u
        BY <2>1, <2>2, <2>3, <2>5, <1>2, <1>3, Zenon
    <2> QED BY <2>4, <2>5, Zenon
<1> QED BY <1>9, <1>10, <1>11, <1>12, <1>13, Zenon DEF IInv

(* Freeing the registry cleans up what is still placed and owned, once each. *)
LEMMA FreeKeeps ==
    ASSUME IInv, Free
    PROVE  IInv'
<1>1. /\ alive /\ alive' = FALSE
      /\ use' = use /\ entries' = entries /\ lookback' = lookback /\ index' = index
      /\ given' = given /\ owned' = owned /\ At' = At /\ IndexAt' = IndexAt
    BY Zenon DEF Free, At, IndexAt
<1> DEFINE L(v) == IF lookback.owns /\ lookback.ud = v THEN 1 ELSE 0
           slots(v) == {p \in (1..Len(entries)) \X Slots :
                           entries[p[1]].owns[p[2]] /\ entries[p[1]].ud[p[2]] = v}
           firsts(v) == {i \in DOMAIN index : index[i].ud = v /\ index[i].owns}
<1>2. freed' = [v \in Userdata |-> freed[v] + (L(v) + EntryCleanups(v) + IndexCleanups(v))]
    BY Zenon DEF Free, Freeing
<1>3. DOMAIN index = IndexAt
    BY DEF IInv, Shape, IndexAt
<1>4. ASSUME NEW v \in Userdata
      PROVE  L(v) + EntryCleanups(v) + IndexCleanups(v) = IF v \in owned /\ Placed(v) THEN 1 ELSE 0
    <2>1. slots(v) = {} => EntryCleanups(v) = 0
        BY FS_EmptySet, Zenon DEF EntryCleanups
    <2>2. firsts(v) = {} => IndexCleanups(v) = 0
        BY FS_EmptySet, Zenon DEF IndexCleanups
    <2>3. CASE ~(v \in owned /\ Placed(v))
        <3>1. slots(v) = {}
            BY <2>3, SMTT(30) DEF IInv, OwnedInPlace, Placed, EntryPlaces, At
        <3>2. firsts(v) = {}
            BY <2>3, <1>3 DEF IInv, OwnedInPlace, Placed
        <3>3. L(v) = 0
            BY <2>3, Zenon DEF IInv, OwnedInPlace, Placed
        <3> QED BY <2>1, <2>2, <2>3, <3>1, <3>2, <3>3
    <2>4. CASE v \in owned /\ lookback.ud = v
        <3>1. slots(v) = {}
            BY <2>4, Zenon DEF IInv, Apart, At
        <3>2. firsts(v) = {}
            BY <2>4, <1>3, Zenon DEF IInv, Apart
        <3>3. L(v) = 1 /\ Placed(v)
            BY <2>4, Zenon DEF IInv, OwnedInPlace, Placed
        <3> QED BY <2>1, <2>2, <2>4, <3>1, <3>2, <3>3, SMTT(30)
    <2>5. CASE v \in owned /\ \E i \in At : EntryPlaces(entries[i], v)
        <3>1. PICK i \in At, s \in Slots : entries[i].ud[s] = v
            BY <2>5, Zenon DEF EntryPlaces
        <3>2. slots(v) = {<<i, s>>}
            <4>1. <<i, s>> \in slots(v)
                BY <2>5, <3>1, Zenon DEF IInv, OwnedInPlace, At
            <4>2. ASSUME NEW p \in slots(v)
                  PROVE  p = <<i, s>>
                <5>1. p = <<p[1], p[2]>> /\ p[1] \in At /\ p[2] \in Slots /\ entries[p[1]].ud[p[2]] = v
                    BY DEF At
                <5>2. p[1] = i /\ p[2] = s
                    BY <5>1, <3>1, SMTT(30) DEF IInv, Apart
                <5> QED BY <5>1, <5>2, Zenon
            <4> QED BY <4>1, <4>2, Zenon
        <3>3. EntryCleanups(v) = 1
            BY <3>2, FS_Singleton, Zenon DEF EntryCleanups
        <3>4. firsts(v) = {}
            BY <3>1, <1>3, Zenon DEF IInv, Apart
        <3>5. L(v) = 0
            BY <3>1, Zenon DEF IInv, Apart
        <3>6. Placed(v)
            BY <2>5, Zenon DEF Placed
        <3> QED BY <2>2, <2>5, <3>3, <3>4, <3>5, <3>6, SMTT(30)
    <2>6. CASE v \in owned /\ \E k \in IndexAt : index[k].ud = v
        <3>1. PICK m \in IndexAt : index[m].owns /\ index[m].ud = v
            BY <2>6, Zenon DEF IInv, OwnedInPlace
        <3>2. firsts(v) = {m}
            BY <3>1, <1>3 DEF IInv, OwnedInPlace
        <3>3. IndexCleanups(v) = 1
            BY <3>2, FS_Singleton, Zenon DEF IndexCleanups
        <3>4. slots(v) = {}
            BY <3>1 DEF IInv, Apart, At
        <3>5. L(v) = 0
            BY <3>1, Zenon DEF IInv, Apart
        <3>6. Placed(v)
            BY <2>6, Zenon DEF Placed
        <3> QED BY <2>1, <2>6, <3>3, <3>4, <3>5, <3>6
    <2> QED BY <2>3, <2>4, <2>5, <2>6, Zenon DEF Placed
<1> HIDE DEF L
<1>5. ASSUME NEW v \in Userdata
      PROVE  freed'[v] = IF v \in owned THEN 1 ELSE 0
    <2>1. freed[v] = IF v \in owned /\ ~Placed(v) THEN 1 ELSE 0
        BY <1>1, Zenon DEF IInv, FreedWhenDisplaced
    <2>2. freed'[v] = freed[v] + (L(v) + EntryCleanups(v) + IndexCleanups(v))
        BY <1>2, Zenon
    <2> QED BY <2>1, <2>2, <1>4
<1>6. freed' \in [Userdata -> Nat]
    <2>1. freed' = [v \in Userdata |-> freed'[v]]
        BY <1>2, Zenon
    <2> QED BY <2>1, <1>5
<1>7. Shape' /\ Singles' /\ Apart' /\ OwnedInPlace'
    <2>1. Shape'
        BY <1>1, <1>6, Zenon DEF IInv, Shape
    <2>2. Singles'
        BY <1>1, Zenon DEF IInv, Singles
    <2>3. Apart'
        BY <1>1, SMTT(30) DEF IInv, Apart
    <2>4. OwnedInPlace'
        BY <1>1, Zenon DEF IInv, OwnedInPlace
    <2> QED BY <2>1, <2>2, <2>3, <2>4, Zenon
<1>8. FreedWhenDisplaced'
    <2>1. \A v \in Userdata : Placed(v)' <=> Placed(v)
        BY <1>1, Zenon DEF Placed, EntryPlaces
    <2> QED BY <2>1, <1>1, <1>5, Zenon DEF IInv, FreedWhenDisplaced
<1> QED BY <1>7, <1>8, Zenon DEF IInv

-----------------------------------------------------------------------------
(* The theorems *)

(* A step that leaves the registry alone keeps the invariant. *)
LEMMA Quiet ==
    ASSUME IInv, UNCHANGED <<use, entries, lookback, index, given, owned, freed, alive>>
    PROVE  IInv'
<1>1. At' = At /\ IndexAt' = IndexAt
    BY Zenon DEF At, IndexAt
<1>2. Shape'
    BY <1>1, Zenon DEF IInv, Shape
<1>3. Singles'
    BY <1>1, Zenon DEF IInv, Singles
<1>4. Apart'
    BY <1>1, SMTT(30) DEF IInv, Apart
<1>5. OwnedInPlace'
    BY <1>1, Zenon DEF IInv, OwnedInPlace
<1>6. \A u \in Userdata : Placed(u)' <=> Placed(u)
    BY <1>1, Zenon DEF Placed, EntryPlaces
<1>7. FreedWhenDisplaced'
    BY <1>6, Zenon DEF IInv, FreedWhenDisplaced
<1> QED BY <1>2, <1>3, <1>4, <1>5, <1>7, Zenon DEF IInv

(* A new registry satisfies the invariant. *)
LEMMA Initially == RegistryInit => IInv
<1> SUFFICES ASSUME RegistryInit PROVE IInv
    OBVIOUS
<1>1. At = {} /\ IndexAt = {}
    BY DEF RegistryInit, At, IndexAt
<1>2. Shape
    BY <1>1 DEF RegistryInit, Shape, Pointers
<1>3. \A u \in Userdata : ~Placed(u)
    <2>1. lookback.ud = None /\ None \notin Userdata
        BY RegistryAssumption, Zenon DEF RegistryInit
    <2> QED BY <1>1, <2>1, Zenon DEF Placed
<1>4. FreedWhenDisplaced
    BY <1>3, Zenon DEF RegistryInit, FreedWhenDisplaced
<1>5. Singles /\ Apart
    BY <1>1, Zenon DEF Singles, Apart
<1>6. OwnedInPlace
    BY <1>1, Zenon DEF RegistryInit, OwnedInPlace
<1> QED BY <1>2, <1>4, <1>5, <1>6, Zenon DEF IInv

(* Every operation keeps the invariant. *)
LEMMA Preserved ==
    ASSUME OverlaysNewNames, IInv, [RegistryNext]_registryVars
    PROVE  IInv'
<1>1. CASE \E n \in Functions, o \in BOOLEAN, u \in Fresh, kind \in Plain : Add(kind, n, u, o)
    BY <1>1, AddKeeps, Zenon
<1>2. CASE \E n \in Functions, o \in BOOLEAN, u \in Fresh : AddHandler(n, u, o)
    BY <1>2, HandlerKeeps, Zenon
<1>3. CASE \E n \in Functions, o \in BOOLEAN, u \in Fresh : AddStruct(n, u, o)
    BY <1>3, StructKeeps, Zenon
<1>4. CASE \E n \in Functions, o \in BOOLEAN :
              \E u \in Fresh \cup ({Current(n).ud["codegen"]} \ {None}) : SetCodegen(n, u, o)
    BY <1>4, CodegenKeeps, Zenon
<1>5. CASE \E n \in Functions : Define(n)
    BY <1>5, DefineKeeps, Zenon
<1>6. CASE \E n \in Functions : DefineRecord(n)
    BY <1>6, DefineRecordKeeps, Zenon
<1>7. CASE \E n \in Functions : SetParamNames(n)
    BY <1>7, Quiet, Zenon DEF SetParamNames, TakeNone, FreeingNone, Rest
<1>8. CASE \E n \in Functions : Lookup(n)
    BY <1>8, Quiet, Zenon DEF Lookup
<1>9. CASE \E u \in Fresh \cup ({lookback.ud} \ {None}), o \in BOOLEAN : SetLookback(u, o)
    BY <1>9, LookbackKeeps, Zenon
<1>10. CASE \E a, b \in Targets, u \in Fresh, o \in BOOLEAN :
               AddIndex(IF a = b THEN <<a>> ELSE <<a, b>>, u, o)
    <2>1. PICK a \in Targets, b \in Targets, u \in Fresh, o \in BOOLEAN :
              AddIndex(IF a = b THEN <<a>> ELSE <<a, b>>, u, o)
        BY <1>10, Zenon
    <2> DEFINE targets == IF a = b THEN <<a>> ELSE <<a, b>>
    <2>2. targets \in Seq(Targets) /\ targets # <<>>
        OBVIOUS
    <2>3. AddIndex(targets, u, o)
        BY <2>1, Zenon
    <2> HIDE DEF targets
    <2> QED BY <2>2, <2>3, IndexKeeps, Zenon
<1>11. CASE Free
    BY <1>11, FreeKeeps, Zenon
<1>12. CASE UNCHANGED registryVars
    BY <1>12, Quiet, Zenon DEF registryVars
<1> QED BY <1>1, <1>2, <1>3, <1>4, <1>5, <1>6, <1>7, <1>8, <1>9, <1>10, <1>11, <1>12, Zenon DEF RegistryNext

(* The invariant holds throughout. *)
LEMMA Invariance ==
    ASSUME OverlaysNewNames
    PROVE  RegistrySpec => []IInv
<1>1. IInv /\ [RegistryNext]_registryVars => IInv'
    BY Preserved, Zenon
<1> QED BY <1>1, Initially, PTL DEF RegistrySpec

(* However registrations replace and overlay each other, a userdata is cleaned up
   at most once and only with a cleanup; cxpr_registry_free leaves none behind. *)
THEOREM OwnershipExact ==
    ASSUME OverlaysNewNames
    PROVE  RegistrySpec => []FreedOnce
<1>1. IInv => FreedOnce
    BY DEF IInv, Shape, FreedWhenDisplaced, FreedOnce
<1> QED BY <1>1, Invariance, PTL

(* A callback that a call can reach is installed. *)
LEMMA ReachableIsInstalled ==
    ASSUME NEW e \in EntryType, NEW k \in Reachable(e)
    PROVE  k \in e.installed \ {"body", "record"} /\ SlotOf(k) \in Slots
BY Zenon DEF Reachable, Dispatch, SlotOf, Slots

(* No callback, lookback resolver or index capability that can still be called
   holds a userdata that was cleaned up. *)
THEOREM NothingDangles ==
    ASSUME OverlaysNewNames
    PROVE  RegistrySpec => []HeldAlive
<1>1. IInv => HeldAlive
    <2> SUFFICES ASSUME IInv, alive PROVE HeldAlive
        BY Zenon DEF HeldAlive
    <2>1. \A u \in Userdata : Placed(u) => freed[u] = 0
        BY Zenon DEF IInv, FreedWhenDisplaced
    <2>2. DOMAIN entries = At /\ DOMAIN index = IndexAt
        BY DEF IInv, Shape, At, IndexAt
    <2>3. ASSUME NEW i \in At, NEW k \in Reachable(entries[i]), entries[i].ud[SlotOf(k)] # None
          PROVE  freed[entries[i].ud[SlotOf(k)]] = 0
        <3>1. entries[i] \in EntryType
            BY <2>2 DEF IInv, Shape
        <3>2. SlotOf(k) \in Slots
            BY <3>1, ReachableIsInstalled, Zenon
        <3>3. entries[i].ud[SlotOf(k)] \in Userdata
            BY <3>1, <3>2, <2>3, Zenon DEF EntryType, Pointers
        <3> QED BY <2>1, <3>2, <3>3, Zenon DEF Placed, EntryPlaces
    <2>4. lookback.ud # None => freed[lookback.ud] = 0
        BY <2>1, Zenon DEF Placed, IInv, Shape, Pointers
    <2>5. \A k \in IndexAt : freed[index[k].ud] = 0
        <3>1. \A k \in IndexAt : index[k].ud \in Userdata
            <4>1. \A k \in IndexAt : index[k] \in IndexType
                BY DEF IInv, Shape, IndexAt
            <4> QED BY <4>1, Zenon DEF IndexType
        <3> QED BY <2>1, <3>1, Zenon DEF Placed
    <2>6. \A i \in DOMAIN entries : \A k \in Reachable(entries[i]) :
             entries[i].ud[SlotOf(k)] # None => freed[entries[i].ud[SlotOf(k)]] = 0
        BY <2>2, <2>3, Zenon
    <2> QED BY <2>2, <2>4, <2>5, <2>6, Zenon DEF HeldAlive
<1> QED BY <1>1, Invariance, PTL

(* Every callback is called with the userdata it was registered with. *)
THEOREM OwnUserdata ==
    ASSUME OverlaysNewNames
    PROVE  RegistrySpec => []CalledWithOwnUserdata
<1>1. IInv => CalledWithOwnUserdata
    <2> SUFFICES ASSUME IInv, NEW i \in DOMAIN entries, NEW k \in Reachable(entries[i])
                 PROVE  entries[i].ud[SlotOf(k)] = entries[i].by[k]
        BY Zenon DEF CalledWithOwnUserdata
    <2>1. entries[i] \in EntryType /\ i \in At
        BY DEF IInv, Shape, At
    <2>2. k \in entries[i].installed \ {"body", "record"}
        BY <2>1, ReachableIsInstalled, Zenon
    <2> QED BY <2>1, <2>2, Zenon DEF IInv, Singles, Single
<1> QED BY <1>1, Invariance, PTL

(* A call reaches what was registered last under its name, or the handler laid
   over it: no earlier callback of the entry answers. *)
THEOREM LastAnswers ==
    ASSUME OverlaysNewNames
    PROVE  RegistrySpec => []LastRegistrationAnswers
<1>1. IInv => LastRegistrationAnswers
    <2> SUFFICES ASSUME IInv, NEW i \in DOMAIN entries
                 PROVE  Dispatch(entries[i]) =
                            IF "handler" \in entries[i].installed THEN "handler" ELSE entries[i].last
        BY Zenon DEF LastRegistrationAnswers
    <2>1. entries[i] \in EntryType /\ Single(entries[i])
        BY SMTT(30) DEF IInv, Shape, At, Singles
    <2>2. \A k : k \in entries[i].installed /\ k \notin {"handler", "codegen"} <=>
                 k = entries[i].last /\ k # "none"
        BY <2>1, Zenon DEF Single, EntryType, Callbacks, Plain
    <2>3. entries[i].last \in Callbacks \cup {"none"}
        BY <2>1, Zenon DEF EntryType
    <2> QED BY <2>1, <2>2, <2>3 DEF Dispatch, Callbacks, Plain
<1> QED BY <1>1, Invariance, PTL

-----------------------------------------------------------------------------
(* The lookup cache, for every use of the registry *)

(* No cached lookup is from a later version, and the one of this version holds.
   The entries are a sequence: position 0 stands for none. *)
CacheInv ==
    /\ version \in Nat
    /\ Len(entries) \in Nat /\ entries = [i \in 1 .. Len(entries) |-> entries[i]]
    /\ \A n \in Functions : cached[n].version \in Nat /\ cached[n].version <= version
    /\ DOMAIN cached = Functions /\ cached = [n \in Functions |-> cached[n]]
    /\ CachedEntryCurrent

(* Whatever Put does, the entries stay a sequence. *)
LEMMA PutSequence ==
    ASSUME CacheInv, NEW n, NEW e, Put(n, e)
    PROVE  Len(entries') \in Nat /\ entries' = [i \in 1 .. Len(entries') |-> entries'[i]]
<1> DEFINE S == {entries[i] : i \in 1 .. Len(entries)} \cup {e}
<1>1. entries \in Seq(S) /\ DOMAIN entries = 1 .. Len(entries)
    <2>1. entries \in [1 .. Len(entries) -> S]
        BY Zenon DEF CacheInv
    <2> QED BY <2>1 DEF CacheInv
<1> HIDE DEF S
<1>2. e \in S
    BY Zenon DEF S
<1>3. entries' \in Seq(S)
    <2>1. CASE Position(n) # {}
        <3>1. entries' = [i \in 1 .. Len(entries) |-> IF i \in Position(n) THEN e ELSE entries[i]]
            BY <2>1, <1>1, Zenon DEF Put
        <3>2. entries' \in [1 .. Len(entries) -> S]
            BY <3>1, <1>1, <1>2
        <3> QED BY <3>2 DEF CacheInv
    <2>2. CASE Position(n) = {}
        BY <2>2, <1>1, <1>2 DEF Put
    <2> QED BY <2>1, <2>2, Zenon
<1> QED BY <1>3

(* A registration moves the version on, past every cached lookup. *)
LEMMA BumpOutdates ==
    ASSUME CacheInv, version' = version + 1, cached' = cached,
           Len(entries') \in Nat, entries' = [i \in 1 .. Len(entries') |-> entries'[i]]
    PROVE  CacheInv'
<1>1. \A n \in Functions : cached'[n].version \in Nat /\ cached'[n].version < version'
    BY DEF CacheInv
<1>2. CachedEntryCurrent'
    BY <1>1, SMTT(30) DEF CachedEntryCurrent, CacheInv
<1> QED BY <1>1, <1>2 DEF CacheInv

(* A lookup by a call node notes the entry a search finds. *)
LEMMA LookupRemembers ==
    ASSUME CacheInv, NEW n \in Functions, Lookup(n)
    PROVE  CacheInv'
<1> DEFINE found == IF Position(n) = {} THEN 0 ELSE CHOOSE i \in Position(n) : TRUE
<1>1. /\ entries' = entries /\ version' = version
      /\ cached' = [cached EXCEPT ![n] = [valid |-> TRUE, version |-> version, index |-> found]]
    BY Zenon DEF Lookup
<1>2. Position(n) # {} => found \in Position(n) /\ found # 0
    BY DEF Position, CacheInv
<1>3. Position(n) = {} => found = 0
    OBVIOUS
<1> HIDE DEF found
<1>4. /\ cached'[n] = [valid |-> TRUE, version |-> version, index |-> found]
      /\ \A m \in Functions \ {n} : cached'[m] = cached[m]
      /\ DOMAIN cached' = Functions /\ cached' = [m \in Functions |-> cached'[m]]
    BY <1>1, Zenon DEF CacheInv
<1>5. \A m \in Functions : Position(m)' = Position(m)
    BY <1>1, Zenon DEF Position
<1>6. CachedEntryCurrent'
    <2> SUFFICES ASSUME NEW m \in Functions, cached'[m].valid /\ cached'[m].version = version'
                 PROVE  IF cached'[m].index = 0 THEN Position(m)' = {}
                        ELSE cached'[m].index \in Position(m)'
        BY Zenon DEF CachedEntryCurrent
    <2>1. CASE m = n
        BY <2>1, <1>2, <1>3, <1>4, <1>5
    <2>2. CASE m # n
        BY <2>2, <1>1, <1>4, <1>5, Zenon DEF CacheInv, CachedEntryCurrent
    <2> QED BY <2>1, <2>2, Zenon
<1>7. \A m \in Functions : cached'[m].version \in Nat /\ cached'[m].version <= version'
    BY <1>1, <1>4 DEF CacheInv
<1> QED BY <1>1, <1>4, <1>6, <1>7, Zenon DEF CacheInv

(* A lookup that a call node cached, and that the version vouches for, is what a
   search finds, whatever was registered, replaced or defined in between. *)
THEOREM CacheCurrent == RegistrySpec => []CachedEntryCurrent
<1>1. RegistryInit => CacheInv
    BY SMTT(30) DEF RegistryInit, CacheInv, CachedEntryCurrent
<1>2. CacheInv /\ [RegistryNext]_registryVars => CacheInv'
    <2> SUFFICES ASSUME CacheInv, [RegistryNext]_registryVars PROVE CacheInv'
        OBVIOUS
    <2>1. ASSUME NEW n \in Functions, NEW e, Put(n, e), Bump(n), Rest
          PROVE  CacheInv'
        BY <2>1, PutSequence, BumpOutdates, Zenon DEF Bump, Rest
    <2>2. ASSUME NEW n \in Functions, NEW u, NEW o,
                 (\E kind \in Plain : Add(kind, n, u, o)) \/ AddHandler(n, u, o)
                    \/ AddStruct(n, u, o) \/ SetCodegen(n, u, o)
          PROVE  CacheInv'
        BY <2>1, <2>2, Zenon DEF Add, AddHandler, AddStruct, SetCodegen
    <2>3. ASSUME NEW n \in Functions, Define(n) \/ DefineRecord(n)
          PROVE  CacheInv'
        BY <2>1, <2>3, Zenon DEF Define, DefineRecord
    <2>4. ASSUME NEW n \in Functions, SetParamNames(n)
          PROVE  CacheInv'
        BY <2>4, BumpOutdates, Zenon DEF SetParamNames, Bump, Rest, CacheInv
    <2>5. ASSUME NEW n \in Functions, Lookup(n)
          PROVE  CacheInv'
        BY <2>5, LookupRemembers, Zenon
    <2>6. ASSUME UNCHANGED <<entries, version, cached>>
          PROVE  CacheInv'
        BY <2>6 DEF CacheInv, CachedEntryCurrent, Position
    <2>7. CASE RegistryNext
        BY <2>2, <2>3, <2>4, <2>5, <2>6, <2>7, Zenon DEF RegistryNext, SetLookback, AddIndex, Free
    <2> QED BY <2>6, <2>7, Zenon DEF registryVars
<1>3. CacheInv => CachedEntryCurrent
    BY Zenon DEF CacheInv
<1> QED BY <1>1, <1>2, <1>3, PTL DEF RegistrySpec

-----------------------------------------------------------------------------
(***************************************************************************)
(* The resolver slot of a registry that engine programs share, for any     *)
(* finite set of programs and any host userdata.                           *)
(*                                                                         *)
(* The inductive invariant ties the three places that hold a resolver: the *)
(* registry's slot, the reference entry and the host's last choice.  The   *)
(* count never exceeds the number of live programs even when failed builds *)
(* release references they never took, which is why the host's resolver is *)
(* always back in the end.                                                 *)
(***************************************************************************)

ResolverInv ==
    /\ TypeOK
    /\ reg.count = 0 => reg.prior = NoResolver
    /\ reg.count <= Cardinality(live)
    /\ reg.cur = Engine => reg.count > 0 /\ reg.prior = hostSet
    /\ reg.cur # Engine => reg.cur = hostSet
    /\ hostSet # Engine
    /\ NeverDelegatesToItself

RegType == [cur : Resolvers, owned : BOOLEAN, freed : SUBSET UserData,
            count : Nat, prior : Resolvers]

(* Setting the resolver changes the slot, ownership and freed set only
   (cxpr_registry_set_lookback_resolver). *)
LEMMA SetResolverFacts ==
    ASSUME NEW r \in RegType, NEW new \in Resolvers, NEW o \in BOOLEAN
    PROVE  /\ SetResolver(r, new, o) \in RegType
           /\ SetResolver(r, new, o).cur = new
           /\ SetResolver(r, new, o).count = r.count
           /\ SetResolver(r, new, o).prior = r.prior
  BY NullAssumption, Zenon DEF SetResolver, RegType, Resolvers

(* Dropping the reference entry leaves the slot alone. *)
LEMMA DropEntryFacts ==
    ASSUME NEW r \in RegType
    PROVE  LET d == [r EXCEPT !.count = 0, !.prior = NoResolver]
           IN  d \in RegType /\ d.cur = r.cur /\ d.count = 0 /\ d.prior = NoResolver
  BY Zenon DEF RegType, NoResolver, Resolvers

(* The resolvers the constants name are values of the registry's resolver slot
   (NULL, a host's resolver, the engine's). *)
LEMMA ConstantTypes ==
    /\ NoResolver \in Resolvers /\ Engine \in Resolvers /\ NoResolver # Engine
  BY Zenon DEF NoResolver, Engine, Resolvers

(* The part of the invariant that speaks of the registry alone, for a given
   host choice. *)
RegInv(r, h) ==
    /\ r \in RegType
    /\ r.count = 0 => r.prior = NoResolver
    /\ r.cur = Engine => r.count > 0 /\ r.prior = h
    /\ r.cur # Engine => r.cur = h
    /\ h # Engine
    /\ r.prior # Engine

(* An acquire takes exactly one reference and keeps the registry consistent. *)
LEMMA AcquireFacts ==
    ASSUME NEW r, NEW h \in Resolvers, RegInv(r, h)
    PROVE  /\ RegInv(Acquire(r), h) /\ Acquire(r).count = r.count + 1
           /\ Acquire(r).cur = IF r.count = 0 THEN Engine ELSE r.cur
  <1>0. r.count \in Nat
    BY Zenon DEF RegInv, RegType
  <1>1. CASE r.count > 0
    BY <1>1 DEF Acquire, RegInv, RegType
  <1>2. CASE r.count = 0
    <2> DEFINE r1 == [r EXCEPT !.count = 1, !.prior = PriorOf(r.cur)]
    <2>1. r.cur # Engine /\ r.cur = h /\ PriorOf(r.cur) = h
      BY <1>2 DEF RegInv, PriorOf
    <2>2. r1 \in RegType /\ r1.count = 1 /\ r1.prior = h
      BY <2>1, Zenon DEF RegInv, RegType
    <2>3. Acquire(r) = SetResolver(r1, Engine, FALSE)
      BY <1>2, r.count \in Nat DEF Acquire, RegInv, RegType
    <2> HIDE DEF r1
    <2>4. /\ Acquire(r) \in RegType /\ Acquire(r).cur = Engine
          /\ Acquire(r).count = 1 /\ Acquire(r).prior = h
      <3>1. Engine \in Resolvers /\ FALSE \in BOOLEAN
        BY ConstantTypes, Zenon
      <3>2. /\ SetResolver(r1, Engine, FALSE) \in RegType
            /\ SetResolver(r1, Engine, FALSE).cur = Engine
            /\ SetResolver(r1, Engine, FALSE).count = r1.count
            /\ SetResolver(r1, Engine, FALSE).prior = r1.prior
        BY <2>2, <3>1, SetResolverFacts, Zenon
      <3> QED BY <2>2, <2>3, <3>2, Zenon
    <2> QED BY <2>4, <1>2 DEF RegInv
  <1> QED BY <1>0, <1>1, <1>2

(* A release gives back at most one reference; at the last one the slot holds
   the host's choice again. *)
LEMMA ReleaseFacts ==
    ASSUME NEW r, NEW h \in Resolvers, RegInv(r, h)
    PROVE  /\ RegInv(Release(r), h)
           /\ r.count > 0 => Release(r).count = r.count - 1
           /\ r.count = 0 => Release(r) = r
           /\ r.count > 1 => Release(r).cur = r.cur
  <1>0. r.count \in Nat
    BY Zenon DEF RegInv, RegType
  <1>1. CASE r.count > 1
    BY <1>1 DEF Release, RegInv, RegType
  <1>2. CASE r.count = 0
    BY <1>2 DEF Release, RegInv, RegType
  <1>3. CASE r.count = 1
    <2> DEFINE s == IF r.cur = Engine THEN SetResolver(r, r.prior, FALSE) ELSE r
    <2>1. s \in RegType /\ s.cur = h
      BY SetResolverFacts, Zenon DEF RegInv, RegType
    <2>2. Release(r) = [s EXCEPT !.count = 0, !.prior = NoResolver]
      BY <1>3 DEF Release
    <2> HIDE DEF s
    <2>3. /\ Release(r) \in RegType /\ Release(r).cur = h /\ Release(r).count = 0
          /\ Release(r).prior = NoResolver
      BY <2>1, <2>2, DropEntryFacts, Zenon
    <2> QED BY <2>3, <1>3, ConstantTypes DEF RegInv
  <1>4. r.count > 1 \/ r.count = 0 \/ r.count = 1
    BY <1>0
  <1> QED BY <1>1, <1>2, <1>3, <1>4, Zenon

(* Building or freeing one program changes the number of live programs by one;
   a set of programs is empty exactly when its number is zero. *)
LEMMA LiveCardinality ==
    ASSUME NEW S \in SUBSET Programs, NEW p \in Programs
    PROVE  /\ Cardinality(S) \in Nat
           /\ p \notin S => Cardinality(S \cup {p}) = Cardinality(S) + 1
           /\ p \in S => Cardinality(S \ {p}) = Cardinality(S) - 1
           /\ S = {} <=> Cardinality(S) = 0
  BY ProgramsAssumption, FS_Subset, FS_CardinalityType, FS_AddElement,
     FS_RemoveElement, FS_EmptySet, Zenon

(* The invariant in the shape the step proofs use. *)
InvParts ==
    /\ RegInv(reg, hostSet)
    /\ reg.count <= Cardinality(live)
    /\ live \subseteq Programs
    /\ delegate \in [Programs -> Resolvers]
    /\ callee \in [Names -> Programs \cup {Null}]
    /\ hostSet \in Resolvers
    /\ over \in BOOLEAN
    /\ stolen \in BOOLEAN
    /\ \A p \in live : delegate[p] # Engine

(* The inductive invariant with its records flattened, the form the steps below
   work on. *)
LEMMA IInvParts == ResolverInv <=> InvParts
  BY Zenon DEF ResolverInv, InvParts, RegInv, TypeOK, NeverDelegatesToItself, RegType

(* A registry as the host injects it, with no program built yet, satisfies the
   inductive invariant. *)
LEMMA PartsInit == Init => InvParts
  <1> SUFFICES ASSUME Init PROVE InvParts
    OBVIOUS
  <1>1. RegInv(reg, hostSet)
    BY ConstantTypes, Zenon DEF Init, RegInv, RegType
  <1>2. reg.count <= Cardinality(live)
    BY FS_EmptySet DEF Init
  <1> QED BY <1>1, <1>2, ConstantTypes, Zenon DEF Init, InvParts

(* Every operation keeps it: building a program, a build that fails before or
   after the acquire, freeing a program, and the host setting a resolver. *)
LEMMA PartsStep == InvParts /\ [Next]_vars => InvParts'
  <1> SUFFICES ASSUME InvParts, [Next]_vars PROVE InvParts'
    OBVIOUS
  <1>0. reg.count \in Nat /\ RegInv(reg, hostSet) /\ hostSet \in Resolvers
    BY Zenon DEF InvParts, RegInv, RegType
  <1>rel. /\ RegInv(Release(reg), hostSet) /\ Release(reg).count \in Nat
          /\ Release(reg).count <= reg.count
          /\ Release(reg).count = reg.count - 1 \/ Release(reg).count = 0
    <2>1. /\ RegInv(Release(reg), hostSet)
          /\ reg.count > 0 => Release(reg).count = reg.count - 1
          /\ reg.count = 0 => Release(reg) = reg
      BY <1>0, ReleaseFacts, Zenon
    <2>2. Release(reg).count \in Nat
      BY <2>1, Zenon DEF RegInv, RegType
    <2> QED BY <1>0, <2>1, <2>2
  <1>card. Cardinality(live) \in Nat
    BY ProgramsAssumption, FS_Subset, FS_CardinalityType, Zenon DEF InvParts
  <1>reg. ASSUME NEW p \in Programs, Register(p)
          PROVE  callee' \in [Names -> Programs \cup {Null}]
    BY <1>reg, Zenon DEF Register, InvParts
  <1>1. ASSUME NEW u \in UserData \cup {Null}, NEW o \in HostOwns, HostInstall(u, o)
        PROVE  InvParts'
    <2> DEFINE new == [fn |-> "host", ud |-> u]
    <2>1. new \in Resolvers /\ new # Engine /\ o \in BOOLEAN
      BY HostOwnsAssumption, Zenon DEF Resolvers, Engine
    <2>2. reg' = SetResolver(reg, new, o) /\ hostSet' = new
      BY <1>1, Zenon DEF HostInstall
    <2> HIDE DEF new
    <2>3. RegInv(reg', hostSet') /\ reg'.count = reg.count
      BY <1>0, <2>1, <2>2, SetResolverFacts, Zenon DEF RegInv
    <2> QED BY <1>1, <2>1, <2>2, <2>3, Zenon DEF HostInstall, InvParts
  <1>2. ASSUME NEW p \in Programs, ProgramNew(p) PROVE InvParts'
    <2>1. RegInv(Acquire(reg), hostSet) /\ Acquire(reg).count = reg.count + 1
      BY <1>0, AcquireFacts, Zenon DEF InvParts
    <2>2. Acquire(reg).prior \in Resolvers /\ Acquire(reg).prior # Engine
      BY <2>1, Zenon DEF RegInv, RegType
    <2>3. reg'.count <= Cardinality(live')
      BY <1>0, <1>2, <2>1, LiveCardinality DEF ProgramNew, InvParts
    <2>4. delegate' \in [Programs -> Resolvers] /\ \A q \in live' : delegate'[q] # Engine
      BY <1>2, <2>2, Zenon DEF ProgramNew, InvParts
    <2> QED BY <1>2, <1>reg, <2>1, <2>3, <2>4, Zenon DEF ProgramNew, InvParts
  <1>3. ASSUME NEW p \in Programs, ProgramNewFailsLate(p) PROVE InvParts'
    <2>1. RegInv(Acquire(reg), hostSet) /\ Acquire(reg).count = reg.count + 1
      BY <1>0, AcquireFacts, Zenon DEF InvParts
    <2>2. RegInv(reg', hostSet) /\ reg'.count = reg.count
      BY <1>0, <1>3, <2>1, ReleaseFacts DEF ProgramNewFailsLate, InvParts
    <2> QED BY <1>3, <1>reg, <2>2, Zenon DEF ProgramNewFailsLate, InvParts
  <1>4. ASSUME NEW p \in Programs, ProgramNewFailsEarly(p) PROVE InvParts'
    <2>1. RegInv(reg', hostSet) /\ reg'.count <= reg.count /\ reg'.count \in Nat
      BY <1>4, <1>rel, Zenon DEF ProgramNewFailsEarly
    <2>2. reg'.count <= Cardinality(live)
      BY <1>0, <1>card, <2>1 DEF InvParts
    <2>3. callee' \in [Names -> Programs \cup {Null}]
      BY <1>4, <1>reg, Zenon DEF ProgramNewFailsEarly, InvParts
    <2> QED BY <1>4, <2>1, <2>2, <2>3, Zenon DEF ProgramNewFailsEarly, InvParts
  <1>5. ASSUME NEW p \in Programs, ProgramFree(p) PROVE InvParts'
    <2>1. RegInv(reg', hostSet) /\ reg'.count \in Nat
          /\ (reg'.count = reg.count - 1 \/ reg'.count = 0)
      BY <1>5, <1>rel, Zenon DEF ProgramFree
    <2>2. Cardinality(live') = Cardinality(live) - 1 /\ Cardinality(live') \in Nat
      BY <1>5, LiveCardinality, Zenon DEF ProgramFree, InvParts
    <2>3. reg'.count <= Cardinality(live')
      BY <1>0, <1>card, <2>1, <2>2 DEF InvParts
    <2> QED BY <1>5, <2>1, <2>3, Zenon DEF ProgramFree, InvParts
  <1>6. CASE UNCHANGED vars
    BY <1>6, Zenon DEF vars, InvParts
  <1> QED BY <1>1, <1>2, <1>3, <1>4, <1>5, <1>6, Zenon DEF Next

(* The inductive invariant holds throughout: the slot, the reference entry and
   the saved host resolver stay consistent (engine_registry_resolver_acquire and
   engine_registry_resolver_release). *)
THEOREM ResolverInvariance == Spec => []ResolverInv
  BY PartsInit, PartsStep, IInvParts, PTL DEF Spec

(* Type correctness of the shared registry's resolver bookkeeping. *)
THEOREM ResolverTypeCorrect == Spec => []TypeOK
  BY ResolverInvariance, PTL DEF ResolverInv

(* Once no engine program is live, the injected registry holds the resolver
   the host installed last, whatever builds failed on the way. *)
THEOREM HostRestored == Spec => []HostResolverRestored
  <1>1. ResolverInv => HostResolverRestored
    BY FS_EmptySet DEF ResolverInv, HostResolverRestored, TypeOK
  <1> QED BY <1>1, ResolverInvariance, PTL

(* The engine resolver is never its own delegate. *)
THEOREM NoSelfDelegation == Spec => []NeverDelegatesToItself
  BY ResolverInvariance, PTL DEF ResolverInv
-----------------------------------------------------------------------------
(* The reference count, builds that fail early included. *)

CountInv ==
    /\ InvParts
    /\ RefCountExact
    /\ EngineServesLivePrograms

(* Every operation keeps the reference count equal to the number of live
   programs, until a build that fails before the acquire takes a reference of
   another program away. *)
LEMMA CountStep == CountInv /\ [Next]_vars => CountInv'
  <1> SUFFICES ASSUME CountInv, [Next]_vars PROVE CountInv'
    OBVIOUS
  <1>0. InvParts /\ InvParts'
    BY PartsStep, Zenon DEF CountInv, Next
  <1>goal. SUFFICES ASSUME ~stolen'
                    PROVE  reg'.count = Cardinality(live') /\ (live' # {} => reg'.cur = Engine \/ over')
    BY <1>0, Zenon DEF CountInv, RefCountExact, EngineServesLivePrograms, ResolverKept
  <1>empty. CASE live' = {}
    <2>1. reg'.count \in Nat /\ reg'.count <= Cardinality(live')
      BY <1>0, Zenon DEF InvParts, RegInv, RegType
    <2> QED BY <1>empty, <2>1, FS_EmptySet
  <1>nonempty. SUFFICES ASSUME live' # {}
                        PROVE  reg'.count = Cardinality(live') /\ (live' # {} => reg'.cur = Engine \/ over')
    BY <1>empty, Zenon
  <1>early. ASSUME NEW p \in Programs, ProgramNewFailsEarly(p) PROVE FALSE
    BY <1>goal, <1>nonempty, <1>early, Zenon DEF ProgramNewFailsEarly
  <1>kept. ~stolen
    BY <1>goal, <1>nonempty, <1>early, Zenon DEF Next, HostInstall, ProgramNew, ProgramNewFailsLate, ProgramFree, vars
  <1>1. /\ reg.count \in Nat /\ RegInv(reg, hostSet) /\ hostSet \in Resolvers
        /\ live \in SUBSET Programs /\ reg.count = Cardinality(live)
        /\ (live # {} => reg.cur = Engine \/ over)
    BY <1>kept, Zenon DEF CountInv, InvParts, RegInv, RegType, RefCountExact, EngineServesLivePrograms, ResolverKept
  <1>2. live = {} <=> reg.count = 0
    BY <1>1, ProgramsAssumption, FS_Subset, FS_EmptySet, Zenon
  <1>3. ASSUME NEW u \in UserData \cup {Null}, NEW o \in HostOwns, HostInstall(u, o)
        PROVE  reg'.count = Cardinality(live') /\ (live' # {} => reg'.cur = Engine \/ over')
    <2>1. [fn |-> "host", ud |-> u] \in Resolvers /\ o \in BOOLEAN
      BY HostOwnsAssumption, Zenon DEF Resolvers
    <2>2. reg'.count = reg.count
      BY <1>1, <1>3, <2>1, SetResolverFacts, Zenon DEF HostInstall, RegInv
    <2>3. live' = live /\ (live # {} => over')
      BY <1>3, Zenon DEF HostInstall
    <2> QED BY <1>1, <2>2, <2>3, Zenon
  <1>4. ASSUME NEW p \in Programs, ProgramNew(p)
        PROVE  reg'.count = Cardinality(live') /\ (live' # {} => reg'.cur = Engine \/ over')
    <2>1. reg'.count = reg.count + 1 /\ reg'.cur = IF reg.count = 0 THEN Engine ELSE reg.cur
      BY <1>1, <1>4, AcquireFacts, Zenon DEF ProgramNew
    <2>2. Cardinality(live') = Cardinality(live) + 1
      BY <1>1, <1>4, LiveCardinality, Zenon DEF ProgramNew
    <2>3. over' = (over /\ live # {})
      BY <1>4, Zenon DEF ProgramNew
    <2>4. live # {} => reg'.cur = reg.cur
      BY <1>2, <2>1, Zenon
    <2>5. live = {} => reg'.cur = Engine
      BY <1>2, <2>1, Zenon
    <2> QED BY <1>1, <2>1, <2>2, <2>3, <2>4, <2>5, Zenon
  <1>5. ASSUME NEW p \in Programs, ProgramNewFailsLate(p)
        PROVE  reg'.count = Cardinality(live') /\ (live' # {} => reg'.cur = Engine \/ over')
    <2>1. /\ RegInv(Acquire(reg), hostSet) /\ Acquire(reg).count = reg.count + 1
          /\ Acquire(reg).cur = IF reg.count = 0 THEN Engine ELSE reg.cur
      BY <1>1, AcquireFacts, Zenon
    <2>2. reg'.count = reg.count /\ (reg.count > 0 => reg'.cur = reg.cur)
      <3>1. reg' = Release(Acquire(reg))
        BY <1>5, Zenon DEF ProgramNewFailsLate
      <3>2. /\ Release(Acquire(reg)).count = reg.count
            /\ reg.count + 1 > 1 => Release(Acquire(reg)).cur = Acquire(reg).cur
        BY <1>1, <2>1, ReleaseFacts
      <3>3. reg.count > 0 => reg.count + 1 > 1 /\ reg.count # 0
        BY <1>1
      <3> QED BY <2>1, <3>1, <3>2, <3>3, Zenon
    <2>3. live' = live /\ over' = over
      BY <1>5, Zenon DEF ProgramNewFailsLate
    <2>4. live # {} => reg.count > 0
      BY <1>1, <1>2
    <2> QED BY <1>1, <2>2, <2>3, <2>4, Zenon
  <1>6. ASSUME NEW p \in Programs, ProgramFree(p)
        PROVE  reg'.count = Cardinality(live') /\ (live' # {} => reg'.cur = Engine \/ over')
    <2>1. Cardinality(live') = Cardinality(live) - 1 /\ reg.count > 0
      BY <1>1, <1>2, <1>6, LiveCardinality DEF ProgramFree
    <2>2. live' # {} => Cardinality(live') > 0
      BY <1>1, <1>6, LiveCardinality DEF ProgramFree
    <2>3. reg'.count = reg.count - 1 /\ (reg.count > 1 => reg'.cur = reg.cur)
      BY <1>1, <1>6, <2>1, ReleaseFacts, Zenon DEF ProgramFree
    <2>4. reg'.count = Cardinality(live')
      BY <1>1, <2>1, <2>3, Zenon
    <2>5. live' # {} => reg.count > 1 /\ live # {}
      BY <1>1, <1>2, <2>1, <2>2
    <2>6. over' = over
      BY <1>6, Zenon DEF ProgramFree
    <2> QED BY <1>1, <2>3, <2>4, <2>5, <2>6, Zenon
  <1>7. CASE UNCHANGED vars
    BY <1>1, <1>7, Zenon DEF vars
  <1> QED BY <1>3, <1>4, <1>5, <1>6, <1>7, <1>early, Zenon DEF Next

(* With no program built there is no reference entry, hence a count of zero. *)
LEMMA CountInit == Init => CountInv
  <1> SUFFICES ASSUME Init PROVE CountInv
    OBVIOUS
  <1>1. reg.count = 0 /\ live = {}
    BY Zenon DEF Init
  <1>2. Cardinality(live) = 0
    BY <1>1, FS_EmptySet, Zenon
  <1> QED BY <1>1, <1>2, PartsInit, Zenon
          DEF CountInv, RefCountExact, EngineServesLivePrograms, ResolverKept

(* Every live program holds exactly one reference on the shared registry, but
   for the references that builds failing before the acquire gave back; when the
   last program goes, so does the damage. *)
THEOREM CountExact == Spec => []RefCountExact
  BY CountInit, CountStep, PTL DEF Spec, CountInv

(* A live program's lookbacks reach the engine's resolver unless the host
   itself installed another one over it, or a failed build released it. *)
THEOREM EngineServes == Spec => []EngineServesLivePrograms
  BY CountInit, CountStep, PTL DEF Spec, CountInv

-----------------------------------------------------------------------------
(* Source calls *)

(* Only program p declares the source name n. *)
OnlyOf(p, n) == \A q \in Programs \ {p} : n \notin SourcesOf[q]

(* The entry of a name that one program alone declares is that program's own:
   stronger than being of some live program, which a free could end. *)
CalleeInv ==
    /\ live \subseteq Programs
    /\ \A p \in live : \A n \in SourcesOf[p] : OnlyOf(p, n) => callee[n] = p

(* Builds that succeed or fail and frees keep the entry of a live program. *)
LEMMA CalleeStep == CalleeInv /\ [Next]_vars => CalleeInv'
  <1> SUFFICES ASSUME CalleeInv, [Next]_vars PROVE CalleeInv'
    OBVIOUS
  <1> USE SourcesAssumption
  <1>1. ASSUME NEW p \in Programs, Register(p),
               NEW r \in live, NEW n \in SourcesOf[r], OnlyOf(r, n), p # r
        PROVE  callee'[n] = r
    <2>1. n \notin SourcesOf[p] /\ n \in Names
      BY <1>1, Zenon DEF OnlyOf, CalleeInv
    <2> QED BY <1>1, <2>1, Zenon DEF Register, CalleeInv
  <1>2. ASSUME NEW u, NEW o, HostInstall(u, o) PROVE CalleeInv'
    BY <1>2, Zenon DEF HostInstall, CalleeInv
  <1>3. ASSUME NEW p \in Programs, ProgramNew(p) PROVE CalleeInv'
    <2>1. \A n \in SourcesOf[p] : callee'[n] = p
      BY <1>3, Zenon DEF ProgramNew, Register
    <2>2. \A r \in live : \A n \in SourcesOf[r] : OnlyOf(r, n) => callee'[n] = r
      BY <1>1, <1>3, Zenon DEF ProgramNew
    <2> QED BY <1>3, <2>1, <2>2, Zenon DEF ProgramNew, CalleeInv
  <1>4. ASSUME NEW p \in Programs, ProgramNewFailsLate(p) PROVE CalleeInv'
    BY <1>1, <1>4, Zenon DEF ProgramNewFailsLate, CalleeInv
  <1>5. ASSUME NEW p \in Programs, ProgramNewFailsEarly(p) PROVE CalleeInv'
    BY <1>1, <1>5, Zenon DEF ProgramNewFailsEarly, CalleeInv
  <1>6. ASSUME NEW p \in Programs, ProgramFree(p) PROVE CalleeInv'
    BY <1>6, Zenon DEF ProgramFree, CalleeInv
  <1>7. CASE UNCHANGED vars
    BY <1>7, Zenon DEF vars, CalleeInv
  <1> QED BY <1>2, <1>3, <1>4, <1>5, <1>6, <1>7, Zenon DEF Next

(* The userdata of a source call made under a name that no other program
   declares belongs to a live program, for any number of programs built, failed
   and freed on the registry (cxpr_engine_program_new registers, and
   cxpr_engine_program_free leaves the entries behind). *)
THEOREM SourceCallsReach == Spec => []SourceCallsReachLiveProgram
  <1>1. Init => CalleeInv
    BY Zenon DEF Init, CalleeInv
  <1>2. CalleeInv => SourceCallsReachLiveProgram
    BY Zenon DEF CalleeInv, OnlyOf, SourceCallsReachLiveProgram
  <1> QED BY <1>1, <1>2, CalleeStep, PTL DEF Spec
=============================================================================
