-------------------------- MODULE DiagnosticsProofs --------------------------
(***************************************************************************)
(* Proofs about what ddwaf_ruleset_info tells of the rules.  The room of a *)
(* container is a multiple of the chunk, which is what makes the test of   *)
(* its length enough; the places that are remembered and the places of the *)
(* errors are the inverse of each other; and an array of ids holds as many *)
(* as there are rules with its error.                                      *)
(***************************************************************************)
EXTENDS RuleDiagnostics, FiniteSetTheorems, TLAPS

-----------------------------------------------------------------------------
(* Remainders *)

LEMMA Division ==
  ASSUME NEW a \in Nat, NEW c \in Nat \ {0}
  PROVE  \E q \in Nat, r \in Nat : r < c /\ a = (c * q) + r /\ a % c = r
<1>1. a = (c * (a \div c)) + (a % c) /\ (a \div c) \in Nat
  OBVIOUS
<1>2. (a % c) \in Nat /\ (a % c) < c
  OBVIOUS
<1> QED BY <1>1, <1>2

LEMMA Remainder ==
  ASSUME NEW q \in Nat, NEW r \in Nat, NEW c \in Nat \ {0}, r < c
  PROVE  ((c * q) + r) % c = r
OBVIOUS

\* Counting with a width is counting, up to the width.
LEMMA CountOn ==
  ASSUME NEW a \in Nat, NEW b \in Nat, NEW c \in Nat \ {0}
  PROVE  ((a % c) + b) % c = (a + b) % c
<1>1. PICK q \in Nat, r \in Nat : r < c /\ a = (c * q) + r /\ a % c = r
  BY Division
<1>2. PICK p \in Nat, s \in Nat : s < c /\ r + b = (c * p) + s /\ (r + b) % c = s
  BY Division
<1>3. PICK n \in Nat : n = q + p
  OBVIOUS
<1>4. a + b = (c * n) + s
  <2>1. c * (q + p) = (c * q) + (c * p)
    OBVIOUS
  <2> QED BY <1>1, <1>2, <1>3, <2>1
<1>5. ((c * n) + s) % c = s
  BY <1>2, Remainder
<1> QED BY <1>1, <1>2, <1>4, <1>5

\* Below a multiple of the chunk, a length that is none is smaller.
LEMMA SomeRoom ==
  ASSUME NEW n \in Nat, NEW room \in Nat, NEW c \in Nat \ {0},
         n <= room, room % c = 0, n % c # 0
  PROVE  n + 1 <= room
OBVIOUS

LEMMA MoreRoom ==
  ASSUME NEW n \in Nat, NEW c \in Nat \ {0}, n % c = 0
  PROVE  (n + c) % c = 0
<1>1. PICK q \in Nat, r \in Nat : r < c /\ n = (c * q) + r /\ n % c = r
  BY Division
<1>2. PICK p \in Nat : p = q + 1
  OBVIOUS
<1>3. n + c = (c * p) + 0
  <2>1. c * (q + 1) = (c * q) + c
    OBVIOUS
  <2> QED BY <1>1, <1>2, <2>1
<1>4. ((c * p) + 0) % c = 0
  BY Remainder
<1> QED BY <1>3, <1>4

-----------------------------------------------------------------------------
(* Types *)

Keys == Error \cup {Duplicate}
Ids == [items : Seq(Id), room : Nat]
Filed == [key : Keys, ids : Ids]

TypeInv ==
    /\ schema \in {1, 2} /\ wanted \in BOOLEAN /\ phase \in {"parsing", "returned", "thrown"}
    /\ rules \subseteq Id /\ IsFiniteSet(rules)
    /\ loaded \in 0..Counters-1 /\ failed \in 0..Counters-1
    /\ errors \in [items : Seq(Filed), room : Nat]
    /\ DOMAIN cache \subseteq Keys
    /\ raised \in Seq([id : Id, error : Keys])
    /\ read \in 0..MaxEntries

\* The places that are remembered are those of the errors.
PlacesInv ==
    IF wanted
    THEN /\ \A e \in DOMAIN cache :
               cache[e] \in 0..Len(errors.items)-1 /\ errors.items[cache[e] + 1].key = e
         /\ \A k \in DOMAIN errors.items :
               errors.items[k].key \in DOMAIN cache /\ cache[errors.items[k].key] = k - 1
    ELSE errors = Empty /\ DOMAIN cache = {}

LEMMA InsertedType ==
  ASSUME NEW S, NEW c \in [items : Seq(S), room : Nat], NEW x \in S
  PROVE  /\ Inserted(c, x) \in [items : Seq(S), room : Nat]
         /\ Inserted(c, x).items = Append(c.items, x)
         /\ Inserted(c, x).room = Room(c)
<1>1. c.items \in Seq(S) /\ c.room \in Nat
  OBVIOUS
<1>2. Room(c) \in Nat
  BY <1>1, SizeAssumption DEF Room
<1>3. Append(c.items, x) \in Seq(S)
  BY <1>1
<1> QED BY <1>2, <1>3 DEF Inserted

\* What insert_error does to the map of errors, item by item.
LEMMA ErrorInserted ==
  ASSUME TypeInv, PlacesInv, wanted, NEW id \in Id, NEW error \in Keys, InsertError(id, error)
  PROVE  LET known == error \in DOMAIN cache
             n == Len(errors.items)
             p == PlaceOf(error) + 1
         IN  /\ n \in Nat /\ p \in 1..(n + 1) /\ (known => p \in 1..n) /\ (~known => p = n + 1)
             /\ errors' \in [items : Seq(Filed), room : Nat]
             /\ Len(errors'.items) = IF known THEN n ELSE n + 1
             /\ errors'.room = IF known THEN errors.room ELSE Room(errors)
             /\ \A k \in 1..n : k # p => errors'.items[k] = errors.items[k]
             /\ errors'.items[p].key = error
             /\ errors'.items[p].ids = Inserted(IF known THEN errors.items[p].ids ELSE Empty, id)
             /\ DOMAIN cache' = DOMAIN cache \cup {error}
             /\ \A e \in DOMAIN cache' : cache'[e] = IF e = error THEN p - 1 ELSE cache[e]
<1> DEFINE known == error \in DOMAIN cache
           n == Len(errors.items)
           p == PlaceOf(error) + 1
           map == IF known THEN errors ELSE Inserted(errors, [key |-> error, ids |-> Empty])
           old == IF known THEN errors.items[p].ids ELSE Empty
<1>1. errors \in [items : Seq(Filed), room : Nat] /\ errors.items \in Seq(Filed) /\ n \in Nat
  BY DEF TypeInv
<1>2. p \in 1..(n + 1) /\ (known => p \in 1..n) /\ (~known => p = n + 1)
  BY <1>1 DEF PlaceOf, PlacesInv
<1>3. /\ errors' = [map EXCEPT !.items[p].ids = Inserted(@, id)]
      /\ cache' = [e \in DOMAIN cache \cup {error} |-> IF e = error THEN p - 1 ELSE cache[e]]
  <2>1. PlaceOf(error) = p - 1
    BY <1>1 DEF PlaceOf, PlacesInv
  <2> QED BY <2>1 DEF InsertError
<1>4. Empty \in Ids /\ [key |-> error, ids |-> Empty] \in Filed
  <2>1. Empty \in Ids
    BY DEF Empty, Ids
  <2> QED BY <2>1 DEF Filed
<1>5. /\ map \in [items : Seq(Filed), room : Nat]
      /\ Len(map.items) = IF known THEN n ELSE n + 1
      /\ map.room = IF known THEN errors.room ELSE Room(errors)
      /\ \A k \in 1..n : map.items[k] = errors.items[k]
      /\ map.items[p].key = error /\ map.items[p].ids = old
      /\ p \in DOMAIN map.items
  <2>1. CASE known
    <3>1. map = errors
      BY <2>1
    <3>2. errors.items[p].key = error
      BY <1>2, <2>1 DEF PlacesInv, PlaceOf
    <3> QED BY <1>1, <1>2, <2>1, <3>1, <3>2
  <2>2. CASE ~known
    <3> DEFINE e == [key |-> error, ids |-> Empty]
    <3>1. map = Inserted(errors, e)
      BY <2>2
    <3>2. e.key = error /\ e.ids = Empty
      OBVIOUS
    <3> HIDE DEF map, e
    <3>3. e \in Filed
      BY <1>4 DEF e
    <3>4. /\ map \in [items : Seq(Filed), room : Nat] /\ map.items = Append(errors.items, e)
          /\ map.room = Room(errors)
      BY <1>1, <3>1, <3>3, InsertedType
    <3> QED BY <1>1, <1>2, <2>2, <3>2, <3>4
  <2> QED BY <2>1, <2>2
<1> HIDE DEF map, p, n, known
<1>6. /\ errors'.room = map.room
      /\ errors'.items = [map.items EXCEPT ![p].ids = Inserted(@, id)]
      /\ errors' = [items |-> errors'.items, room |-> errors'.room]
  BY <1>3, <1>5
<1>7. /\ Len(errors'.items) = Len(map.items)
      /\ \A k \in DOMAIN map.items : k # p => errors'.items[k] = map.items[k]
      /\ errors'.items[p] = [map.items[p] EXCEPT !.ids = Inserted(old, id)]
  BY <1>5, <1>6
<1>8. map.items[p] \in Filed /\ old \in Ids
  <2>1. map.items \in Seq(Filed)
    BY <1>5
  <2>2. map.items[p] \in Filed
    BY <1>5, <2>1
  <2>3. map.items[p].ids \in Ids
    BY <2>2 DEF Filed
  <2> QED BY <1>5, <2>2, <2>3
<1>9. Inserted(old, id) \in Ids
  BY <1>8, InsertedType DEF Ids
<1>10. /\ errors'.items[p] \in Filed
       /\ errors'.items[p].key = error /\ errors'.items[p].ids = Inserted(old, id)
  BY <1>5, <1>7, <1>8, <1>9 DEF Filed
<1>11. errors'.items \in Seq(Filed)
  BY <1>5, <1>6, <1>7, <1>10
<1>12. errors' \in [items : Seq(Filed), room : Nat]
  BY <1>5, <1>6, <1>11
<1> QED
  BY <1>1, <1>2, <1>3, <1>5, <1>6, <1>7, <1>10, <1>12 DEF known, n, p
-----------------------------------------------------------------------------
(* The types and the places *)

\* What insert_error does, wanted or not.
LEMMA RaisedOneMore ==
  ASSUME TypeInv, NEW id \in Id, NEW error \in Keys, InsertError(id, error)
  PROVE  /\ raised' = Append(raised, [id |-> id, error |-> error])
         /\ raised' \in Seq([id : Id, error : Keys])
         /\ failed' \in 0..Counters-1
         /\ ~wanted => UNCHANGED <<errors, cache>>
<1>1. raised' = Append(raised, [id |-> id, error |-> error])
  BY DEF InsertError
<1>2. failed' \in 0..Counters-1
  BY SizeAssumption DEF InsertError, AddFailed, TypeInv
<1>3. ~wanted => UNCHANGED <<errors, cache>>
  BY DEF InsertError
<1>4. raised' \in Seq([id : Id, error : Keys])
  BY <1>1 DEF TypeInv
<1> QED BY <1>1, <1>2, <1>3, <1>4

\* What an entry says of a rule, where the loops use it.
LEMMA OfEntry ==
  ASSUME NEW entry \in Entry
  PROVE  /\ entry.id # << >> => entry.id[1] \in Id
         /\ entry.error # << >> => entry.error[1] \in Error
<1>1. entry.id \in {<<i>> : i \in Id} \cup {<< >>} /\ entry.error \in {<<e>> : e \in Error} \cup {<< >>}
  BY EntryAssumption
<1>2. ASSUME entry.id # << >> PROVE entry.id[1] \in Id
  <2>1. PICK i \in Id : entry.id = <<i>>
    BY <1>1, <1>2
  <2> QED BY <2>1
<1>3. ASSUME entry.error # << >> PROVE entry.error[1] \in Error
  <2>1. PICK e \in Error : entry.error = <<e>>
    BY <1>1, <1>3
  <2> QED BY <2>1
<1> QED BY <1>2, <1>3

\* The steps of the loop, by what they do to the map of errors.
LEMMA StepsOfLoop ==
  ASSUME TypeInv, Next
  PROVE  /\ UNCHANGED <<schema, wanted>>
         /\ \/ \E id \in Id, error \in Keys :
                  /\ InsertError(id, error) /\ Read
                  /\ UNCHANGED <<phase, rules, loaded>>
            \/ /\ Read /\ AddFailed /\ UNCHANGED <<phase, rules, loaded, errors, cache, raised>>
            \/ \E id \in Id \ rules :
                  /\ Read /\ AddLoaded /\ rules' = rules \cup {id}
                  /\ UNCHANGED <<phase, failed, errors, cache, raised>>
            \/ /\ phase' \in {"thrown", "returned"}
               /\ UNCHANGED <<rules, loaded, failed, errors, cache, read, raised>>
<1>1. UNCHANGED <<schema, wanted>>
  BY DEF Next
<1>2. CASE \E entry \in Entry : NotAMap(entry)
  BY <1>1, <1>2 DEF NotAMap
<1>3. CASE \E entry \in Entry : FailsUnnamed(entry)
  BY <1>1, <1>3 DEF FailsUnnamed
<1>4. ASSUME NEW entry \in Entry, Repeats(entry)
      PROVE  \E id \in Id, error \in Keys :
                InsertError(id, error) /\ Read /\ UNCHANGED <<phase, rules, loaded>>
  <2>1. entry.id[1] \in Id /\ Duplicate \in Keys
    BY <1>4, OfEntry DEF Repeats, Keys
  <2> QED BY <1>4, <2>1 DEF Repeats
<1>5. ASSUME NEW entry \in Entry, Fails(entry)
      PROVE  \E id \in Id, error \in Keys :
                InsertError(id, error) /\ Read /\ UNCHANGED <<phase, rules, loaded>>
  <2>1. entry.id[1] \in Id /\ entry.error[1] \in Keys
    BY <1>5, OfEntry DEF Fails, Keys
  <2> QED BY <1>5, <2>1 DEF Fails
<1>6. ASSUME NEW entry \in Entry, Loads(entry)
      PROVE  \E id \in Id \ rules :
                /\ Read /\ AddLoaded /\ rules' = rules \cup {id}
                /\ UNCHANGED <<phase, failed, errors, cache, raised>>
  <2>1. entry.id[1] \in Id \ rules
    BY <1>6, OfEntry DEF Loads
  <2> QED BY <1>6, <2>1 DEF Loads
<1>7. CASE EndOfRules
  BY <1>1, <1>7 DEF EndOfRules
<1> QED BY <1>1, <1>2, <1>3, <1>4, <1>5, <1>6, <1>7 DEF Next

LEMMA TypeKept ==
  ASSUME TypeInv, PlacesInv, [Next]_vars
  PROVE  TypeInv'
<1>1. CASE UNCHANGED vars
  BY <1>1 DEF TypeInv, vars
<1>2. ASSUME NEW id \in Id, NEW error \in Keys, UNCHANGED <<schema, wanted>>,
             InsertError(id, error), Read, UNCHANGED <<phase, rules, loaded>>
      PROVE  TypeInv'
  <2>1. raised' \in Seq([id : Id, error : Keys]) /\ failed' \in 0..Counters-1
    BY <1>2, RaisedOneMore
  <2>2. errors' \in [items : Seq(Filed), room : Nat] /\ DOMAIN cache' \subseteq Keys
    <3>1. CASE wanted
      <4>1. /\ errors' \in [items : Seq(Filed), room : Nat]
            /\ DOMAIN cache' = DOMAIN cache \cup {error}
        BY <1>2, <3>1, ErrorInserted
      <4> QED BY <4>1 DEF TypeInv
    <3>2. CASE ~wanted
      BY <1>2, <3>2, RaisedOneMore DEF TypeInv
    <3> QED BY <3>1, <3>2
  <2>3. read' \in 0..MaxEntries
    BY <1>2, SizeAssumption DEF Read, TypeInv
  <2> QED BY <1>2, <2>1, <2>2, <2>3 DEF TypeInv
<1>3. CASE UNCHANGED <<schema, wanted>> /\ Read /\ AddFailed
             /\ UNCHANGED <<phase, rules, loaded, errors, cache, raised>>
  <2>1. failed' \in 0..Counters-1
    BY <1>3, SizeAssumption DEF AddFailed, TypeInv
  <2>2. read' \in 0..MaxEntries
    BY <1>3, SizeAssumption DEF Read, TypeInv
  <2> QED BY <1>3, <2>1, <2>2 DEF TypeInv
<1>4. ASSUME NEW id \in Id \ rules, UNCHANGED <<schema, wanted>>, Read, AddLoaded,
             rules' = rules \cup {id}, UNCHANGED <<phase, failed, errors, cache, raised>>
      PROVE  TypeInv'
  <2>1. loaded' \in 0..Counters-1
    BY <1>4, SizeAssumption DEF AddLoaded, TypeInv
  <2>2. read' \in 0..MaxEntries
    BY <1>4, SizeAssumption DEF Read, TypeInv
  <2>3. rules' \subseteq Id /\ IsFiniteSet(rules')
    BY <1>4, FS_AddElement DEF TypeInv
  <2> QED BY <1>4, <2>1, <2>2, <2>3 DEF TypeInv
<1>5. CASE UNCHANGED <<schema, wanted>> /\ phase' \in {"thrown", "returned"}
             /\ UNCHANGED <<rules, loaded, failed, errors, cache, read, raised>>
  BY <1>5 DEF TypeInv
<1> QED BY <1>1, <1>2, <1>3, <1>4, <1>5, StepsOfLoop

\* A step that raises no error leaves the map of errors as it is.
LEMMA ErrorsUntouched ==
  ASSUME TypeInv, [Next]_vars
  PROVE  /\ UNCHANGED wanted
         /\ \/ UNCHANGED <<errors, cache, raised>>
            \/ \E id \in Id, error \in Keys : InsertError(id, error)
<1>1. CASE UNCHANGED vars
  BY <1>1 DEF vars
<1> QED BY <1>1, StepsOfLoop

LEMMA PlacesKept ==
  ASSUME TypeInv, PlacesInv, [Next]_vars
  PROVE  PlacesInv'
<1>1. CASE UNCHANGED <<errors, cache, raised>>
  BY <1>1, ErrorsUntouched DEF PlacesInv
<1>2. ASSUME NEW id \in Id, NEW error \in Keys, InsertError(id, error)
      PROVE  PlacesInv'
  <2>1. CASE ~wanted
    <3>1. UNCHANGED <<errors, cache, wanted>>
      BY <1>2, <2>1, RaisedOneMore, ErrorsUntouched
    <3> QED BY <3>1 DEF PlacesInv
  <2>2. CASE wanted
    <3> DEFINE n == Len(errors.items)
               known == error \in DOMAIN cache
               p == PlaceOf(error) + 1
    <3>1. /\ n \in Nat /\ p \in 1..(n + 1) /\ (known => p \in 1..n) /\ (~known => p = n + 1)
          /\ errors' \in [items : Seq(Filed), room : Nat]
          /\ Len(errors'.items) = IF known THEN n ELSE n + 1
          /\ \A k \in 1..n : k # p => errors'.items[k] = errors.items[k]
          /\ errors'.items[p].key = error
          /\ DOMAIN cache' = DOMAIN cache \cup {error}
          /\ \A e \in DOMAIN cache' : cache'[e] = IF e = error THEN p - 1 ELSE cache[e]
      BY <1>2, <2>2, ErrorInserted
    <3>2. /\ \A e \in DOMAIN cache : cache[e] \in 0..n-1 /\ errors.items[cache[e] + 1].key = e
          /\ \A k \in 1..n : errors.items[k].key \in DOMAIN cache /\ cache[errors.items[k].key] = k - 1
      BY <2>2 DEF PlacesInv, TypeInv
    <3>3. known => cache[error] = p - 1
      <4>1. known => cache[error] \in 0..n-1 /\ PlaceOf(error) = cache[error]
        BY <3>2 DEF PlaceOf
      <4> QED BY <3>1, <4>1
    <3>4. DOMAIN errors'.items = 1..Len(errors'.items)
      BY <3>1
    <3> HIDE DEF n, p, known
    <3>5. ASSUME NEW e \in DOMAIN cache'
          PROVE  cache'[e] \in 0..Len(errors'.items)-1 /\ errors'.items[cache'[e] + 1].key = e
      <4>1. CASE e = error
        BY <3>1, <3>5, <4>1
      <4>2. CASE e # error
        <5>1. e \in DOMAIN cache /\ cache'[e] = cache[e]
          BY <3>1, <3>5, <4>2
        <5>2. cache[e] \in 0..n-1 /\ errors.items[cache[e] + 1].key = e
          BY <3>2, <5>1
        <5>3. cache[e] + 1 # p
          <6>1. CASE known
            BY <3>2, <3>3, <4>2, <5>2, <6>1 DEF known
          <6>2. CASE ~known
            BY <3>1, <5>2, <6>2
          <6> QED BY <6>1, <6>2
        <5>4. cache[e] + 1 \in 1..n
          BY <3>1, <5>2
        <5>5. errors'.items[cache[e] + 1] = errors.items[cache[e] + 1]
          BY <3>1, <5>3, <5>4
        <5> QED BY <3>1, <5>1, <5>2, <5>5
      <4> QED BY <4>1, <4>2
    <3>6. ASSUME NEW k \in DOMAIN errors'.items
          PROVE  errors'.items[k].key \in DOMAIN cache' /\ cache'[errors'.items[k].key] = k - 1
      <4>1. CASE k = p
        BY <3>1, <4>1
      <4>2. CASE k # p
        <5>1. k \in 1..n /\ errors'.items[k] = errors.items[k]
          BY <3>1, <3>4, <4>2
        <5>2. errors.items[k].key \in DOMAIN cache /\ cache[errors.items[k].key] = k - 1
          BY <3>2, <5>1
        <5>3. errors.items[k].key # error
          <6>1. CASE known
            BY <3>1, <3>3, <4>2, <5>1, <5>2, <6>1
          <6>2. CASE ~known
            BY <5>2, <6>2 DEF known
          <6> QED BY <6>1, <6>2
        <5> QED BY <3>1, <5>1, <5>2, <5>3
      <4> QED BY <4>1, <4>2
    <3> QED BY <2>2, <3>5, <3>6, ErrorsUntouched DEF PlacesInv
  <2> QED BY <2>1, <2>2
<1> QED BY <1>1, <1>2, ErrorsUntouched

LEMMA AtFirst ==
  ASSUME Init
  PROVE  TypeInv /\ PlacesInv
<1>1. errors \in [items : Seq(Filed), room : Nat] /\ errors.items = << >> /\ DOMAIN cache = {}
  BY DEF Init, Empty
<1>2. rules \subseteq Id /\ IsFiniteSet(rules)
  BY FS_EmptySet DEF Init
<1>3. 0 \in 0..Counters-1 /\ 0 \in 0..MaxEntries
  BY SizeAssumption
<1>4. TypeInv
  <2>1. raised \in Seq([id : Id, error : Keys])
    BY DEF Init
  <2> QED BY <1>1, <1>2, <1>3, <2>1 DEF Init, TypeInv
<1>5. PlacesInv
  BY <1>1 DEF Init, PlacesInv
<1> QED BY <1>4, <1>5

LEMMA Always == Spec => [](TypeInv /\ PlacesInv)
<1>1. Init => TypeInv /\ PlacesInv
  BY AtFirst
<1>2. (TypeInv /\ PlacesInv) /\ [Next]_vars => (TypeInv /\ PlacesInv)'
  BY TypeKept, PlacesKept
<1> QED BY <1>1, <1>2, PTL DEF Spec

(* The counters keep their width, and the map of errors holds errors and ids *)
(* of the document (ruleset_info).                                           *)
THEOREM Typed == Spec => []TypeOK
<1>1. TypeInv => TypeOK
  <2> SUFFICES ASSUME TypeInv PROVE TypeOK
    OBVIOUS
  <2>1. ASSUME NEW n \in DOMAIN errors.items
        PROVE  errors.items[n].key \in Error \cup {Duplicate} /\ errors.items[n].ids.items \in Seq(Id)
    <3>1. errors.items[n] \in Filed
      BY <2>1 DEF TypeInv
    <3> QED BY <3>1 DEF Filed, Ids, Keys
  <2> QED BY <2>1 DEF TypeInv, TypeOK, Keys
<1> QED BY <1>1, Always, PTL

-----------------------------------------------------------------------------
(* Room for what is inserted *)

\* A container has as much room as whole chunks give it.
Roomy(container) == Fits(container) /\ container.room % Chunk = 0

RoomInv ==
    Roomy(errors) /\ \A k \in DOMAIN errors.items : Roomy(errors.items[k].ids)

LEMMA RoomyEmpty == Roomy(Empty)
BY SizeAssumption DEF Roomy, Fits, Empty

LEMMA RoomyInserted ==
  ASSUME NEW S, NEW c \in [items : Seq(S), room : Nat], NEW x \in S, Roomy(c)
  PROVE  Roomy(Inserted(c, x))
<1> DEFINE n == Len(c.items)
<1>1. n \in Nat /\ c.room \in Nat /\ n <= c.room /\ c.room % Chunk = 0 /\ Chunk \in Nat \ {0}
  BY SizeAssumption DEF Roomy, Fits
<1>2. Len(Inserted(c, x).items) = n + 1
  BY InsertedType
<1>3. Inserted(c, x).room = IF n % Chunk = 0 THEN n + Chunk ELSE c.room
  BY InsertedType DEF Room
<1> HIDE DEF n
<1>4. CASE n % Chunk = 0
  <2>1. (n + Chunk) % Chunk = 0
    BY <1>1, <1>4, MoreRoom
  <2> QED BY <1>1, <1>2, <1>3, <1>4, <2>1 DEF Roomy, Fits
<1>5. CASE n % Chunk # 0
  <2>1. n + 1 <= c.room
    BY <1>1, <1>5, SomeRoom
  <2> QED BY <1>1, <1>2, <1>3, <1>5, <2>1 DEF Roomy, Fits
<1> QED BY <1>4, <1>5

LEMMA RoomKept ==
  ASSUME TypeInv, PlacesInv, RoomInv, [Next]_vars
  PROVE  RoomInv'
<1>1. CASE UNCHANGED errors
  BY <1>1 DEF RoomInv, Roomy, Fits
<1>2. ASSUME NEW id \in Id, NEW error \in Keys, InsertError(id, error), wanted
      PROVE  RoomInv'
  <2> DEFINE n == Len(errors.items)
             known == error \in DOMAIN cache
             p == PlaceOf(error) + 1
             old == IF known THEN errors.items[p].ids ELSE Empty
  <2>1. /\ n \in Nat /\ p \in 1..(n + 1) /\ (known => p \in 1..n) /\ (~known => p = n + 1)
        /\ errors' \in [items : Seq(Filed), room : Nat]
        /\ Len(errors'.items) = IF known THEN n ELSE n + 1
        /\ errors'.room = IF known THEN errors.room ELSE Room(errors)
        /\ \A k \in 1..n : k # p => errors'.items[k] = errors.items[k]
        /\ errors'.items[p].ids = Inserted(old, id)
    BY <1>2, ErrorInserted
  <2>2. errors \in [items : Seq(Filed), room : Nat] /\ DOMAIN errors.items = 1..n
    BY DEF TypeInv
  <2>3. Roomy(errors')
    <3>1. CASE known
      BY <2>1, <3>1 DEF RoomInv, Roomy, Fits
    <3>2. CASE ~known
      <4> DEFINE x == [key |-> error, ids |-> Empty]
      <4>1. x \in Filed
        <5>1. Empty \in Ids
          BY DEF Empty, Ids
        <5> QED BY <5>1 DEF Filed
      <4>2. Roomy(Inserted(errors, x))
        BY <2>2, <4>1, RoomyInserted DEF RoomInv
      <4>3. Len(Inserted(errors, x).items) = n + 1 /\ Inserted(errors, x).room = Room(errors)
        BY <2>2, <4>1, InsertedType
      <4> QED BY <2>1, <3>2, <4>2, <4>3 DEF Roomy, Fits
    <3> QED BY <3>1, <3>2
  <2>4. Roomy(errors'.items[p].ids)
    <3>1. old \in Ids /\ Roomy(old)
      <4>1. CASE known
        <5>1. errors.items[p] \in Filed /\ p \in DOMAIN errors.items
          BY <2>1, <2>2, <4>1
        <5> QED BY <4>1, <5>1 DEF Filed, RoomInv
      <4>2. CASE ~known
        <5>1. Empty \in Ids
          BY DEF Empty, Ids
        <5> QED BY <4>2, <5>1, RoomyEmpty
      <4> QED BY <4>1, <4>2
    <3>2. Roomy(Inserted(old, id))
      <4> HIDE DEF old
      <4> QED BY <3>1, RoomyInserted DEF Ids
    <3> QED BY <2>1, <3>2
  <2>5. ASSUME NEW k \in DOMAIN errors'.items
        PROVE  Roomy(errors'.items[k].ids)
    <3>1. k \in 1..Len(errors'.items)
      BY <2>1, <2>5
    <3>2. CASE k = p
      BY <2>4, <3>2
    <3>3. CASE k # p
      <4>1. k \in 1..n
        BY <2>1, <3>1, <3>3
      <4>2. errors'.items[k] = errors.items[k] /\ k \in DOMAIN errors.items
        BY <2>1, <2>2, <3>3, <4>1
      <4> QED BY <4>2 DEF RoomInv
    <3> QED BY <3>2, <3>3
  <2> QED BY <2>3, <2>5 DEF RoomInv, Roomy, Fits
<1> QED BY <1>1, <1>2, ErrorsUntouched, RaisedOneMore

(* No object is written beyond what was allocated for its container, however *)
(* many errors and rules there are, and the places that are remembered stay  *)
(* in the map of errors (ddwaf_object_insert, insert_error).                 *)
THEOREM RoomSuffices == Spec => []RoomForAll
<1>1. Init => RoomInv
  <2> SUFFICES ASSUME Init PROVE RoomInv
    OBVIOUS
  <2> QED BY RoomyEmpty DEF Init, RoomInv, Empty
<1>2. (TypeInv /\ PlacesInv) /\ RoomInv /\ [Next]_vars => RoomInv'
  BY RoomKept
<1>3. TypeInv /\ PlacesInv /\ RoomInv => RoomForAll
  <2> SUFFICES ASSUME TypeInv, PlacesInv, RoomInv PROVE RoomForAll
    OBVIOUS
  <2>1. \A e \in DOMAIN cache : cache[e] < Len(errors.items)
    <3>1. Len(errors.items) \in Nat
      BY DEF TypeInv
    <3> QED BY <3>1 DEF PlacesInv, TypeInv
  <2> QED BY <2>1 DEF RoomInv, Roomy, RoomForAll
<1> QED BY <1>1, <1>2, <1>3, Always, PTL DEF Spec

-----------------------------------------------------------------------------
(* Counting *)

\* One of two counters counts one more, with a width.
LEMMA OneMore ==
  ASSUME NEW a \in Nat, NEW b \in Nat, NEW n \in Nat, (a + b) % Counters = n % Counters
  PROVE  (((a + 1) % Counters) + b) % Counters = (n + 1) % Counters
<1>1. PICK m \in Nat : m = a + b
  OBVIOUS
<1>2. ((m % Counters) + 1) % Counters = (m + 1) % Counters
  BY CountOn, SizeAssumption
<1>3. ((n % Counters) + 1) % Counters = (n + 1) % Counters
  <2>1. 1 \in Nat /\ Counters \in Nat \ {0}
    BY SizeAssumption
  <2> QED BY <2>1, CountOn, Zenon
<1>4. PICK k \in Nat : k = a + 1
  OBVIOUS
<1>5. ((k % Counters) + b) % Counters = (k + b) % Counters
  BY CountOn, SizeAssumption
<1>6. k + b = m + 1
  BY <1>1, <1>4
<1> QED BY <1>1, <1>2, <1>3, <1>4, <1>5, <1>6

LEMMA CountedKept ==
  ASSUME TypeInv, PlacesInv, EveryEntryCounted, [Next]_vars
  PROVE  EveryEntryCounted'
<1>1. /\ loaded \in Nat /\ failed \in Nat /\ read \in Nat /\ Counters \in Nat \ {0}
      /\ IsFiniteSet(rules) /\ Cardinality(rules) \in Nat
  BY SizeAssumption, FS_CardinalityType DEF TypeInv
<1>2. CASE UNCHANGED vars
  BY <1>2 DEF EveryEntryCounted, vars
<1>3. CASE UNCHANGED <<schema, wanted>> /\ Read /\ AddFailed /\ UNCHANGED <<rules, loaded>>
  <2>1. CASE ~wanted
    BY <1>3, <2>1 DEF EveryEntryCounted, AddFailed
  <2>2. CASE wanted
    <3>1. failed' = (failed + 1) % Counters /\ read' = read + 1 /\ loaded' = loaded /\ rules' = rules
      BY <1>3, <2>2 DEF AddFailed, Read
    <3>2. (failed + loaded) % Counters = read % Counters
      <4>1. failed + loaded = loaded + failed
        BY <1>1
      <4> QED BY <2>2, <4>1 DEF EveryEntryCounted
    <3>3. (((failed + 1) % Counters) + loaded) % Counters = (read + 1) % Counters
      <4> DEFINE C(x) == x % Counters
      <4>1. \A a, b, n \in Nat : C(a + b) = C(n) => C(C(a + 1) + b) = C(n + 1)
        BY OneMore
      <4> HIDE DEF C
      <4>2. C(failed + loaded) = C(read)
        BY <3>2 DEF C
      <4>3. C(C(failed + 1) + loaded) = C(read + 1)
        BY <1>1, <4>1, <4>2
      <4> QED BY <4>3 DEF C
    <3>4. (loaded' + failed') % Counters = read' % Counters
      <4>1. failed' \in Nat
        BY <1>1, <3>1
      <4>2. failed' + loaded = loaded' + failed'
        BY <1>1, <3>1, <4>1
      <4> QED BY <3>1, <3>3, <4>2
    <3> QED BY <1>3, <2>2, <3>1, <3>4 DEF EveryEntryCounted
  <2> QED BY <2>1, <2>2
<1>4. ASSUME NEW id \in Id \ rules, UNCHANGED <<schema, wanted>>, Read, AddLoaded,
             rules' = rules \cup {id}, UNCHANGED <<phase, failed, errors, cache, raised>>
      PROVE  EveryEntryCounted'
  <2>1. CASE ~wanted
    BY <1>4, <2>1 DEF EveryEntryCounted, AddLoaded
  <2>2. CASE wanted
    <3>1. loaded' = (loaded + 1) % Counters /\ read' = read + 1 /\ failed' = failed
      BY <1>4, <2>2 DEF AddLoaded, Read
    <3>2. (loaded + failed) % Counters = read % Counters
      BY <2>2 DEF EveryEntryCounted
    <3>3. (((loaded + 1) % Counters) + failed) % Counters = (read + 1) % Counters
      <4> DEFINE C(x) == x % Counters
      <4>1. \A a, b, n \in Nat : C(a + b) = C(n) => C(C(a + 1) + b) = C(n + 1)
        BY OneMore
      <4> HIDE DEF C
      <4>2. C(loaded + failed) = C(read)
        BY <3>2 DEF C
      <4>3. C(C(loaded + 1) + failed) = C(read + 1)
        BY <1>1, <4>1, <4>2
      <4> QED BY <4>3 DEF C
    <3>4. (loaded' + failed') % Counters = read' % Counters
      BY <3>1, <3>3
    <3>5. Cardinality(rules') = Cardinality(rules) + 1
      BY <1>1, <1>4, FS_AddElement
    <3>6. loaded' = Cardinality(rules') % Counters
      <4>1. ((Cardinality(rules) % Counters) + 1) % Counters = (Cardinality(rules) + 1) % Counters
        BY <1>1, CountOn
      <4>2. loaded = Cardinality(rules) % Counters
        BY <2>2 DEF EveryEntryCounted
      <4> QED BY <3>1, <3>5, <4>1, <4>2
    <3> QED BY <1>4, <2>2, <3>4, <3>6 DEF EveryEntryCounted
  <2> QED BY <2>1, <2>2
<1>5. CASE UNCHANGED <<wanted, rules, loaded, failed, read>>
  BY <1>5 DEF EveryEntryCounted
<1>6. ASSUME NEW id \in Id, NEW error \in Keys, InsertError(id, error)
      PROVE  AddFailed
  BY <1>6 DEF InsertError
<1> QED BY <1>2, <1>3, <1>4, <1>5, <1>6, StepsOfLoop

(* Every entry that was read is counted once, as loaded or as failed, up to  *)
(* the width of the counters, for documents of any length (parse of          *)
(* parser_v1.cpp, parse_rules of parser_v2.cpp).                             *)
THEOREM EntriesCounted == Spec => []EveryEntryCounted
<1>1. Init => EveryEntryCounted
  <2> SUFFICES ASSUME Init PROVE EveryEntryCounted
    OBVIOUS
  <2>1. Cardinality(rules) = 0 /\ loaded = 0 /\ failed = 0 /\ read = 0
    BY FS_EmptySet DEF Init
  <2>2. (loaded + failed) % Counters = read % Counters
    BY <2>1
  <2>3. loaded = Cardinality(rules) % Counters
    BY <2>1, SizeAssumption
  <2> QED BY <2>1, <2>2, <2>3 DEF EveryEntryCounted
<1>2. (TypeInv /\ PlacesInv) /\ EveryEntryCounted /\ [Next]_vars => EveryEntryCounted'
  BY CountedKept
<1> QED BY <1>1, <1>2, Always, PTL DEF Spec

-----------------------------------------------------------------------------
(* What the errors tell *)

\* The first n rules that failed, of those of a list.
RaisedIn(list, error, n) == {m \in 1..n : list[m].error = error}

\* Every error raised has a place, and holds the ids of its rules in order.
PlacedInv ==
    wanted =>
      /\ \A n \in DOMAIN raised : raised[n].error \in DOMAIN cache
      /\ \A k \in DOMAIN errors.items :
            /\ \E n \in DOMAIN raised : raised[n].error = errors.items[k].key
            /\ Len(errors.items[k].ids.items) = Cardinality(RaisedIn(raised, errors.items[k].key, Len(raised)))
            /\ \A n \in RaisedIn(raised, errors.items[k].key, Len(raised)) :
                  errors.items[k].ids.items[Cardinality(RaisedIn(raised, errors.items[k].key, n))] = raised[n].id

LEMMA CountRaised ==
  ASSUME TypeInv, NEW e, NEW top \in 0..Len(raised)
  PROVE  /\ IsFiniteSet(RaisedIn(raised, e, top)) /\ Cardinality(RaisedIn(raised, e, top)) \in Nat
         /\ \A n \in RaisedIn(raised, e, top) :
               /\ n \in 1..top
               /\ Cardinality(RaisedIn(raised, e, n)) \in 1..Cardinality(RaisedIn(raised, e, top))
<1>1. \A n \in 0..Len(raised) : IsFiniteSet(RaisedIn(raised, e, n)) /\ Cardinality(RaisedIn(raised, e, n)) \in Nat
  <2>1. ASSUME NEW n \in 0..Len(raised)
        PROVE  IsFiniteSet(RaisedIn(raised, e, n)) /\ Cardinality(RaisedIn(raised, e, n)) \in Nat
    <3>1. IsFiniteSet(1..n) /\ RaisedIn(raised, e, n) \subseteq 1..n
      <4>1. Len(raised) \in Nat
        BY DEF TypeInv
      <4> QED BY <4>1, FS_Interval DEF RaisedIn
    <3> QED BY <3>1, FS_Subset, FS_CardinalityType
  <2> QED BY <2>1
<1>2. ASSUME NEW n \in RaisedIn(raised, e, top)
      PROVE  n \in 1..top /\ Cardinality(RaisedIn(raised, e, n)) \in 1..Cardinality(RaisedIn(raised, e, top))
  <2>1. Len(raised) \in Nat /\ n \in 1..top /\ n \in 0..Len(raised) /\ raised[n].error = e
    BY DEF TypeInv, RaisedIn
  <2>2. RaisedIn(raised, e, n) \subseteq RaisedIn(raised, e, top) /\ {n} \subseteq RaisedIn(raised, e, n)
    BY <2>1 DEF RaisedIn
  <2>3. Cardinality(RaisedIn(raised, e, n)) <= Cardinality(RaisedIn(raised, e, top))
    BY <1>1, <2>2, FS_Subset
  <2>4. Cardinality({n}) = 1 /\ Cardinality({n}) <= Cardinality(RaisedIn(raised, e, n))
    BY <1>1, <2>1, <2>2, FS_Subset, FS_Singleton
  <2> QED BY <1>1, <2>1, <2>3, <2>4
<1> QED BY <1>1, <1>2

LEMMA RaisedNext ==
  ASSUME TypeInv, NEW id \in Id, NEW error \in Keys,
         raised' = Append(raised, [id |-> id, error |-> error])
  PROVE  /\ Len(raised) \in Nat /\ Len(raised') = Len(raised) + 1
         /\ \A n \in 1..Len(raised) : raised'[n] = raised[n]
         /\ raised'[Len(raised) + 1] = [id |-> id, error |-> error]
         /\ \A e : \A n \in 1..Len(raised) : RaisedIn(raised', e, n) = RaisedIn(raised, e, n)
         /\ \A e : RaisedIn(raised', e, Len(raised')) =
                     IF e = error THEN RaisedIn(raised, e, Len(raised)) \cup {Len(raised) + 1}
                     ELSE RaisedIn(raised, e, Len(raised))
         /\ Cardinality(RaisedIn(raised', error, Len(raised'))) = Cardinality(RaisedIn(raised, error, Len(raised))) + 1
<1>1. /\ Len(raised) \in Nat /\ Len(raised') = Len(raised) + 1
      /\ \A n \in 1..Len(raised) : raised'[n] = raised[n]
      /\ raised'[Len(raised) + 1] = [id |-> id, error |-> error]
  BY DEF TypeInv
<1>2. \A e : \A n \in 1..Len(raised) : RaisedIn(raised', e, n) = RaisedIn(raised, e, n)
  BY <1>1 DEF RaisedIn
<1>3. ASSUME NEW e
      PROVE  RaisedIn(raised', e, Len(raised')) =
                IF e = error THEN RaisedIn(raised, e, Len(raised)) \cup {Len(raised) + 1}
                ELSE RaisedIn(raised, e, Len(raised))
  <2>1. raised'[Len(raised) + 1].error = error
    BY <1>1
  <2>2. \A m \in 1..Len(raised') : m = Len(raised) + 1 \/ m \in 1..Len(raised)
    BY <1>1
  <2> QED BY <1>1, <2>1, <2>2 DEF RaisedIn
<1>4. Cardinality(RaisedIn(raised', error, Len(raised'))) = Cardinality(RaisedIn(raised, error, Len(raised))) + 1
  <2>1. IsFiniteSet(RaisedIn(raised, error, Len(raised)))
    BY <1>1, CountRaised
  <2>2. Len(raised) + 1 \notin RaisedIn(raised, error, Len(raised))
    BY <1>1 DEF RaisedIn
  <2> QED BY <1>3, <2>1, <2>2, FS_AddElement
<1> QED BY <1>1, <1>2, <1>3, <1>4

LEMMA PlacedKept ==
  ASSUME TypeInv, PlacesInv, PlacedInv, [Next]_vars
  PROVE  PlacedInv'
<1>1. CASE UNCHANGED <<errors, cache, raised>>
  BY <1>1, ErrorsUntouched DEF PlacedInv
<1>2. ASSUME NEW id \in Id, NEW error \in Keys, InsertError(id, error), wanted
      PROVE  PlacedInv'
  <2> DEFINE n == Len(errors.items)
             top == Len(raised)
             known == error \in DOMAIN cache
             p == PlaceOf(error) + 1
             old == IF known THEN errors.items[p].ids ELSE Empty
  <2>1. /\ n \in Nat /\ p \in 1..(n + 1) /\ (known => p \in 1..n) /\ (~known => p = n + 1)
        /\ errors' \in [items : Seq(Filed), room : Nat]
        /\ Len(errors'.items) = IF known THEN n ELSE n + 1
        /\ \A k \in 1..n : k # p => errors'.items[k] = errors.items[k]
        /\ errors'.items[p].key = error
        /\ errors'.items[p].ids = Inserted(old, id)
        /\ DOMAIN cache' = DOMAIN cache \cup {error}
    BY <1>2, ErrorInserted
  <2>2. /\ errors \in [items : Seq(Filed), room : Nat] /\ DOMAIN errors.items = 1..n
        /\ DOMAIN raised = 1..top /\ top \in Nat
    BY DEF TypeInv
  <2>3. raised' = Append(raised, [id |-> id, error |-> error]) /\ raised' \in Seq([id : Id, error : Keys])
    BY <1>2, RaisedOneMore
  <2>4. /\ Len(raised') = top + 1 /\ DOMAIN raised' = 1..(top + 1)
        /\ \A m \in 1..top : raised'[m] = raised[m]
        /\ raised'[top + 1] = [id |-> id, error |-> error]
        /\ \A e : \A m \in 1..top : RaisedIn(raised', e, m) = RaisedIn(raised, e, m)
        /\ \A e : RaisedIn(raised', e, Len(raised')) =
                    IF e = error THEN RaisedIn(raised, e, top) \cup {top + 1} ELSE RaisedIn(raised, e, top)
        /\ Cardinality(RaisedIn(raised', error, Len(raised'))) = Cardinality(RaisedIn(raised, error, top)) + 1
    <3>1. DOMAIN raised' = 1..Len(raised')
      BY <2>3
    <3> QED BY <2>3, <3>1, RaisedNext
  <2>5. /\ \A m \in 1..top : raised[m].error \in DOMAIN cache
        /\ \A k \in 1..n :
              /\ \E m \in 1..top : raised[m].error = errors.items[k].key
              /\ Len(errors.items[k].ids.items) = Cardinality(RaisedIn(raised, errors.items[k].key, top))
              /\ \A m \in RaisedIn(raised, errors.items[k].key, top) :
                    errors.items[k].ids.items[Cardinality(RaisedIn(raised, errors.items[k].key, m))] = raised[m].id
    BY <1>2, <2>2 DEF PlacedInv
  <2>6. /\ \A k \in 1..n : errors.items[k].key \in DOMAIN cache /\ cache[errors.items[k].key] = k - 1
        /\ known => errors.items[p].key = error /\ cache[error] = p - 1
    <3>1. \A k \in 1..n : errors.items[k].key \in DOMAIN cache /\ cache[errors.items[k].key] = k - 1
      BY <1>2, <2>2 DEF PlacesInv
    <3>2. ASSUME known PROVE errors.items[p].key = error
      BY <1>2, <3>2 DEF PlacesInv, PlaceOf
    <3> QED BY <2>1, <3>1, <3>2
  <2>7. DOMAIN errors'.items = 1..Len(errors'.items)
    BY <2>1
  <2>8. old \in Ids
    <3>1. CASE known
      <4>1. errors.items[p] \in Filed
        BY <2>1, <2>2, <3>1
      <4> QED BY <3>1, <4>1 DEF Filed
    <3>2. CASE ~known
      BY <3>2 DEF Empty, Ids
    <3> QED BY <3>1, <3>2
  <2>9. /\ Len(old.items) = Cardinality(RaisedIn(raised, error, top))
        /\ \A m \in RaisedIn(raised, error, top) :
              old.items[Cardinality(RaisedIn(raised, error, m))] = raised[m].id
    <3>1. CASE known
      <4>1. p \in 1..n /\ errors.items[p].key = error /\ old = errors.items[p].ids
        BY <2>1, <2>6, <3>1
      <4> QED BY <2>5, <4>1
    <3>2. CASE ~known
      <4>1. RaisedIn(raised, error, top) = {}
        BY <2>5, <3>2 DEF RaisedIn
      <4>2. old.items = << >>
        BY <3>2 DEF Empty
      <4> QED BY <4>1, <4>2, FS_EmptySet
    <3> QED BY <3>1, <3>2
  <2> HIDE DEF old, known, p, n, top
  <2>10. /\ errors'.items[p].ids.items = Append(old.items, id) /\ old.items \in Seq(Id)
         /\ Len(old.items) \in Nat
    <3>1. old.items \in Seq(Id) /\ Len(old.items) \in Nat
      BY <2>8 DEF Ids
    <3>2. Inserted(old, id).items = Append(old.items, id)
      BY <2>8, InsertedType DEF Ids
    <3> QED BY <2>1, <3>1, <3>2
  <2>11. ASSUME NEW m \in 1..(top + 1)
         PROVE  raised'[m].error \in DOMAIN cache'
    <3>1. CASE m = top + 1
      <4>1. raised'[m].error = error
        BY <2>4, <3>1
      <4> QED BY <2>1, <4>1
    <3>2. CASE m # top + 1
      <4>1. m \in 1..top
        BY <2>2, <3>2
      <4> QED BY <2>1, <2>4, <2>5, <4>1
    <3> QED BY <3>1, <3>2
  <2>12. ASSUME NEW k \in 1..Len(errors'.items)
         PROVE  /\ \E m \in 1..(top + 1) : raised'[m].error = errors'.items[k].key
                /\ Len(errors'.items[k].ids.items) = Cardinality(RaisedIn(raised', errors'.items[k].key, Len(raised')))
                /\ \A m \in RaisedIn(raised', errors'.items[k].key, Len(raised')) :
                      errors'.items[k].ids.items[Cardinality(RaisedIn(raised', errors'.items[k].key, m))] = raised'[m].id
    <3>1. CASE k = p
      <4>1. errors'.items[k].key = error
        BY <2>1, <3>1
      <4>2. /\ RaisedIn(raised', error, Len(raised')) = RaisedIn(raised, error, top) \cup {top + 1}
            /\ Cardinality(RaisedIn(raised', error, Len(raised'))) = Cardinality(RaisedIn(raised, error, top)) + 1
        BY <2>4
      <4>3. \E m \in 1..(top + 1) : raised'[m].error = errors'.items[k].key
        BY <2>1, <2>2, <2>4, <3>1
      <4>4. Len(errors'.items[k].ids.items) = Cardinality(RaisedIn(raised, error, top)) + 1
        BY <2>9, <2>10, <3>1
      <4>5. ASSUME NEW m \in RaisedIn(raised, error, top)
            PROVE  errors'.items[k].ids.items[Cardinality(RaisedIn(raised', error, m))] = raised'[m].id
        <5>1. m \in 1..top /\ Cardinality(RaisedIn(raised, error, m)) \in 1..Cardinality(RaisedIn(raised, error, top))
          BY <2>2, CountRaised DEF top
        <5>2. RaisedIn(raised', error, m) = RaisedIn(raised, error, m) /\ raised'[m] = raised[m]
          BY <2>4, <5>1
        <5>3. Append(old.items, id)[Cardinality(RaisedIn(raised, error, m))] = old.items[Cardinality(RaisedIn(raised, error, m))]
          BY <2>9, <2>10, <5>1
        <5> QED BY <2>9, <2>10, <3>1, <5>2, <5>3
      <4>6. errors'.items[k].ids.items[Cardinality(RaisedIn(raised', error, top + 1))] = raised'[top + 1].id
        <5>1. Cardinality(RaisedIn(raised', error, top + 1)) = Len(old.items) + 1
          <6>1. Cardinality(RaisedIn(raised', error, top + 1)) = Cardinality(RaisedIn(raised, error, top)) + 1
            BY <2>4
          <6> QED BY <2>9, <6>1
        <5>2. Append(old.items, id)[Len(old.items) + 1] = id
          BY <2>10
        <5> QED BY <2>4, <2>10, <3>1, <5>1, <5>2
      <4> QED BY <4>1, <4>2, <4>3, <4>4, <4>5, <4>6
    <3>2. CASE k # p
      <4> DEFINE e == errors.items[k].key
      <4>1. k \in 1..n /\ errors'.items[k] = errors.items[k]
        BY <2>1, <2>12, <3>2
      <4>2. e # error
        BY <2>1, <2>6, <3>2, <4>1 DEF known
      <4>3. /\ errors'.items[k].key = e
            /\ RaisedIn(raised', e, Len(raised')) = RaisedIn(raised, e, top)
            /\ \A m \in 1..top : RaisedIn(raised', e, m) = RaisedIn(raised, e, m)
        BY <2>4, <4>1, <4>2
      <4>4. \A m \in RaisedIn(raised, e, top) : m \in 1..top
        BY DEF RaisedIn
      <4>5. \E m \in 1..(top + 1) : raised'[m].error = errors'.items[k].key
        <5>1. PICK m \in 1..top : raised[m].error = e
          BY <2>5, <4>1
        <5> QED BY <2>2, <2>4, <4>1, <5>1
      <4> QED BY <2>4, <2>5, <4>1, <4>3, <4>4, <4>5
    <3> QED BY <3>1, <3>2
  <2> QED BY <2>4, <2>7, <2>11, <2>12 DEF PlacedInv
<1> QED BY <1>1, <1>2, ErrorsUntouched, RaisedOneMore DEF PlacedInv

(* The errors are a map from an error to the ids of all the rules for which  *)
(* it was raised, in the order of the document, however many they are        *)
(* (ruleset_info::insert_error, error_obj_cache).                            *)
THEOREM ErrorsAreComplete == Spec => []ErrorsTellAll
<1>1. Init => PlacedInv
  <2> SUFFICES ASSUME Init PROVE PlacedInv
    OBVIOUS
  <2> QED BY DEF Init, PlacedInv, Empty
<1>2. (TypeInv /\ PlacesInv) /\ PlacedInv /\ [Next]_vars => PlacedInv'
  BY PlacedKept
<1>3. TypeInv /\ PlacesInv /\ PlacedInv => ErrorsTellAll
  <2> SUFFICES ASSUME TypeInv, PlacesInv, PlacedInv PROVE ErrorsTellAll
    OBVIOUS
  <2>1. CASE ~wanted
    BY <2>1 DEF PlacesInv, ErrorsTellAll
  <2>2. CASE wanted
    <3> DEFINE keys == [k \in DOMAIN errors.items |-> errors.items[k].key]
    <3>1. DOMAIN errors.items \subseteq Nat /\ DOMAIN keys = DOMAIN errors.items
      BY DEF TypeInv
    <3>2. \A k \in DOMAIN keys : keys[k] = errors.items[k].key
      OBVIOUS
    <3>3. \A k \in DOMAIN keys : keys[k] \in DOMAIN cache /\ cache[keys[k]] = k - 1
      BY <2>2, <3>2 DEF PlacesInv
    <3>4. IsInjective(keys)
      <4>1. ASSUME NEW a \in DOMAIN keys, NEW b \in DOMAIN keys, keys[a] = keys[b] PROVE a = b
        <5>1. a - 1 = b - 1 /\ a \in Nat /\ b \in Nat
          BY <3>1, <3>3, <4>1
        <5> QED BY <5>1
      <4> HIDE DEF keys
      <4> QED BY <4>1 DEF IsInjective
    <3>5. ASSUME NEW x \in {raised[n].error : n \in DOMAIN raised}
          PROVE  \E k \in DOMAIN keys : x = keys[k]
      <4>1. x \in DOMAIN cache
        BY <2>2 DEF PlacedInv
      <4>2. cache[x] + 1 \in DOMAIN errors.items /\ errors.items[cache[x] + 1].key = x
        <5>1. Len(errors.items) \in Nat /\ DOMAIN errors.items = 1..Len(errors.items)
          BY DEF TypeInv
        <5> QED BY <2>2, <4>1, <5>1 DEF PlacesInv
      <4> QED BY <3>2, <4>2
    <3>6. \A k \in DOMAIN keys : keys[k] \in {raised[n].error : n \in DOMAIN raised}
      BY <2>2, <3>2 DEF PlacedInv
    <3>7. Range(keys) = {raised[n].error : n \in DOMAIN raised}
      <4> HIDE DEF keys
      <4> QED BY <3>5, <3>6 DEF Range
    <3>8. \A e, n : RaisedFor(e, n) = RaisedIn(raised, e, n)
      BY DEF RaisedFor, RaisedIn
    <3>9. \A k \in DOMAIN keys :
            /\ Len(errors.items[k].ids.items) = Cardinality(RaisedFor(keys[k], Len(raised)))
            /\ \A n \in RaisedFor(keys[k], Len(raised)) :
                  errors.items[k].ids.items[Cardinality(RaisedFor(keys[k], n))] = raised[n].id
      BY <2>2, <3>2, <3>8 DEF PlacedInv
    <3> QED BY <2>2, <3>4, <3>7, <3>9 DEF ErrorsTellAll
  <2> QED BY <2>1, <2>2
<1> QED BY <1>1, <1>2, <1>3, Always, PTL DEF Spec

=============================================================================
