-------------------------- MODULE StoreDisclosure --------------------------
(***************************************************************************)
(* The store disclosures generated from the SDK's data contract:           *)
(* tools/privacy-manifest writes Apple's PrivacyInfo.xcprivacy and         *)
(* tools/datasafety the Play Console's form.  A store lists a data type    *)
(* once, so each generator merges the items that project onto one type.    *)
(*                                                                         *)
(* A behaviour adds the items of a contract one after the other, the two   *)
(* generators reading along, with the -include-optional they run under.    *)
(***************************************************************************)
EXTENDS Integers, Sequences, FiniteSets

CONSTANTS
    None,        \* no mapping, and the empty string
    Items,       \* items a contract may list
    MaxItems

VARIABLES
    collected,   \* the items of the contract, in order
    include,     \* the option IncludeOptional
    ios,         \* xcprivacy.Generate: what is merged per Apple type
    play         \* datasafety.Generate: what is merged per (category, data type)

vars == <<collected, include, ios, play>>

Init == collected = <<>> /\ include \in BOOLEAN /\ ios = <<>> /\ play = <<>>

\* What a contract must satisfy before either tool generates anything.
validate(c) ==
    /\ c # <<>>
    /\ \A i \in DOMAIN c :
          /\ c[i].id # None /\ c[i].name # None /\ c[i].fields # {}
          /\ \A j \in 1..(i - 1) : c[j].id # c[i].id /\ c[j].fields \cap c[i].fields = {}
          /\ c[i].personal => /\ ~(c[i].ios = None /\ c[i].android = None)
                              /\ c[i].ios # None => c[i].ios.type # None
                              /\ c[i].android # None => c[i].android.category # None /\ c[i].android.type # None

\* A mutant: an item that one store does not list is dropped for both.
SelectedForBoth(it) == it.personal /\ ~(it.optional /\ ~it.default /\ ~include) /\ it.ios # None /\ it.android # None

\* Of the personal items, one off by default is disclosed only on request.
Selected(it) == it.personal /\ ~(it.optional /\ ~it.default /\ ~include)

\* A type is optional until a mandatory item joins it.
NewAgg == [linked |-> FALSE, tracking |-> FALSE, optional |-> TRUE, purposes |-> {}, source |-> {}]

Agg(byType, key) == IF key \in DOMAIN byType THEN byType[key] ELSE NewAgg

Put(byType, key, a) == [k \in DOMAIN byType \cup {key} |-> IF k = key THEN a ELSE byType[k]]

xcprivacyGenerate(byType, it) ==
    LET a == Agg(byType, it.ios.type)
    IN Put(byType, it.ios.type, [a EXCEPT !.linked = @ \/ it.linked, !.tracking = @ \/ it.tracking, !.optional = @ /\ it.optional,
                                          !.purposes = @ \cup it.ios.purposes, !.source = @ \cup {it.id}])

datasafetyGenerate(byType, it) ==
    LET key == <<it.android.category, it.android.type>>
        a == Agg(byType, key)
    IN Put(byType, key, [a EXCEPT !.optional = @ /\ it.optional, !.purposes = @ \cup it.android.purposes, !.source = @ \cup {it.id}])

Collect(it) ==
    /\ Len(collected) < MaxItems
    /\ collected' = Append(collected, it)
    /\ ios' = IF Selected(it) /\ it.ios # None THEN xcprivacyGenerate(ios, it) ELSE ios
    /\ play' = IF Selected(it) /\ it.android # None THEN datasafetyGenerate(play, it) ELSE play
    /\ UNCHANGED include

Next == \E it \in Items : Collect(it)

Spec == Init /\ [][Next]_vars

-----------------------------------------------------------------------------
(* Properties.                                                              *)

Due(it) == it.personal /\ (it.default \/ ~it.optional \/ include)

Listed == {collected[i] : i \in DOMAIN collected}

\* No disclosure is dropped: of a contract that validates, every personal item that
\* is collected is a source of a type of one store at least, under its purposes
\* (validate: "so the generators do not silently drop a disclosure").
NothingUndisclosed ==
    validate(collected) => \A it \in Listed : Due(it) =>
        \/ it.ios # None /\ \E t \in DOMAIN ios : it.id \in ios[t].source /\ it.ios.purposes \subseteq ios[t].purposes
        \/ it.android # None /\ \E t \in DOMAIN play : it.id \in play[t].source /\ it.android.purposes \subseteq play[t].purposes

\* Whatever the order of the items, what a store is told of a type is what its items
\* say together: linked if one is, optional only if all are ("one mandatory item makes
\* the merged type mandatory").
MergedAsAWhole ==
    validate(collected) =>
        /\ \A t \in DOMAIN ios : LET of == {it \in Listed : Due(it) /\ it.ios # None /\ it.ios.type = t}
                                 IN /\ ios[t].linked = (\E it \in of : it.linked)
                                    /\ ios[t].tracking = (\E it \in of : it.tracking)
                                    /\ ios[t].optional = (\A it \in of : it.optional)
                                    /\ ios[t].source = {it.id : it \in of}
        /\ \A t \in DOMAIN play : LET of == {it \in Listed : Due(it) /\ it.android # None /\ <<it.android.category, it.android.type>> = t}
                                  IN play[t].optional = (\A it \in of : it.optional) /\ play[t].source = {it.id : it \in of}
=============================================================================
