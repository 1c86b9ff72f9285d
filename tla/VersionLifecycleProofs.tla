----------------------- MODULE VersionLifecycleProofs -----------------------
(***************************************************************************)
(* What a reader of published knowledge may conclude from VersionLifecycle *)
(* alone, and so of every specification that implements it.                *)
(***************************************************************************)
EXTENDS VersionLifecycle, TLAPS

LifeTyped ==
  /\ life \in [Versions -> Lives]
  /\ current \in [Documents -> Versions \cup {None}]

\* A pointer names a version exactly when that version is published: a document has
\* one published version at most, and no version is visible in another document.
PointersNamePublished ==
  \A d \in Documents, v \in Versions :
    current[d] = v <=> life[v] = "published" /\ DocumentOf[v] = d

\* A version that was taken offline, replaced or deleted is never published again.
OverIsOver ==
  [][\A v \in Versions :
       life[v] \in {"retired", "gone"} =>
         /\ life'[v] \in {"retired", "gone"}
         /\ life[v] = "gone" => life'[v] = "gone"
         /\ current'[DocumentOf[v]] # v]_vars

LifeInv == LifeTyped /\ PointersNamePublished

LEMMA LifeInit ==
  ASSUME DocumentOf \in [Versions -> Documents], None \notin Versions, Init PROVE LifeInv
BY DEF Init, LifeInv, LifeTyped, PointersNamePublished, Lives

LEMMA LifeStep ==
  ASSUME DocumentOf \in [Versions -> Documents], None \notin Versions, LifeInv, [Next]_vars
  PROVE  LifeInv'
<1> USE DEF LifeInv, LifeTyped, PointersNamePublished
<1>1. ASSUME NEW v \in Versions, Create(v) \/ Prepare(v) \/ Reopen(v) \/ RemoveVersion(v)
      PROVE  LifeInv'
  BY <1>1 DEF Create, Prepare, Reopen, RemoveVersion, Move, Lives
<1>2. ASSUME NEW v \in Versions, Publish(v) PROVE LifeInv'
  BY <1>2 DEF Publish, Lives
<1>3. ASSUME NEW d \in Documents, Withdraw(d) PROVE LifeInv'
  BY <1>3 DEF Withdraw, Move, Lives
<1>4. ASSUME NEW d \in Documents, RemoveDocument(d) PROVE LifeInv'
  BY <1>4 DEF RemoveDocument, Lives
<1>5. CASE UNCHANGED vars
  BY <1>5 DEF vars
<1> QED BY <1>1, <1>2, <1>3, <1>4, <1>5 DEF Next

LEMMA OverStep ==
  ASSUME DocumentOf \in [Versions -> Documents], None \notin Versions, LifeInv, [Next]_vars,
         NEW v \in Versions, life[v] \in {"retired", "gone"}
  PROVE  /\ life'[v] \in {"retired", "gone"}
         /\ life[v] = "gone" => life'[v] = "gone"
         /\ current'[DocumentOf[v]] # v
<1> DEFINE Goal == /\ life'[v] \in {"retired", "gone"}
                   /\ life[v] = "gone" => life'[v] = "gone"
                   /\ current'[DocumentOf[v]] # v
<1> USE DEF LifeInv, LifeTyped, PointersNamePublished
<1>1. ASSUME NEW w \in Versions, Create(w) \/ Prepare(w) \/ Reopen(w) \/ RemoveVersion(w)
      PROVE  Goal
  BY <1>1 DEF Create, Prepare, Reopen, RemoveVersion, Move
<1>2. ASSUME NEW w \in Versions, Publish(w) PROVE Goal
  BY <1>2 DEF Publish
<1>3. ASSUME NEW d \in Documents, Withdraw(d) PROVE Goal
  BY <1>3 DEF Withdraw, Move
<1>4. ASSUME NEW d \in Documents, RemoveDocument(d) PROVE Goal
  BY <1>4 DEF RemoveDocument
<1>5. CASE UNCHANGED vars
  BY <1>5 DEF vars
<1> QED BY <1>1, <1>2, <1>3, <1>4, <1>5 DEF Next

\* Each document has one visible version at most: the published one.
THEOREM PublishedIsVisible ==
  ASSUME DocumentOf \in [Versions -> Documents], None \notin Versions
  PROVE  Spec => []PointersNamePublished
<1>1. Init => LifeInv
  BY LifeInit
<1>2. LifeInv /\ [Next]_vars => LifeInv'
  BY LifeStep
<1>3. LifeInv => PointersNamePublished
  BY DEF LifeInv
<1> QED BY <1>1, <1>2, <1>3, PTL DEF Spec

\* What readers no longer see they never see again.
THEOREM NeverBack ==
  ASSUME DocumentOf \in [Versions -> Documents], None \notin Versions
  PROVE  Spec => OverIsOver
<1>1. Init => LifeInv
  BY LifeInit
<1>2. LifeInv /\ [Next]_vars => LifeInv'
  BY LifeStep
<1>3. LifeInv /\ [Next]_vars =>
        [\A v \in Versions :
           life[v] \in {"retired", "gone"} =>
             /\ life'[v] \in {"retired", "gone"}
             /\ life[v] = "gone" => life'[v] = "gone"
             /\ current'[DocumentOf[v]] # v]_vars
  BY OverStep
<1> QED BY <1>1, <1>2, <1>3, PTL DEF Spec, OverIsOver
=============================================================================
