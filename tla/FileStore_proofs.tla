------------------------- MODULE FileStore_proofs -------------------------
(***************************************************************************)
(* Proofs about FileStore, for any number of uploads, contents, posts and  *)
(* faults: the inductive invariant, and the properties it implies.         *)
(***************************************************************************)
EXTENDS FileStore, FiniteSetTheorems, TLAPS

\* A set of at most one element has no two.
LEMMA AtMostOne ==
    ASSUME NEW S, IsFiniteSet(S), Cardinality(S) <= 1, NEW x \in S, NEW y \in S
    PROVE  x = y
<1>1. Cardinality(S) \in Nat
  BY FS_CardinalityType
<1>2. CASE Cardinality(S) = 0
  BY <1>2, FS_EmptySet
<1>3. CASE Cardinality(S) = 1
  BY <1>3, FS_Singleton
<1> QED
  BY <1>1, <1>2, <1>3

\* Nothing is stored at the start.
LEMMA InitInv == Init => IInv
BY FileAssumption
   DEF Init, IInv, TypeOK, InFlight, InHand, CollectorShape, UploadsShape,
          NonceMatches,
       HollowIsEmpty, InFlightNotHollow, OneWriter, InsertsGood, LastReference,
       FilesGood, OwnFile, Hollow, Good

\* Every step keeps the types.
LEMMA TypeStep == TypeOK /\ CollectorShape /\ [Next]_vars => TypeOK'
<1> SUFFICES ASSUME TypeOK, CollectorShape, [Next]_vars PROVE TypeOK'
  OBVIOUS
<1> USE FileAssumption DEF TypeOK, Storage, Uploading, Collector, Marks, History,
       InFlight
<1>1. ASSUME NEW u \in Uploads, LookupShares(u) PROVE TypeOK'
  BY <1>1 DEF LookupShares, CollectorShape, InHand, DocsFor
<1>2. ASSUME NEW u \in Uploads, LookupRetries(u) PROVE TypeOK'
  BY <1>2 DEF LookupRetries, CollectorShape, InHand, DocsFor
<1>3. ASSUME NEW u \in Uploads, LookupMisses(u) PROVE TypeOK'
  BY <1>3 DEF LookupMisses
<1>4. ASSUME NEW u \in Uploads, InsertHash(u) PROVE TypeOK'
  BY <1>4 DEF InsertHash
<1>5. ASSUME NEW u \in Uploads, Put(u) PROVE TypeOK'
  BY <1>5 DEF Put
<1>6. ASSUME NEW u \in Uploads, SetNonce(u) PROVE TypeOK'
  BY <1>6 DEF SetNonce
<1>7. ASSUME NEW u \in Uploads, InsertFile(u) PROVE TypeOK'
  BY <1>7 DEF InsertFile
<1>8. ASSUME NEW u \in Uploads, UploadFails(u) PROVE TypeOK'
  BY <1>8 DEF UploadFails
<1>9. ASSUME NEW u \in Uploads, GrowOld(u) PROVE TypeOK'
  BY <1>9 DEF GrowOld
<1>10. ASSUME NEW p \in Posts, Find(p) PROVE TypeOK'
  BY <1>10 DEF Find
<1>11. ASSUME NEW p \in Posts, Use(p) PROVE TypeOK'
  BY <1>11 DEF Use
<1>12. ASSUME NEW p \in Posts, MarkDeleted(p) PROVE TypeOK'
  BY <1>12 DEF MarkDeleted
<1>13. ASSUME NEW p \in Posts, DeletePost(p) PROVE TypeOK'
  BY <1>13 DEF DeletePost
<1>14. ASSUME NEW p \in Posts, BulkDelete(p) PROVE TypeOK'
  BY <1>14 DEF BulkDelete
<1>15. ASSUME NEW p \in Posts, Report(p) PROVE TypeOK'
  BY <1>15 DEF Report
<1>16. CASE ListDeleted
  BY <1>16 DEF ListDeleted, Collect
<1>17. CASE Take
  BY <1>17 DEF Take, Collect, CollectorShape, InHand, DocsFor
<1>18. CASE Fetch
  BY <1>18 DEF Fetch, Collect, CollectorShape, InHand, DocsFor
<1>19. CASE FetchFails
  BY <1>19 DEF FetchFails, CrondEnds
<1>20. CASE DeleteObject
  BY <1>20 DEF DeleteObject, Collect, CollectorShape, InHand, DocsFor
<1>21. CASE DeleteHash
  BY <1>21 DEF DeleteHash, Collect
<1>22. CASE DeleteFile
  BY <1>22 DEF DeleteFile, Collect, CollectorShape, InHand, DocsFor
<1>23. CASE ListDangling
  BY <1>23 DEF ListDangling
<1>24. CASE Prune
  BY <1>24 DEF Prune
<1>25. CASE CrondFails
  <2>1. faults' \in 0 .. MaxFaults
    BY <1>25 DEF CrondFails
  <2>2. late' \in SUBSET Uploads /\ spoiled' \in SUBSET Contents
    BY <1>25 DEF CrondFails, CollectorShape
  <2> QED
    BY <1>25, <2>1, <2>2 DEF CrondFails, CrondEnds
<1>26. CASE CrondStarts
  BY <1>26 DEF CrondStarts
<1>27. CASE UNCHANGED vars
  BY <1>27 DEF vars
<1> QED
  BY <1>1, <1>2, <1>3, <1>4, <1>5, <1>6, <1>7, <1>8, <1>9, <1>10, <1>11, <1>12,
     <1>13, <1>14, <1>15, <1>16, <1>17, <1>18, <1>19, <1>20, <1>21, <1>22, <1>23,
     <1>24, <1>25, <1>26, <1>27
     DEF Next, Upload, Handle, FileDeletion

\* Every step leaves file_deletion with deleted files of its own in hand.
LEMMA CollectorStep == TypeOK /\ CollectorShape /\ UploadsShape /\ [Next]_vars => CollectorShape'
<1> SUFFICES ASSUME TypeOK, CollectorShape, UploadsShape, [Next]_vars PROVE CollectorShape'
  OBVIOUS
<1> USE FileAssumption DEF TypeOK, Storage, Uploading, Collector, Marks, History,
       InFlight
<1>1. ASSUME NEW u \in Uploads, LookupShares(u) PROVE CollectorShape'
  BY <1>1 DEF LookupShares, CollectorShape, InHand, DocsFor
<1>2. ASSUME NEW u \in Uploads, LookupRetries(u) PROVE CollectorShape'
  BY <1>2 DEF LookupRetries, CollectorShape, InHand, DocsFor
<1>3. ASSUME NEW u \in Uploads, LookupMisses(u) PROVE CollectorShape'
  BY <1>3 DEF LookupMisses, CollectorShape, InHand
<1>4. ASSUME NEW u \in Uploads, InsertHash(u) PROVE CollectorShape'
  BY <1>4 DEF InsertHash, CollectorShape, InHand
<1>5. ASSUME NEW u \in Uploads, Put(u) PROVE CollectorShape'
  BY <1>5 DEF Put, CollectorShape, InHand
<1>6. ASSUME NEW u \in Uploads, SetNonce(u) PROVE CollectorShape'
  BY <1>6 DEF SetNonce, CollectorShape, InHand
<1>7. ASSUME NEW u \in Uploads, InsertFile(u) PROVE CollectorShape'
  BY <1>7 DEF InsertFile, CollectorShape, InHand, UploadsShape
<1>8. ASSUME NEW u \in Uploads, UploadFails(u) PROVE CollectorShape'
  BY <1>8 DEF UploadFails, CollectorShape, InHand
<1>9. ASSUME NEW u \in Uploads, GrowOld(u) PROVE CollectorShape'
  BY <1>9 DEF GrowOld, CollectorShape, InHand
<1>10. ASSUME NEW p \in Posts, Find(p) PROVE CollectorShape'
  BY <1>10 DEF Find, CollectorShape, InHand
<1>11. ASSUME NEW p \in Posts, Use(p) PROVE CollectorShape'
  BY <1>11 DEF Use, CollectorShape, InHand
<1>12. ASSUME NEW p \in Posts, MarkDeleted(p) PROVE CollectorShape'
  BY <1>12 DEF MarkDeleted, CollectorShape, InHand
<1>13. ASSUME NEW p \in Posts, DeletePost(p) PROVE CollectorShape'
  BY <1>13 DEF DeletePost, CollectorShape, InHand
<1>14. ASSUME NEW p \in Posts, BulkDelete(p) PROVE CollectorShape'
  BY <1>14 DEF BulkDelete, CollectorShape, InHand
<1>15. ASSUME NEW p \in Posts, Report(p) PROVE CollectorShape'
  BY <1>15 DEF Report, CollectorShape, InHand
<1>16. CASE ListDeleted
  BY <1>16 DEF ListDeleted, Collect, CollectorShape, InHand
<1>17. CASE Take
  BY <1>17 DEF Take, Collect, CollectorShape, InHand
<1>18. CASE Fetch
  BY <1>18 DEF Fetch, Collect, CollectorShape, InHand, DocsFor
<1>19. CASE FetchFails
  BY <1>19 DEF FetchFails, CrondEnds, CollectorShape, InHand
<1>20. CASE DeleteObject
  BY <1>20 DEF DeleteObject, Collect, CollectorShape, InHand
<1>21. CASE DeleteHash
  BY <1>21 DEF DeleteHash, Collect, CollectorShape, InHand
<1>22. CASE DeleteFile
  BY <1>22 DEF DeleteFile, Collect, CollectorShape, InHand
<1>23. CASE ListDangling
  BY <1>23 DEF ListDangling, CollectorShape, InHand
<1>24. CASE Prune
  BY <1>24 DEF Prune, CollectorShape, InHand
<1>25. CASE CrondFails
  BY <1>25 DEF CrondFails, CrondEnds, CollectorShape, InHand
<1>26. CASE CrondStarts
  BY <1>26 DEF CrondStarts, CollectorShape, InHand
<1>27. CASE UNCHANGED vars
  BY <1>27 DEF vars, CollectorShape, InHand
<1> QED
  BY <1>1, <1>2, <1>3, <1>4, <1>5, <1>6, <1>7, <1>8, <1>9, <1>10, <1>11, <1>12,
     <1>13, <1>14, <1>15, <1>16, <1>17, <1>18, <1>19, <1>20, <1>21, <1>22, <1>23,
     <1>24, <1>25, <1>26, <1>27
     DEF Next, Upload, Handle, FileDeletion

\* Every step keeps a file that exists, was reported or lost its content uploaded.
LEMMA UploadsStep == TypeOK /\ CollectorShape /\ UploadsShape /\ [Next]_vars => UploadsShape'
<1> SUFFICES ASSUME TypeOK, CollectorShape, UploadsShape, [Next]_vars PROVE UploadsShape'
  OBVIOUS
<1> USE FileAssumption DEF TypeOK, Storage, Uploading, Collector, Marks, History,
       InFlight
<1>1. ASSUME NEW u \in Uploads, LookupShares(u) PROVE UploadsShape'
  BY <1>1 DEF LookupShares, UploadsShape, CollectorShape, InHand
<1>2. ASSUME NEW u \in Uploads, LookupRetries(u) PROVE UploadsShape'
  BY <1>2 DEF LookupRetries, UploadsShape, CollectorShape, InHand
<1>3. ASSUME NEW u \in Uploads, LookupMisses(u) PROVE UploadsShape'
  BY <1>3 DEF LookupMisses, UploadsShape, CollectorShape, InHand
<1>4. ASSUME NEW u \in Uploads, InsertHash(u) PROVE UploadsShape'
  BY <1>4 DEF InsertHash, UploadsShape, CollectorShape, InHand
<1>5. ASSUME NEW u \in Uploads, Put(u) PROVE UploadsShape'
  BY <1>5 DEF Put, UploadsShape, CollectorShape, InHand
<1>6. ASSUME NEW u \in Uploads, SetNonce(u) PROVE UploadsShape'
  BY <1>6 DEF SetNonce, UploadsShape, CollectorShape, InHand
<1>7. ASSUME NEW u \in Uploads, InsertFile(u) PROVE UploadsShape'
  BY <1>7 DEF InsertFile, UploadsShape, CollectorShape, InHand
<1>8. ASSUME NEW u \in Uploads, UploadFails(u) PROVE UploadsShape'
  BY <1>8 DEF UploadFails, UploadsShape, CollectorShape, InHand
<1>9. ASSUME NEW u \in Uploads, GrowOld(u) PROVE UploadsShape'
  BY <1>9 DEF GrowOld, UploadsShape, CollectorShape, InHand
<1>10. ASSUME NEW p \in Posts, Find(p) PROVE UploadsShape'
  BY <1>10 DEF Find, UploadsShape, CollectorShape, InHand
<1>11. ASSUME NEW p \in Posts, Use(p) PROVE UploadsShape'
  BY <1>11 DEF Use, UploadsShape, CollectorShape, InHand
<1>12. ASSUME NEW p \in Posts, MarkDeleted(p) PROVE UploadsShape'
  BY <1>12 DEF MarkDeleted, UploadsShape, CollectorShape, InHand
<1>13. ASSUME NEW p \in Posts, DeletePost(p) PROVE UploadsShape'
  BY <1>13 DEF DeletePost, UploadsShape, CollectorShape, InHand
<1>14. ASSUME NEW p \in Posts, BulkDelete(p) PROVE UploadsShape'
  BY <1>14 DEF BulkDelete, UploadsShape, CollectorShape, InHand
<1>15. ASSUME NEW p \in Posts, Report(p) PROVE UploadsShape'
  BY <1>15 DEF Report, UploadsShape, CollectorShape, InHand
<1>16. CASE ListDeleted
  BY <1>16 DEF ListDeleted, Collect, UploadsShape, CollectorShape, InHand
<1>17. CASE Take
  BY <1>17 DEF Take, Collect, UploadsShape, CollectorShape, InHand
<1>18. CASE Fetch
  BY <1>18 DEF Fetch, Collect, UploadsShape, CollectorShape, InHand
<1>19. CASE FetchFails
  BY <1>19 DEF FetchFails, CrondEnds, UploadsShape, CollectorShape, InHand
<1>20. CASE DeleteObject
  BY <1>20 DEF DeleteObject, Collect, UploadsShape, CollectorShape, InHand
<1>21. CASE DeleteHash
  BY <1>21 DEF DeleteHash, Collect, UploadsShape, CollectorShape, InHand
<1>22. CASE DeleteFile
  BY <1>22 DEF DeleteFile, Collect, UploadsShape, CollectorShape, InHand
<1>23. CASE ListDangling
  BY <1>23 DEF ListDangling, UploadsShape, CollectorShape, InHand
<1>24. CASE Prune
  BY <1>24 DEF Prune, UploadsShape, CollectorShape, InHand
<1>25. CASE CrondFails
  BY <1>25 DEF CrondFails, CrondEnds, UploadsShape, CollectorShape, InHand
<1>26. CASE CrondStarts
  BY <1>26 DEF CrondStarts, UploadsShape, CollectorShape, InHand
<1>27. CASE UNCHANGED vars
  BY <1>27 DEF vars, UploadsShape, CollectorShape, InHand
<1> QED
  BY <1>1, <1>2, <1>3, <1>4, <1>5, <1>6, <1>7, <1>8, <1>9, <1>10, <1>11, <1>12,
     <1>13, <1>14, <1>15, <1>16, <1>17, <1>18, <1>19, <1>20, <1>21, <1>22, <1>23,
     <1>24, <1>25, <1>26, <1>27
     DEF Next, Upload, Handle, FileDeletion

\* Every step keeps the nonce on record that of the object.
LEMMA NonceStep == TypeOK /\ OneWriter /\ NonceMatches /\ [Next]_vars => NonceMatches'
<1> SUFFICES ASSUME TypeOK, OneWriter, NonceMatches, [Next]_vars PROVE NonceMatches'
  OBVIOUS
<1> USE FileAssumption DEF TypeOK, Storage, Uploading, Collector, Marks, History,
       InFlight
<1>1. ASSUME NEW u \in Uploads, LookupShares(u) PROVE NonceMatches'
  BY <1>1 DEF LookupShares, NonceMatches, Good, Hollow
<1>2. ASSUME NEW u \in Uploads, LookupRetries(u) PROVE NonceMatches'
  BY <1>2 DEF LookupRetries, NonceMatches, Good, Hollow
<1>3. ASSUME NEW u \in Uploads, LookupMisses(u) PROVE NonceMatches'
  BY <1>3 DEF LookupMisses, NonceMatches, Good, Hollow
<1>4. ASSUME NEW u \in Uploads, InsertHash(u) PROVE NonceMatches'
  BY <1>4 DEF InsertHash, NonceMatches, Good, Hollow
<1>5. ASSUME NEW u \in Uploads, Put(u) PROVE NonceMatches'
  BY <1>5 DEF Put, NonceMatches, Good, Hollow
<1>6. ASSUME NEW u \in Uploads, SetNonce(u) PROVE NonceMatches'
  BY <1>6 DEF SetNonce, NonceMatches, Good, Hollow, OneWriter
<1>7. ASSUME NEW u \in Uploads, InsertFile(u) PROVE NonceMatches'
  BY <1>7 DEF InsertFile, NonceMatches, Good, Hollow
<1>8. ASSUME NEW u \in Uploads, UploadFails(u) PROVE NonceMatches'
  BY <1>8 DEF UploadFails, NonceMatches, Good, Hollow
<1>9. ASSUME NEW u \in Uploads, GrowOld(u) PROVE NonceMatches'
  BY <1>9 DEF GrowOld, NonceMatches, Good, Hollow
<1>10. ASSUME NEW p \in Posts, Find(p) PROVE NonceMatches'
  BY <1>10 DEF Find, NonceMatches, Good, Hollow
<1>11. ASSUME NEW p \in Posts, Use(p) PROVE NonceMatches'
  BY <1>11 DEF Use, NonceMatches, Good, Hollow
<1>12. ASSUME NEW p \in Posts, MarkDeleted(p) PROVE NonceMatches'
  BY <1>12 DEF MarkDeleted, NonceMatches, Good, Hollow
<1>13. ASSUME NEW p \in Posts, DeletePost(p) PROVE NonceMatches'
  BY <1>13 DEF DeletePost, NonceMatches, Good, Hollow
<1>14. ASSUME NEW p \in Posts, BulkDelete(p) PROVE NonceMatches'
  BY <1>14 DEF BulkDelete, NonceMatches, Good, Hollow
<1>15. ASSUME NEW p \in Posts, Report(p) PROVE NonceMatches'
  BY <1>15 DEF Report, NonceMatches, Good, Hollow
<1>16. CASE ListDeleted
  BY <1>16 DEF ListDeleted, Collect, NonceMatches, Good, Hollow
<1>17. CASE Take
  BY <1>17 DEF Take, Collect, NonceMatches, Good, Hollow
<1>18. CASE Fetch
  BY <1>18 DEF Fetch, Collect, NonceMatches, Good, Hollow
<1>19. CASE FetchFails
  BY <1>19 DEF FetchFails, CrondEnds, NonceMatches, Good, Hollow
<1>20. CASE DeleteObject
  BY <1>20 DEF DeleteObject, Collect, NonceMatches, Good, Hollow
<1>21. CASE DeleteHash
  BY <1>21 DEF DeleteHash, Collect, NonceMatches, Good, Hollow
<1>22. CASE DeleteFile
  BY <1>22 DEF DeleteFile, Collect, NonceMatches, Good, Hollow
<1>23. CASE ListDangling
  BY <1>23 DEF ListDangling, NonceMatches, Good, Hollow
<1>24. CASE Prune
  BY <1>24 DEF Prune, NonceMatches, Good, Hollow
<1>25. CASE CrondFails
  BY <1>25 DEF CrondFails, CrondEnds, NonceMatches, Good, Hollow
<1>26. CASE CrondStarts
  BY <1>26 DEF CrondStarts, NonceMatches, Good, Hollow
<1>27. CASE UNCHANGED vars
  BY <1>27 DEF vars, NonceMatches, Good, Hollow
<1> QED
  BY <1>1, <1>2, <1>3, <1>4, <1>5, <1>6, <1>7, <1>8, <1>9, <1>10, <1>11, <1>12,
     <1>13, <1>14, <1>15, <1>16, <1>17, <1>18, <1>19, <1>20, <1>21, <1>22, <1>23,
     <1>24, <1>25, <1>26, <1>27
     DEF Next, Upload, Handle, FileDeletion

\* Every step leaves nothing behind under a document whose object is deleted.
LEMMA HollowStep == TypeOK /\ CollectorShape /\ InFlightNotHollow /\ HollowIsEmpty /\ [Next]_vars => HollowIsEmpty'
<1> SUFFICES ASSUME TypeOK, CollectorShape, InFlightNotHollow, HollowIsEmpty, [Next]_vars PROVE HollowIsEmpty'
  OBVIOUS
<1> USE FileAssumption DEF TypeOK, Storage, Uploading, Collector, Marks, History,
       InFlight
<1>1. ASSUME NEW u \in Uploads, LookupShares(u) PROVE HollowIsEmpty'
  BY <1>1 DEF LookupShares, HollowIsEmpty, Hollow
<1>2. ASSUME NEW u \in Uploads, LookupRetries(u) PROVE HollowIsEmpty'
  BY <1>2 DEF LookupRetries, HollowIsEmpty, Hollow
<1>3. ASSUME NEW u \in Uploads, LookupMisses(u) PROVE HollowIsEmpty'
  BY <1>3 DEF LookupMisses, HollowIsEmpty, Hollow
<1>4. ASSUME NEW u \in Uploads, InsertHash(u) PROVE HollowIsEmpty'
  BY <1>4 DEF InsertHash, HollowIsEmpty, Hollow
<1>5. ASSUME NEW u \in Uploads, Put(u) PROVE HollowIsEmpty'
  BY <1>5 DEF Put, HollowIsEmpty, Hollow, InFlightNotHollow
<1>6. ASSUME NEW u \in Uploads, SetNonce(u) PROVE HollowIsEmpty'
  BY <1>6 DEF SetNonce, HollowIsEmpty, Hollow
<1>7. ASSUME NEW u \in Uploads, InsertFile(u) PROVE HollowIsEmpty'
  BY <1>7 DEF InsertFile, HollowIsEmpty, Hollow
<1>8. ASSUME NEW u \in Uploads, UploadFails(u) PROVE HollowIsEmpty'
  BY <1>8 DEF UploadFails, HollowIsEmpty, Hollow
<1>9. ASSUME NEW u \in Uploads, GrowOld(u) PROVE HollowIsEmpty'
  BY <1>9 DEF GrowOld, HollowIsEmpty, Hollow
<1>10. ASSUME NEW p \in Posts, Find(p) PROVE HollowIsEmpty'
  BY <1>10 DEF Find, HollowIsEmpty, Hollow
<1>11. ASSUME NEW p \in Posts, Use(p) PROVE HollowIsEmpty'
  BY <1>11 DEF Use, HollowIsEmpty, Hollow
<1>12. ASSUME NEW p \in Posts, MarkDeleted(p) PROVE HollowIsEmpty'
  BY <1>12 DEF MarkDeleted, HollowIsEmpty, Hollow
<1>13. ASSUME NEW p \in Posts, DeletePost(p) PROVE HollowIsEmpty'
  BY <1>13 DEF DeletePost, HollowIsEmpty, Hollow
<1>14. ASSUME NEW p \in Posts, BulkDelete(p) PROVE HollowIsEmpty'
  BY <1>14 DEF BulkDelete, HollowIsEmpty, Hollow
<1>15. ASSUME NEW p \in Posts, Report(p) PROVE HollowIsEmpty'
  BY <1>15 DEF Report, HollowIsEmpty, Hollow
<1>16. CASE ListDeleted
  BY <1>16 DEF ListDeleted, Collect, HollowIsEmpty, Hollow
<1>17. CASE Take
  BY <1>17 DEF Take, Collect, HollowIsEmpty, Hollow
<1>18. CASE Fetch
  BY <1>18 DEF Fetch, Collect, HollowIsEmpty, Hollow
<1>19. CASE FetchFails
  BY <1>19 DEF FetchFails, CrondEnds, HollowIsEmpty, Hollow
<1>20. CASE DeleteObject
  BY <1>20 DEF DeleteObject, Collect, HollowIsEmpty, Hollow, CollectorShape
<1>21. CASE DeleteHash
  BY <1>21 DEF DeleteHash, Collect, HollowIsEmpty, Hollow
<1>22. CASE DeleteFile
  BY <1>22 DEF DeleteFile, Collect, HollowIsEmpty, Hollow
<1>23. CASE ListDangling
  BY <1>23 DEF ListDangling, HollowIsEmpty, Hollow
<1>24. CASE Prune
  BY <1>24 DEF Prune, HollowIsEmpty, Hollow
<1>25. CASE CrondFails
  BY <1>25 DEF CrondFails, CrondEnds, HollowIsEmpty, Hollow
<1>26. CASE CrondStarts
  BY <1>26 DEF CrondStarts, HollowIsEmpty, Hollow
<1>27. CASE UNCHANGED vars
  BY <1>27 DEF vars, HollowIsEmpty, Hollow
<1> QED
  BY <1>1, <1>2, <1>3, <1>4, <1>5, <1>6, <1>7, <1>8, <1>9, <1>10, <1>11, <1>12,
     <1>13, <1>14, <1>15, <1>16, <1>17, <1>18, <1>19, <1>20, <1>21, <1>22, <1>23,
     <1>24, <1>25, <1>26, <1>27
     DEF Next, Upload, Handle, FileDeletion

\* Every step keeps uploads away from a document whose object is deleted.
LEMMA InFlightStep == TypeOK /\ CollectorShape /\ InFlightNotHollow /\ [Next]_vars => InFlightNotHollow'
<1> SUFFICES ASSUME TypeOK, CollectorShape, InFlightNotHollow, [Next]_vars PROVE InFlightNotHollow'
  OBVIOUS
<1> USE FileAssumption DEF TypeOK, Storage, Uploading, Collector, Marks, History,
       InFlight
<1>1. ASSUME NEW u \in Uploads, LookupShares(u) PROVE InFlightNotHollow'
  BY <1>1 DEF LookupShares, InFlightNotHollow, Hollow, CollectorShape, DocsFor
<1>2. ASSUME NEW u \in Uploads, LookupRetries(u) PROVE InFlightNotHollow'
  BY <1>2 DEF LookupRetries, InFlightNotHollow, Hollow, CollectorShape, DocsFor
<1>3. ASSUME NEW u \in Uploads, LookupMisses(u) PROVE InFlightNotHollow'
  BY <1>3 DEF LookupMisses, InFlightNotHollow, Hollow, CollectorShape, DocsFor
<1>4. ASSUME NEW u \in Uploads, InsertHash(u) PROVE InFlightNotHollow'
  BY <1>4 DEF InsertHash, InFlightNotHollow, Hollow
<1>5. ASSUME NEW u \in Uploads, Put(u) PROVE InFlightNotHollow'
  BY <1>5 DEF Put, InFlightNotHollow, Hollow
<1>6. ASSUME NEW u \in Uploads, SetNonce(u) PROVE InFlightNotHollow'
  BY <1>6 DEF SetNonce, InFlightNotHollow, Hollow
<1>7. ASSUME NEW u \in Uploads, InsertFile(u) PROVE InFlightNotHollow'
  BY <1>7 DEF InsertFile, InFlightNotHollow, Hollow
<1>8. ASSUME NEW u \in Uploads, UploadFails(u) PROVE InFlightNotHollow'
  BY <1>8 DEF UploadFails, InFlightNotHollow, Hollow
<1>9. ASSUME NEW u \in Uploads, GrowOld(u) PROVE InFlightNotHollow'
  BY <1>9 DEF GrowOld, InFlightNotHollow, Hollow
<1>10. ASSUME NEW p \in Posts, Find(p) PROVE InFlightNotHollow'
  BY <1>10 DEF Find, InFlightNotHollow, Hollow
<1>11. ASSUME NEW p \in Posts, Use(p) PROVE InFlightNotHollow'
  BY <1>11 DEF Use, InFlightNotHollow, Hollow
<1>12. ASSUME NEW p \in Posts, MarkDeleted(p) PROVE InFlightNotHollow'
  BY <1>12 DEF MarkDeleted, InFlightNotHollow, Hollow
<1>13. ASSUME NEW p \in Posts, DeletePost(p) PROVE InFlightNotHollow'
  BY <1>13 DEF DeletePost, InFlightNotHollow, Hollow
<1>14. ASSUME NEW p \in Posts, BulkDelete(p) PROVE InFlightNotHollow'
  BY <1>14 DEF BulkDelete, InFlightNotHollow, Hollow
<1>15. ASSUME NEW p \in Posts, Report(p) PROVE InFlightNotHollow'
  BY <1>15 DEF Report, InFlightNotHollow, Hollow
<1>16. CASE ListDeleted
  BY <1>16 DEF ListDeleted, Collect, InFlightNotHollow, Hollow
<1>17. CASE Take
  BY <1>17 DEF Take, Collect, InFlightNotHollow, Hollow
<1>18. CASE Fetch
  BY <1>18 DEF Fetch, Collect, InFlightNotHollow, Hollow
<1>19. CASE FetchFails
  BY <1>19 DEF FetchFails, CrondEnds, InFlightNotHollow, Hollow
<1>20. CASE DeleteObject
  BY <1>20 DEF DeleteObject, Collect, InFlightNotHollow, Hollow
<1>21. CASE DeleteHash
  BY <1>21 DEF DeleteHash, Collect, InFlightNotHollow, Hollow
<1>22. CASE DeleteFile
  BY <1>22 DEF DeleteFile, Collect, InFlightNotHollow, Hollow
<1>23. CASE ListDangling
  BY <1>23 DEF ListDangling, InFlightNotHollow, Hollow
<1>24. CASE Prune
  BY <1>24 DEF Prune, InFlightNotHollow, Hollow
<1>25. CASE CrondFails
  BY <1>25 DEF CrondFails, CrondEnds, InFlightNotHollow, Hollow
<1>26. CASE CrondStarts
  BY <1>26 DEF CrondStarts, InFlightNotHollow, Hollow
<1>27. CASE UNCHANGED vars
  BY <1>27 DEF vars, InFlightNotHollow, Hollow
<1> QED
  BY <1>1, <1>2, <1>3, <1>4, <1>5, <1>6, <1>7, <1>8, <1>9, <1>10, <1>11, <1>12,
     <1>13, <1>14, <1>15, <1>16, <1>17, <1>18, <1>19, <1>20, <1>21, <1>22, <1>23,
     <1>24, <1>25, <1>26, <1>27
     DEF Next, Upload, Handle, FileDeletion

\* Every step leaves at most one upload between its object and its nonce.
LEMMA WriterStep == TypeOK /\ InFlightNotHollow /\ OneWriter /\ [Next]_vars => OneWriter'
<1> SUFFICES ASSUME TypeOK, InFlightNotHollow, OneWriter, [Next]_vars PROVE OneWriter'
  OBVIOUS
<1> USE FileAssumption DEF TypeOK, Storage, Uploading, Collector, Marks, History,
       InFlight
<1>1. ASSUME NEW u \in Uploads, LookupShares(u) PROVE OneWriter'
  BY <1>1 DEF LookupShares, OneWriter
<1>2. ASSUME NEW u \in Uploads, LookupRetries(u) PROVE OneWriter'
  BY <1>2 DEF LookupRetries, OneWriter
<1>3. ASSUME NEW u \in Uploads, LookupMisses(u) PROVE OneWriter'
  BY <1>3 DEF LookupMisses, OneWriter
<1>4. ASSUME NEW u \in Uploads, InsertHash(u) PROVE OneWriter'
  BY <1>4 DEF InsertHash, OneWriter
<1>5. ASSUME NEW u \in Uploads, Put(u) PROVE OneWriter'
  BY <1>5 DEF Put, OneWriter
<1>6. ASSUME NEW u \in Uploads, SetNonce(u) PROVE OneWriter'
  BY <1>6 DEF SetNonce, OneWriter
<1>7. ASSUME NEW u \in Uploads, InsertFile(u) PROVE OneWriter'
  BY <1>7 DEF InsertFile, OneWriter
<1>8. ASSUME NEW u \in Uploads, UploadFails(u) PROVE OneWriter'
  BY <1>8 DEF UploadFails, OneWriter
<1>9. ASSUME NEW u \in Uploads, GrowOld(u) PROVE OneWriter'
  BY <1>9 DEF GrowOld, OneWriter
<1>10. ASSUME NEW p \in Posts, Find(p) PROVE OneWriter'
  BY <1>10 DEF Find, OneWriter
<1>11. ASSUME NEW p \in Posts, Use(p) PROVE OneWriter'
  BY <1>11 DEF Use, OneWriter
<1>12. ASSUME NEW p \in Posts, MarkDeleted(p) PROVE OneWriter'
  BY <1>12 DEF MarkDeleted, OneWriter
<1>13. ASSUME NEW p \in Posts, DeletePost(p) PROVE OneWriter'
  BY <1>13 DEF DeletePost, OneWriter
<1>14. ASSUME NEW p \in Posts, BulkDelete(p) PROVE OneWriter'
  BY <1>14 DEF BulkDelete, OneWriter
<1>15. ASSUME NEW p \in Posts, Report(p) PROVE OneWriter'
  BY <1>15 DEF Report, OneWriter
<1>16. CASE ListDeleted
  BY <1>16 DEF ListDeleted, Collect, OneWriter
<1>17. CASE Take
  BY <1>17 DEF Take, Collect, OneWriter
<1>18. CASE Fetch
  BY <1>18 DEF Fetch, Collect, OneWriter
<1>19. CASE FetchFails
  BY <1>19 DEF FetchFails, CrondEnds, OneWriter
<1>20. CASE DeleteObject
  BY <1>20 DEF DeleteObject, Collect, OneWriter
<1>21. CASE DeleteHash
  BY <1>21 DEF DeleteHash, Collect, OneWriter, InFlightNotHollow, Hollow
<1>22. CASE DeleteFile
  BY <1>22 DEF DeleteFile, Collect, OneWriter
<1>23. CASE ListDangling
  BY <1>23 DEF ListDangling, OneWriter
<1>24. CASE Prune
  BY <1>24 DEF Prune, OneWriter
<1>25. CASE CrondFails
  BY <1>25 DEF CrondFails, CrondEnds, OneWriter
<1>26. CASE CrondStarts
  BY <1>26 DEF CrondStarts, OneWriter
<1>27. CASE UNCHANGED vars
  BY <1>27 DEF vars, OneWriter
<1> QED
  BY <1>1, <1>2, <1>3, <1>4, <1>5, <1>6, <1>7, <1>8, <1>9, <1>10, <1>11, <1>12,
     <1>13, <1>14, <1>15, <1>16, <1>17, <1>18, <1>19, <1>20, <1>21, <1>22, <1>23,
     <1>24, <1>25, <1>26, <1>27
     DEF Next, Upload, Handle, FileDeletion

\* Every step keeps the contents good that a new file is about to name.
LEMMA InsertsStep == TypeOK /\ NonceMatches /\ InFlightNotHollow /\ OneWriter /\ InsertsGood /\ [Next]_vars => InsertsGood'
<1> SUFFICES ASSUME TypeOK, NonceMatches, InFlightNotHollow, OneWriter, InsertsGood, [Next]_vars PROVE InsertsGood'
  OBVIOUS
<1> USE FileAssumption DEF TypeOK, Storage, Uploading, Collector, Marks, History,
       InFlight
<1>1. ASSUME NEW u \in Uploads, LookupShares(u) PROVE InsertsGood'
  BY <1>1 DEF LookupShares, InsertsGood, Good, NonceMatches, Hollow, DocsFor
<1>2. ASSUME NEW u \in Uploads, LookupRetries(u) PROVE InsertsGood'
  BY <1>2 DEF LookupRetries, InsertsGood, Good
<1>3. ASSUME NEW u \in Uploads, LookupMisses(u) PROVE InsertsGood'
  BY <1>3 DEF LookupMisses, InsertsGood, Good
<1>4. ASSUME NEW u \in Uploads, InsertHash(u) PROVE InsertsGood'
  BY <1>4 DEF InsertHash, InsertsGood, Good
<1>5. ASSUME NEW u \in Uploads, Put(u) PROVE InsertsGood'
  BY <1>5 DEF Put, InsertsGood, Good
<1>6. ASSUME NEW u \in Uploads, SetNonce(u) PROVE InsertsGood'
  BY <1>6 DEF SetNonce, InsertsGood, Good, OneWriter
<1>7. ASSUME NEW u \in Uploads, InsertFile(u) PROVE InsertsGood'
  BY <1>7 DEF InsertFile, InsertsGood, Good
<1>8. ASSUME NEW u \in Uploads, UploadFails(u) PROVE InsertsGood'
  BY <1>8 DEF UploadFails, InsertsGood, Good
<1>9. ASSUME NEW u \in Uploads, GrowOld(u) PROVE InsertsGood'
  BY <1>9 DEF GrowOld, InsertsGood, Good
<1>10. ASSUME NEW p \in Posts, Find(p) PROVE InsertsGood'
  BY <1>10 DEF Find, InsertsGood, Good
<1>11. ASSUME NEW p \in Posts, Use(p) PROVE InsertsGood'
  BY <1>11 DEF Use, InsertsGood, Good
<1>12. ASSUME NEW p \in Posts, MarkDeleted(p) PROVE InsertsGood'
  BY <1>12 DEF MarkDeleted, InsertsGood, Good
<1>13. ASSUME NEW p \in Posts, DeletePost(p) PROVE InsertsGood'
  BY <1>13 DEF DeletePost, InsertsGood, Good
<1>14. ASSUME NEW p \in Posts, BulkDelete(p) PROVE InsertsGood'
  BY <1>14 DEF BulkDelete, InsertsGood, Good
<1>15. ASSUME NEW p \in Posts, Report(p) PROVE InsertsGood'
  BY <1>15 DEF Report, InsertsGood, Good
<1>16. CASE ListDeleted
  BY <1>16 DEF ListDeleted, Collect, InsertsGood, Good
<1>17. CASE Take
  BY <1>17 DEF Take, Collect, InsertsGood, Good
<1>18. CASE Fetch
  BY <1>18 DEF Fetch, Collect, InsertsGood, Good
<1>19. CASE FetchFails
  BY <1>19 DEF FetchFails, CrondEnds, InsertsGood, Good
<1>20. CASE DeleteObject
  BY <1>20 DEF DeleteObject, Collect, InsertsGood, Good
<1>21. CASE DeleteHash
  BY <1>21 DEF DeleteHash, Collect, InsertsGood, Good, InFlightNotHollow, Hollow
<1>22. CASE DeleteFile
  BY <1>22 DEF DeleteFile, Collect, InsertsGood, Good
<1>23. CASE ListDangling
  BY <1>23 DEF ListDangling, InsertsGood, Good
<1>24. CASE Prune
  BY <1>24 DEF Prune, InsertsGood, Good
<1>25. CASE CrondFails
  BY <1>25 DEF CrondFails, CrondEnds, InsertsGood, Good
<1>26. CASE CrondStarts
  BY <1>26 DEF CrondStarts, InsertsGood, Good
<1>27. CASE UNCHANGED vars
  BY <1>27 DEF vars, InsertsGood, Good
<1> QED
  BY <1>1, <1>2, <1>3, <1>4, <1>5, <1>6, <1>7, <1>8, <1>9, <1>10, <1>11, <1>12,
     <1>13, <1>14, <1>15, <1>16, <1>17, <1>18, <1>19, <1>20, <1>21, <1>22, <1>23,
     <1>24, <1>25, <1>26, <1>27
     DEF Next, Upload, Handle, FileDeletion

\* Every step keeps the count of file_deletion right.
LEMMA ReferenceStep == TypeOK /\ CollectorShape /\ UploadsShape /\ LastReference /\ [Next]_vars => LastReference'
<1> SUFFICES ASSUME TypeOK, CollectorShape, UploadsShape, LastReference, [Next]_vars PROVE LastReference'
  OBVIOUS
<1> USE FileAssumption DEF TypeOK, Storage, Uploading, Collector, Marks, History,
       InFlight
<1>1. ASSUME NEW u \in Uploads, LookupShares(u) PROVE LastReference'
  BY <1>1 DEF LookupShares, LastReference, CollectorShape, UploadsShape, InHand
<1>2. ASSUME NEW u \in Uploads, LookupRetries(u) PROVE LastReference'
  BY <1>2 DEF LookupRetries, LastReference, CollectorShape, UploadsShape, InHand
<1>3. ASSUME NEW u \in Uploads, LookupMisses(u) PROVE LastReference'
  BY <1>3 DEF LookupMisses, LastReference, CollectorShape, UploadsShape, InHand
<1>4. ASSUME NEW u \in Uploads, InsertHash(u) PROVE LastReference'
  BY <1>4 DEF InsertHash, LastReference, CollectorShape, UploadsShape, InHand
<1>5. ASSUME NEW u \in Uploads, Put(u) PROVE LastReference'
  BY <1>5 DEF Put, LastReference, CollectorShape, UploadsShape, InHand
<1>6. ASSUME NEW u \in Uploads, SetNonce(u) PROVE LastReference'
  BY <1>6 DEF SetNonce, LastReference, CollectorShape, UploadsShape, InHand
<1>7. ASSUME NEW u \in Uploads, InsertFile(u) PROVE LastReference'
  BY <1>7 DEF InsertFile, LastReference, CollectorShape, UploadsShape, InHand
<1>8. ASSUME NEW u \in Uploads, UploadFails(u) PROVE LastReference'
  BY <1>8 DEF UploadFails, LastReference, CollectorShape, UploadsShape, InHand
<1>9. ASSUME NEW u \in Uploads, GrowOld(u) PROVE LastReference'
  BY <1>9 DEF GrowOld, LastReference, CollectorShape, UploadsShape, InHand
<1>10. ASSUME NEW p \in Posts, Find(p) PROVE LastReference'
  BY <1>10 DEF Find, LastReference, CollectorShape, UploadsShape, InHand
<1>11. ASSUME NEW p \in Posts, Use(p) PROVE LastReference'
  BY <1>11 DEF Use, LastReference, CollectorShape, UploadsShape, InHand
<1>12. ASSUME NEW p \in Posts, MarkDeleted(p) PROVE LastReference'
  BY <1>12 DEF MarkDeleted, LastReference, CollectorShape, UploadsShape, InHand
<1>13. ASSUME NEW p \in Posts, DeletePost(p) PROVE LastReference'
  BY <1>13 DEF DeletePost, LastReference, CollectorShape, UploadsShape, InHand
<1>14. ASSUME NEW p \in Posts, BulkDelete(p) PROVE LastReference'
  BY <1>14 DEF BulkDelete, LastReference, CollectorShape, UploadsShape, InHand
<1>15. ASSUME NEW p \in Posts, Report(p) PROVE LastReference'
  BY <1>15 DEF Report, LastReference, CollectorShape, UploadsShape, InHand
<1>16. CASE ListDeleted
  BY <1>16 DEF ListDeleted, Collect, LastReference, CollectorShape, UploadsShape,
         InHand
<1>17. CASE Take
  <2>1. PICK f \in left :
          /\ gcFile' = f
          /\ gc' = "fetch" => Cardinality({v \in files : doc[v] = doc[f]}) <= 1
    BY <1>17 DEF Take, Collect
  <2>2. IsFiniteSet({v \in files : doc[v] = doc[f]})
    BY FS_Subset
  <2>3. f \in {v \in files : doc[v] = doc[f]}
    BY <2>1 DEF CollectorShape, InHand
  <2>4. ASSUME gc' \in {"fetch", "deleteObject"}, NEW u \in files', doc'[u] = doc'[gcFile']
        PROVE  u = gcFile'
    <3>1. gc' = "fetch" /\ files' = files /\ doc' = doc
      BY <1>17, <2>4 DEF Take, Collect
    <3> QED
      BY <2>1, <2>2, <2>3, <2>4, <3>1, AtMostOne
  <2> QED
    BY <2>4 DEF LastReference
<1>18. CASE Fetch
  BY <1>18 DEF Fetch, Collect, LastReference, CollectorShape, UploadsShape, InHand
<1>19. CASE FetchFails
  BY <1>19 DEF FetchFails, CrondEnds, LastReference, CollectorShape, UploadsShape,
         InHand
<1>20. CASE DeleteObject
  BY <1>20 DEF DeleteObject, Collect, LastReference, CollectorShape, UploadsShape,
         InHand
<1>21. CASE DeleteHash
  BY <1>21 DEF DeleteHash, Collect, LastReference, CollectorShape, UploadsShape,
         InHand
<1>22. CASE DeleteFile
  BY <1>22 DEF DeleteFile, Collect, LastReference, CollectorShape, UploadsShape,
         InHand
<1>23. CASE ListDangling
  BY <1>23 DEF ListDangling, LastReference, CollectorShape, UploadsShape, InHand
<1>24. CASE Prune
  BY <1>24 DEF Prune, LastReference, CollectorShape, UploadsShape, InHand
<1>25. CASE CrondFails
  BY <1>25 DEF CrondFails, CrondEnds, LastReference, CollectorShape, UploadsShape,
         InHand
<1>26. CASE CrondStarts
  BY <1>26 DEF CrondStarts, LastReference, CollectorShape, UploadsShape, InHand
<1>27. CASE UNCHANGED vars
  BY <1>27 DEF vars, LastReference, CollectorShape, UploadsShape, InHand
<1> QED
  BY <1>1, <1>2, <1>3, <1>4, <1>5, <1>6, <1>7, <1>8, <1>9, <1>10, <1>11, <1>12,
     <1>13, <1>14, <1>15, <1>16, <1>17, <1>18, <1>19, <1>20, <1>21, <1>22, <1>23,
     <1>24, <1>25, <1>26, <1>27
     DEF Next, Upload, Handle, FileDeletion

\* Every step keeps the contents of the files good.
LEMMA FilesStep == TypeOK /\ CollectorShape /\ UploadsShape /\ HollowIsEmpty /\ OneWriter /\ InsertsGood /\ LastReference /\ FilesGood /\ [Next]_vars => FilesGood'
<1> SUFFICES ASSUME TypeOK, CollectorShape, UploadsShape, HollowIsEmpty, OneWriter, InsertsGood, LastReference, FilesGood, [Next]_vars PROVE FilesGood'
  OBVIOUS
<1> USE FileAssumption DEF TypeOK, Storage, Uploading, Collector, Marks, History,
       InFlight
<1>1. ASSUME NEW u \in Uploads, LookupShares(u) PROVE FilesGood'
  BY <1>1 DEF LookupShares, FilesGood, Good, Emptied, UploadsShape
<1>2. ASSUME NEW u \in Uploads, LookupRetries(u) PROVE FilesGood'
  BY <1>2 DEF LookupRetries, FilesGood, Good, Emptied, UploadsShape
<1>3. ASSUME NEW u \in Uploads, LookupMisses(u) PROVE FilesGood'
  BY <1>3 DEF LookupMisses, FilesGood, Good, Emptied
<1>4. ASSUME NEW u \in Uploads, InsertHash(u) PROVE FilesGood'
  BY <1>4 DEF InsertHash, FilesGood, Good, Emptied
<1>5. ASSUME NEW u \in Uploads, Put(u) PROVE FilesGood'
  BY <1>5 DEF Put, FilesGood, Good, Emptied
<1>6. ASSUME NEW u \in Uploads, SetNonce(u) PROVE FilesGood'
  BY <1>6 DEF SetNonce, FilesGood, Good, Emptied, OneWriter
<1>7. ASSUME NEW u \in Uploads, InsertFile(u) PROVE FilesGood'
  BY <1>7 DEF InsertFile, FilesGood, Good, Emptied, InsertsGood
<1>8. ASSUME NEW u \in Uploads, UploadFails(u) PROVE FilesGood'
  BY <1>8 DEF UploadFails, FilesGood, Good, Emptied
<1>9. ASSUME NEW u \in Uploads, GrowOld(u) PROVE FilesGood'
  BY <1>9 DEF GrowOld, FilesGood, Good, Emptied
<1>10. ASSUME NEW p \in Posts, Find(p) PROVE FilesGood'
  BY <1>10 DEF Find, FilesGood, Good, Emptied
<1>11. ASSUME NEW p \in Posts, Use(p) PROVE FilesGood'
  BY <1>11 DEF Use, FilesGood, Good, Emptied
<1>12. ASSUME NEW p \in Posts, MarkDeleted(p) PROVE FilesGood'
  BY <1>12 DEF MarkDeleted, FilesGood, Good, Emptied
<1>13. ASSUME NEW p \in Posts, DeletePost(p) PROVE FilesGood'
  BY <1>13 DEF DeletePost, FilesGood, Good, Emptied
<1>14. ASSUME NEW p \in Posts, BulkDelete(p) PROVE FilesGood'
  BY <1>14 DEF BulkDelete, FilesGood, Good, Emptied
<1>15. ASSUME NEW p \in Posts, Report(p) PROVE FilesGood'
  BY <1>15 DEF Report, FilesGood, Good, Emptied
<1>16. CASE ListDeleted
  BY <1>16 DEF ListDeleted, Collect, FilesGood, Good, Emptied, CollectorShape
<1>17. CASE Take
  BY <1>17 DEF Take, Collect, FilesGood, Good, Emptied, CollectorShape
<1>18. CASE Fetch
  BY <1>18 DEF Fetch, Collect, FilesGood, Good, Emptied, CollectorShape
<1>19. CASE FetchFails
  BY <1>19 DEF FetchFails, CrondEnds, FilesGood, Good, Emptied, CollectorShape
<1>20. CASE DeleteObject
  BY <1>20 DEF DeleteObject, Collect, FilesGood, Good, Emptied, LastReference
<1>21. CASE DeleteHash
  BY <1>21 DEF DeleteHash, Collect, FilesGood, Good, Emptied, HollowIsEmpty, Hollow
<1>22. CASE DeleteFile
  BY <1>22 DEF DeleteFile, Collect, FilesGood, Good, Emptied, CollectorShape
<1>23. CASE ListDangling
  BY <1>23 DEF ListDangling, FilesGood, Good, Emptied
<1>24. CASE Prune
  BY <1>24 DEF Prune, FilesGood, Good, Emptied
<1>25. CASE CrondFails
  BY <1>25 DEF CrondFails, CrondEnds, FilesGood, Good, Emptied, CollectorShape
<1>26. CASE CrondStarts
  BY <1>26 DEF CrondStarts, FilesGood, Good, Emptied
<1>27. CASE UNCHANGED vars
  BY <1>27 DEF vars, FilesGood, Good, Emptied
<1> QED
  BY <1>1, <1>2, <1>3, <1>4, <1>5, <1>6, <1>7, <1>8, <1>9, <1>10, <1>11, <1>12,
     <1>13, <1>14, <1>15, <1>16, <1>17, <1>18, <1>19, <1>20, <1>21, <1>22, <1>23,
     <1>24, <1>25, <1>26, <1>27
     DEF Next, Upload, Handle, FileDeletion

\* Every step keeps a post the only one with its file.
LEMMA OwnFileStep == TypeOK /\ CollectorShape /\ OwnFile /\ [Next]_vars => OwnFile'
<1> SUFFICES ASSUME TypeOK, CollectorShape, OwnFile, [Next]_vars PROVE OwnFile'
  OBVIOUS
<1> USE FileAssumption DEF TypeOK, Storage, Uploading, Collector, Marks, History,
       InFlight
<1>1. ASSUME NEW u \in Uploads, LookupShares(u) PROVE OwnFile'
  BY <1>1 DEF LookupShares, OwnFile
<1>2. ASSUME NEW u \in Uploads, LookupRetries(u) PROVE OwnFile'
  BY <1>2 DEF LookupRetries, OwnFile
<1>3. ASSUME NEW u \in Uploads, LookupMisses(u) PROVE OwnFile'
  BY <1>3 DEF LookupMisses, OwnFile
<1>4. ASSUME NEW u \in Uploads, InsertHash(u) PROVE OwnFile'
  BY <1>4 DEF InsertHash, OwnFile
<1>5. ASSUME NEW u \in Uploads, Put(u) PROVE OwnFile'
  BY <1>5 DEF Put, OwnFile
<1>6. ASSUME NEW u \in Uploads, SetNonce(u) PROVE OwnFile'
  BY <1>6 DEF SetNonce, OwnFile
<1>7. ASSUME NEW u \in Uploads, InsertFile(u) PROVE OwnFile'
  BY <1>7 DEF InsertFile, OwnFile
<1>8. ASSUME NEW u \in Uploads, UploadFails(u) PROVE OwnFile'
  BY <1>8 DEF UploadFails, OwnFile
<1>9. ASSUME NEW u \in Uploads, GrowOld(u) PROVE OwnFile'
  BY <1>9 DEF GrowOld, OwnFile
<1>10. ASSUME NEW p \in Posts, Find(p) PROVE OwnFile'
  BY <1>10 DEF Find, OwnFile
<1>11. ASSUME NEW p \in Posts, Use(p) PROVE OwnFile'
  BY <1>11 DEF Use, OwnFile
<1>12. ASSUME NEW p \in Posts, MarkDeleted(p) PROVE OwnFile'
  BY <1>12 DEF MarkDeleted, OwnFile
<1>13. ASSUME NEW p \in Posts, DeletePost(p) PROVE OwnFile'
  BY <1>13 DEF DeletePost, OwnFile
<1>14. ASSUME NEW p \in Posts, BulkDelete(p) PROVE OwnFile'
  BY <1>14 DEF BulkDelete, OwnFile
<1>15. ASSUME NEW p \in Posts, Report(p) PROVE OwnFile'
  BY <1>15 DEF Report, OwnFile
<1>16. CASE ListDeleted
  BY <1>16 DEF ListDeleted, Collect, OwnFile
<1>17. CASE Take
  BY <1>17 DEF Take, Collect, OwnFile
<1>18. CASE Fetch
  BY <1>18 DEF Fetch, Collect, OwnFile
<1>19. CASE FetchFails
  BY <1>19 DEF FetchFails, CrondEnds, OwnFile
<1>20. CASE DeleteObject
  BY <1>20 DEF DeleteObject, Collect, OwnFile
<1>21. CASE DeleteHash
  BY <1>21 DEF DeleteHash, Collect, OwnFile
<1>22. CASE DeleteFile
  BY <1>22 DEF DeleteFile, Collect, OwnFile, CollectorShape, InHand
<1>23. CASE ListDangling
  BY <1>23 DEF ListDangling, OwnFile
<1>24. CASE Prune
  BY <1>24 DEF Prune, OwnFile
<1>25. CASE CrondFails
  BY <1>25 DEF CrondFails, CrondEnds, OwnFile
<1>26. CASE CrondStarts
  BY <1>26 DEF CrondStarts, OwnFile
<1>27. CASE UNCHANGED vars
  BY <1>27 DEF vars, OwnFile
<1> QED
  BY <1>1, <1>2, <1>3, <1>4, <1>5, <1>6, <1>7, <1>8, <1>9, <1>10, <1>11, <1>12,
     <1>13, <1>14, <1>15, <1>16, <1>17, <1>18, <1>19, <1>20, <1>21, <1>22, <1>23,
     <1>24, <1>25, <1>26, <1>27
     DEF Next, Upload, Handle, FileDeletion

\* The invariant is inductive, and holds of every state.
LEMMA InvStep == IInv /\ [Next]_vars => IInv'
BY TypeStep, CollectorStep, UploadsStep, NonceStep, HollowStep, InFlightStep, WriterStep,
   InsertsStep, ReferenceStep, FilesStep, OwnFileStep
   DEF IInv

LEMMA Invariance == Spec => []IInv
BY InitInv, InvStep, PTL DEF Spec

\* Type correctness, for any uploads, contents, posts and faults.
THEOREM TypeCorrect == Spec => []TypeOK
<1>1. IInv => TypeOK
  BY DEF IInv
<1> QED
  BY <1>1, Invariance, PTL

\* Every file that is not deleted can be read, but for the contents on which two
\* actors overlapped (autumn's upload_file against itself and file_deletion).
THEOREM ContentIsKept == Spec => []ContentKept
<1>1. IInv => ContentKept
  BY DEF IInv, CollectorShape, InHand, FilesGood, Emptied, ContentKept
<1> QED
  BY <1>1, Invariance, PTL

\* What a post shows is there and can be read, but for the same contents and for
\* files taken by two posts or pruned while they were being used.
THEOREM AttachmentsAreServed == Spec => []AttachmentServed
<1>1. IInv => AttachmentServed
  <2> SUFFICES ASSUME IInv, NEW p \in Posts, post[p] = "live", FileOf[p] \notin misused
               PROVE  /\ FileOf[p] \in files \ deleted
                      /\ doc[FileOf[p]] \in spoiled \/ Good(doc[FileOf[p]])
    BY DEF AttachmentServed
  <2>1. FileOf[p] \in files \ deleted
    BY DEF IInv, TypeOK, OwnFile
  <2>2. ContentKept
    BY DEF IInv, CollectorShape, InHand, FilesGood, Emptied, ContentKept
  <2> QED
    BY <2>1, <2>2 DEF ContentKept
<1> QED
  BY <1>1, Invariance, PTL

\* A reported file keeps its content, unless file_deletion had begun on it.
THEOREM EvidenceIsKept == Spec => []EvidenceKept
<1>1. IInv => EvidenceKept
  BY DEF IInv, TypeOK, CollectorShape, InHand, UploadsShape, FilesGood, Emptied,
         EvidenceKept
<1> QED
  BY <1>1, Invariance, PTL

=============================================================================
