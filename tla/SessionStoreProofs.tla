------------------------- MODULE SessionStoreProofs -------------------------
(***************************************************************************)
(* What SessionStore promises whoever calls it, for any set of callers.    *)
(***************************************************************************)
EXTENDS SessionStore, TLAPS

\* One step of any callers keeps the store's variables in their types.
LEMMA StoreTypeStep ==
    ASSUME StoreTypeOK, [StoreNext]_storeVars
    PROVE  StoreTypeOK'
<1> USE DEF StoreTypeOK, Goes
<1>1. ASSUME NEW c \in Clients, CreateSession(c)
      PROVE  StoreTypeOK'
  BY <1>1 DEF CreateSession, Call
<1>2. ASSUME NEW c \in Clients, NEW s \in Status, UpdateSession(c, s)
      PROVE  StoreTypeOK'
  BY <1>2 DEF UpdateSession, Call
<1>3. ASSUME NEW c \in Clients, Serialize(c)
      PROVE  StoreTypeOK'
  BY <1>3 DEF Serialize, Call
<1>4. ASSUME NEW c \in Clients, Replace(c) \/ Throw(c)
      PROVE  StoreTypeOK'
  BY <1>4 DEF Replace, Throw, Call
<1>5. ASSUME NEW c \in Clients, DeleteSession(c) \/ Deleting(c)
      PROVE  StoreTypeOK'
  BY <1>5 DEF DeleteSession, Deleting, RemoveDirectory, RemoveMetadata, Confirm, Unlist, Call
<1>6. CASE MakeDirectory
  BY <1>6 DEF MakeDirectory
<1>7. CASE Restart
  BY <1>7 DEF Restart, Reload, Status, Call
<1>8. CASE UNCHANGED storeVars
  BY <1>8 DEF storeVars
<1>9. QED
  BY <1>1, <1>2, <1>3, <1>4, <1>5, <1>6, <1>7, <1>8 DEF StoreNext, Persisting

\* Every step of any callers keeps the store's variables in their types: no
\* call leaves a half-set entry, whatever fails or restarts in between.
THEOREM StoreTypeCorrect == StoreSpec => []StoreTypeOK
<1>1. StoreInit => StoreTypeOK
  BY DEF StoreInit, StoreTypeOK, Status, Call, Reload
<1>2. StoreTypeOK /\ [StoreNext]_storeVars => StoreTypeOK'
  BY StoreTypeStep
<1>3. QED
  BY <1>1, <1>2, PTL DEF StoreSpec

-----------------------------------------------------------------------------
(* The file catches up with the object.  What makes it inductive: the lock   *)
(* admits one writer, and a writer whose copy is out of date has somebody    *)
(* queued behind it, because whoever changed the status queued in that step. *)

OneWriter ==
    \A c, d \in Clients: call[c] = "writing" /\ call[d] = "writing" => c = d

StaleCopyIsFollowed ==
    \A c \in Clients:
        call[c] = "writing" => \/ copy[c] = status
                               \/ \E d \in Clients: call[d] = "queued"

CatchingUp == StoreTypeOK /\ OneWriter /\ StaleCopyIsFollowed /\ DiskCatchesUp

\* Loading a status that was normalized when it was loaded changes nothing more.
LEMMA ReloadTwice == \A s: Reload(Reload(s)) = Reload(s)
  BY DEF Reload

\* Each step of any callers, none of whose writes fails, keeps the file catching
\* up with the object.
LEMMA CatchingUpStep ==
    ASSUME Faults \cap {"persist", "temp"} = {}, CatchingUp, StoreTypeOK', [StoreNext]_storeVars
    PROVE  CatchingUp'
<1> USE DEF CatchingUp, StoreTypeOK, OneWriter, StaleCopyIsFollowed, DiskCatchesUp,
            NobodyPersists, Goes
<1>1. ASSUME NEW c \in Clients, CreateSession(c)
      PROVE  CatchingUp'
  BY <1>1 DEF CreateSession
<1>2. ASSUME NEW c \in Clients, NEW s \in Status, UpdateSession(c, s)
      PROVE  CatchingUp'
  BY <1>2 DEF UpdateSession
<1>3. ASSUME NEW c \in Clients, Serialize(c)
      PROVE  CatchingUp'
  <2>1. call'[c] = "writing" /\ copy'[c] = status'
    BY <1>3 DEF Serialize
  <2>2. \A d \in Clients: call'[d] = "writing" => d = c
    BY <1>3 DEF Serialize
  <2>3. QED
    BY <1>3, <2>1, <2>2
<1>4. ASSUME NEW c \in Clients, Replace(c)
      PROVE  CatchingUp'
  <2>1. \A d \in Clients: call'[d] # "writing"
    BY <1>4 DEF Replace
  <2>2. metadata' = copy[c] /\ status' = status
    BY <1>4 DEF Replace
  <2>3. ASSUME \A d \in Clients: call'[d] # "queued"
        PROVE  copy[c] = status
    BY <1>4, <2>3 DEF Replace
  <2>4. QED
    BY <2>1, <2>2, <2>3
<1>5. ASSUME NEW c \in Clients, DeleteSession(c) \/ Deleting(c)
      PROVE  CatchingUp'
  BY <1>5 DEF DeleteSession, Deleting, RemoveDirectory, RemoveMetadata, Confirm, Unlist
<1>6. CASE MakeDirectory
  BY <1>6 DEF MakeDirectory
<1>7. CASE Restart
  BY <1>7, ReloadTwice DEF Restart
<1>8. CASE UNCHANGED storeVars
  BY <1>8 DEF storeVars
<1>9. ASSUME NEW c \in Clients, Throw(c)
      PROVE  CatchingUp'
  BY <1>9 DEF Throw
<1>10. QED
  BY <1>1, <1>2, <1>3, <1>4, <1>5, <1>6, <1>7, <1>8, <1>9 DEF StoreNext, Persisting

\* Whatever callers do, in any number and order, and wherever the process is
\* restarted: once nobody is persisting, the file and the object agree.
THEOREM DiskAlwaysCatchesUp ==
    ASSUME Faults \cap {"persist", "temp"} = {}
    PROVE  StoreSpec => []DiskCatchesUp
<1>1. StoreInit => CatchingUp
  BY DEF StoreInit, CatchingUp, StoreTypeOK, OneWriter, StaleCopyIsFollowed, DiskCatchesUp,
         Status, Call, Reload
<1>2. CatchingUp /\ StoreTypeOK' /\ [StoreNext]_storeVars => CatchingUp'
  BY CatchingUpStep
<1>3. CatchingUp => DiskCatchesUp
  BY DEF CatchingUp
<1>4. QED
  BY <1>1, <1>2, <1>3, StoreTypeCorrect, PTL DEF StoreSpec

-----------------------------------------------------------------------------
(* Overlapping deletions.  What makes it inductive: the order.  Whoever is    *)
(* past the directory found it gone, and the metadata never goes before it,   *)
(* so a restart finds either the metadata or nothing at all.                  *)

DirectoryFirst ==
    /\ metadata = "none" => ~directory
    /\ \A c \in Clients:
          /\ call[c] \in {"removeMetadata", "confirm", "unlist"} => ~directory
          /\ call[c] \in {"confirm", "unlist"} => metadata = "none"

Deletable == StoreTypeOK /\ DirectoryFirst /\ NothingLeftBehind

\* Any number of overlapping deletions, each of whose steps may fail, with
\* restarts anywhere, unlist the session only when nothing of it is left.
THEOREM DeletionsLeaveNothing == DeletionSpec => []NothingLeftBehind
<1>1. DeletionInit => Deletable
  BY DEF DeletionInit, StoreInit, Deletable, StoreTypeOK, DirectoryFirst,
         NothingLeftBehind, Status, Call, Reload
<1>2. Deletable /\ [DeletionNext]_storeVars => Deletable'
  <2> SUFFICES ASSUME Deletable, [DeletionNext]_storeVars
               PROVE  Deletable'
    OBVIOUS
  <2> USE DEF Deletable, StoreTypeOK, DirectoryFirst, NothingLeftBehind, Goes
  <2>1. ASSUME NEW c \in Clients, DeleteSession(c)
        PROVE  Deletable'
    BY <2>1 DEF DeleteSession, Call
  <2>2. ASSUME NEW c \in Clients, RemoveDirectory(c)
        PROVE  Deletable'
    BY <2>2 DEF RemoveDirectory, Call
  <2>3. ASSUME NEW c \in Clients, RemoveMetadata(c)
        PROVE  Deletable'
    BY <2>3 DEF RemoveMetadata, Call
  <2>4. ASSUME NEW c \in Clients, Confirm(c)
        PROVE  Deletable'
    BY <2>4 DEF Confirm, Call
  <2>5. ASSUME NEW c \in Clients, Unlist(c)
        PROVE  Deletable'
    BY <2>5 DEF Unlist, Call
  <2>6. CASE Restart
    BY <2>6 DEF Restart, Reload, Status, Call
  <2>7. CASE UNCHANGED storeVars
    BY <2>7 DEF storeVars
  <2>8. QED
    BY <2>1, <2>2, <2>3, <2>4, <2>5, <2>6, <2>7 DEF DeletionNext, Deleting
<1>3. Deletable => NothingLeftBehind
  BY DEF Deletable
<1>4. QED
  BY <1>1, <1>2, <1>3, PTL DEF DeletionSpec
=============================================================================
