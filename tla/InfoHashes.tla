----------------------------- MODULE InfoHashes -----------------------------
(***************************************************************************)
(* The IDs of torrents.  A torrent has a hash of version 1 or 2, a hybrid  *)
(* one has both, and what is known of it may be one of them only.          *)
(***************************************************************************)
EXTENDS FiniteSets

CONSTANTS
  Content,      \* what a torrent can be of
  Hybrid        \* those that have a hash of both versions

ASSUME InfoHashAssumption == Hybrid \subseteq Content

ID == (Content \X {"v1"}) \cup (Hybrid \X {"v2"})

\* An InfoHash is the set of the hashes that are known of one content.
AllHashes(c) == {id \in ID : id[1] = c}
InfoHash == {hashes \in UNION {SUBSET AllHashes(c) : c \in Content} : hashes # {}}
ContentOf(hashes) == (CHOOSE id \in hashes : TRUE)[1]
IsHybrid(hashes) == Cardinality(hashes) = 2
V1(hashes) == <<ContentOf(hashes), "v1">>
V2(hashes) == <<ContentOf(hashes), "v2">>
ToTorrentID(hashes) == IF V2(hashes) \in hashes THEN V2(hashes) ELSE V1(hashes)

=============================================================================
