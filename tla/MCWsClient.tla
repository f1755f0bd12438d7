----------------------------- MODULE MCWsClient -----------------------------
(***************************************************************************)
(* Instances of WsClient for TLC: one block topic and one topic of an      *)
(* address storage, reconnect visiting the block storage first as the code *)
(* does.                                                                   *)
(***************************************************************************)
EXTENDS WsClient, TLC

CONSTANTS block, confirmed,          \* channels
          blockTopic, addrTopic      \* topics

MCChannels == {block, confirmed}
MCTopics == {blockTopic, addrTopic}
MCChannelOf == blockTopic :> block @@ addrTopic :> confirmed
MCAddrChannelOf == addrTopic :> confirmed
MCResubOrder == <<block, confirmed>>

(* Callers, messages and handler pointers are interchangeable.             *)
Symmetry ==
    Permutations(Callers) \cup Permutations(Messages) \cup Permutations(Handlers)

=============================================================================
