------------------------ MODULE MCConversationStore ------------------------
(* Small instances of ConversationStore.                                     *)
EXTENDS ConversationStore, TLC

\* Processes, conversations and threads are interchangeable.
Interchangeable ==
    Permutations(Sessions) \cup Permutations(Conversations) \cup Permutations(Threads)
=============================================================================
