------------------------------- MODULE MCAiChat -------------------------------
EXTENDS AiChat, TLC

\* Chats are alike: no action tells them apart.
Alike == Permutations(Chats)

\* The memory and the settings meet only in the chats that use both, so long conversations
\* are explored with few changes of the settings and short ones with many.
ShortOrSettled == sequence + settings <= MaxMessages
=============================================================================
