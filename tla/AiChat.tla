-------------------------------- MODULE AiChat --------------------------------
(***************************************************************************)
(* One AI conversation: its chats, their memory and the settings of the    *)
(* model they call.  A summary of the older messages is kept in Redis, as  *)
(* two keys (the text, and the sequence number it reaches to), and as one  *)
(* row in MySQL.  A chat takes the summary and the messages after it as    *)
(* its context, stores the question, calls the model, stores the answer    *)
(* and has the memory compressed in the background.  Model settings are    *)
(* cached by each process and invalidated when an administrator changes    *)
(* them; one process is modelled.                                          *)
(*                                                                         *)
(* A message is its sequence number, a text the number up to which it      *)
(* tells the conversation.  Every message is as long as any other; Window  *)
(* and SummarySize are counted in messages.  Titles, counts and pages are  *)
(* left out, and the threshold does not change.                            *)
(*                                                                         *)
(* Bounds: MaxMessages (CreateMessage), MaxSettings (ChangeSettings),      *)
(* MaxFailures (Fails: failing commands, cached settings and keys whose    *)
(* time is up).                                                            *)
(***************************************************************************)
EXTENDS Integers, FiniteSets, FiniteSetsExt

CONSTANTS
  Chats,          \* requests under way, each used again and again
  Compressor,     \* the one compression the single-flight lets run
  None, Failed,
  Window,         \* threshold - COMPRESSION_TRIGGER_OFFSET
  SummarySize,    \* what a summary takes of the window
  MaxMessages, MaxSettings, MaxFailures

ASSUME ChatBounds ==
  /\ {Window, SummarySize, MaxMessages, MaxSettings, MaxFailures} \subseteq Nat
  /\ Compressor \notin Chats

\* Neither mark is what a database holds: settings are numbers, a save is a text and an index.
ASSUME ChatMarks ==
  /\ None \notin Nat /\ Failed \notin Nat /\ None # Failed
  /\ None \notin [text : Nat, index : Nat]

Saver == Chats \cup {Compressor}   \* who writes a summary to Redis

VARIABLES
  exists, messages, sequence,   \* MySQL: the conversation and its messages
  record,       \* MySQL: the summary's row
  text, index,  \* Redis: the summary's two keys, 0 if missing
  settings, cache,   \* settings in MySQL, and in the process
  at,
  summary,      \* the text and index a chat has loaded
  missed,       \* the messages a chat's context does not tell
  found,        \* the conversation was there when a chat looked it up
  setting,      \* the settings a chat has read or calls the model with
  save,         \* what a saver is writing to Redis
  half,         \* savers that have written the text and not the index
  due,          \* a compression has been asked for
  upserts,      \* background writes of the row
  deleting,     \* the step of a deletion
  unannounced,  \* settings changed, cache not yet invalidated
  failures,
  touched,      \* history: savers that wrote the text since a chat has read it
  torn,         \* history: a whole save fell between a chat's two reads
  crossed,      \* history: a save met another one, or brought an older summary back
  announced,    \* history: the settings all chats shall know by now
  expected,     \* history: what was announced when a chat looked its settings up
  late          \* history: a chat was reading settings when they were invalidated

store   == <<exists, messages, sequence, record, text, index>>
chat    == <<summary, missed, found>>
tasks   == <<save, half, due, upserts, deleting>>
memory  == <<touched, torn, crossed>>
config  == <<settings, cache, setting, unannounced, announced, expected, late>>
chatVars == <<store, chat, tasks, memory, config, at, failures>>

NoSummary == [text |-> 0, index |-> 0]

ChatInit ==
  /\ exists = TRUE /\ messages = {} /\ sequence = 0 /\ record = NoSummary
  /\ text = 0 /\ index = 0
  /\ settings = 0 /\ cache = None
  /\ at = [c \in Chats |-> "idle"]
  /\ summary = [c \in Chats |-> NoSummary]
  /\ missed = [c \in Chats |-> {}] /\ found = [c \in Chats |-> FALSE]
  /\ setting = [c \in Chats |-> None]
  /\ save = [p \in Saver |-> None] /\ half = {} /\ due = FALSE /\ upserts = {}
  /\ deleting = "no" /\ unannounced = FALSE /\ failures = 0
  /\ touched = [c \in Chats |-> {}] /\ torn = [c \in Chats |-> FALSE] /\ crossed = FALSE
  /\ announced = 0 /\ expected = [c \in Chats |-> 0] /\ late = FALSE

Move(c, label) == at' = [at EXCEPT ![c] = label]
Fails == failures < MaxFailures /\ failures' = failures + 1

-----------------------------------------------------------------------------
(* The context of a chat: prepareAiChat, GetContext. *)

\* The conversation is looked up; that it is not there is noticed too late (see Store).
Chat(c) ==
  /\ at[c] = "idle" /\ save[c] = None
  /\ found' = [found EXCEPT ![c] = exists]
  /\ Move(c, "text")
  /\ UNCHANGED <<store, summary, missed, tasks, memory, config, failures>>

\* The two keys are read one after the other; without either the row is asked.
GetText(c) ==
  /\ at[c] = "text"
  /\ \/ /\ text > 0
        /\ summary' = [summary EXCEPT ![c].text = text]
        /\ Move(c, "index") /\ UNCHANGED failures
     \/ text = 0 /\ Move(c, "row") /\ UNCHANGED <<summary, failures>>
     \/ text > 0 /\ Fails /\ Move(c, "row") /\ UNCHANGED summary
  /\ UNCHANGED <<store, missed, found, tasks, memory, config>>

GetIndex(c) ==
  /\ at[c] = "index"
  /\ \/ /\ index > 0
        /\ summary' = [summary EXCEPT ![c].index = index]
        /\ Move(c, "messages") /\ UNCHANGED failures
     \/ index = 0 /\ Move(c, "row") /\ UNCHANGED <<summary, failures>>
     \/ index > 0 /\ Fails /\ Move(c, "row") /\ UNCHANGED summary
  /\ touched' = [touched EXCEPT ![c] = {}]
  /\ UNCHANGED <<store, missed, found, tasks, torn, crossed, config>>

\* The row is used, and copied to Redis in the background.
Restore(c) ==
  /\ at[c] = "row"
  /\ \/ /\ record # NoSummary
        /\ summary' = [summary EXCEPT ![c] = record]
        /\ save' = [save EXCEPT ![c] = record] /\ UNCHANGED failures
     \/ /\ record = NoSummary
        /\ summary' = [summary EXCEPT ![c] = NoSummary] /\ UNCHANGED <<save, failures>>
     \/ /\ record # NoSummary /\ Fails
        /\ summary' = [summary EXCEPT ![c] = NoSummary] /\ UNCHANGED save
  /\ torn' = [torn EXCEPT ![c] = FALSE]
  /\ Move(c, "messages")
  /\ UNCHANGED <<store, missed, found, half, due, upserts, deleting, touched, crossed, config>>

\* One message in five, at least one, is left out of a summary.
RecentCount(ms) == IF Cardinality(ms) < 5 THEN 1 ELSE Cardinality(ms) \div 5

Newest(ms, n) == {m \in ms : Cardinality({x \in ms : x > m}) < n}

\* buildContextWithWindow: the newest messages that fit beside the summary.
InWindow(sum, ms) ==
  LET budget == IF sum.text = 0 THEN Window ELSE Max({0, Window - SummarySize})
  IN  Newest(ms, budget)

\* The summary is so old that a compression would put more than these messages into it.
Lags(recent) == Cardinality(recent) > RecentCount(messages)

\* The newest messages after the summary's index complete the context.  The window may
\* cut some while the summary is behind; "missed" are the others that are not told.
ListMessages(c) ==
  /\ at[c] = "messages"
  /\ LET recent == {m \in messages : m > summary[c].index}
         told   == InWindow(summary[c], recent) \cup {m \in messages : m <= summary[c].text}
     IN missed' = [missed EXCEPT ![c] =
                     (messages \ told) \ (IF Lags(recent) THEN recent ELSE {})]
  /\ summary' = [summary EXCEPT ![c] = NoSummary]
  /\ Move(c, "store")
  /\ UNCHANGED <<store, found, tasks, memory, config, failures>>

\* NextSessionSequence: counted up and read in one; deletions do not set it back.
NextSequence == sequence + 1

CreateMessage ==
  /\ sequence < MaxMessages
  /\ sequence' = NextSequence /\ messages' = messages \cup {NextSequence}

\* The user's message is stored; a conversation that was not found panics only then.
Store(c) ==
  /\ at[c] = "store"
  /\ CreateMessage
  /\ Move(c, IF found[c] THEN "lookup" ELSE "idle")
  /\ found' = [found EXCEPT ![c] = FALSE]
  /\ missed' = [missed EXCEPT ![c] = {}] /\ torn' = [torn EXCEPT ![c] = FALSE]
  /\ UNCHANGED <<exists, record, text, index, summary, tasks, touched, crossed, config, failures>>

-----------------------------------------------------------------------------
(* The model's settings: GetEnabledAiProperty and the administrator's changes. *)

\* A chat without settings ends; the question stays alone.
Use(c, value) ==
  IF value = Failed
  THEN /\ Move(c, "idle") /\ setting' = [setting EXCEPT ![c] = None]
       /\ expected' = [expected EXCEPT ![c] = 0]
  ELSE /\ Move(c, "model") /\ setting' = [setting EXCEPT ![c] = value]
       /\ expected' = [expected EXCEPT ![c] = IF at[c] = "lookup" THEN announced ELSE @]

\* The cached settings, or the cached failure to read them.
Lookup(c) ==
  /\ at[c] = "lookup"
  /\ \/ cache # None /\ Use(c, cache)
     \/ /\ cache = None
        /\ expected' = [expected EXCEPT ![c] = announced]
        /\ Move(c, "settings") /\ UNCHANGED setting
  /\ UNCHANGED <<store, chat, tasks, memory, settings, cache, unannounced, announced, late,
                 failures>>

FindSettings(c) ==
  /\ at[c] = "settings"
  /\ \/ setting' = [setting EXCEPT ![c] = settings] /\ UNCHANGED failures
     \/ Fails /\ setting' = [setting EXCEPT ![c] = Failed]
  /\ Move(c, "cache")
  /\ UNCHANGED <<store, chat, tasks, memory, settings, cache, unannounced, announced, expected,
                 late>>

\* What was read is cached, for a minute or for ten seconds, whatever was invalidated since.
CacheSettings(c) ==
  /\ at[c] = "cache"
  /\ cache' = setting[c]
  /\ Use(c, setting[c])
  /\ UNCHANGED <<store, chat, tasks, memory, settings, unannounced, announced, late, failures>>

CacheExpires ==
  /\ cache # None /\ Fails
  /\ cache' = None
  /\ UNCHANGED <<store, chat, tasks, memory, settings, setting, unannounced, announced, expected,
                 late, at>>

\* The administrator's change reaches the database first, then the cache.
ChangeSettings ==
  /\ settings < MaxSettings /\ ~ unannounced
  /\ settings' = settings + 1 /\ unannounced' = TRUE
  /\ UNCHANGED <<store, chat, tasks, memory, cache, setting, announced, expected, late, at,
                 failures>>

\* Variant: the change does not clear the cache.
Cleared_Kept == cache

\* What the cache holds after a change.
Cleared == None

InvalidateCache ==
  /\ unannounced
  /\ cache' = Cleared
  /\ unannounced' = FALSE /\ announced' = settings
  /\ late' = (late \/ \E c \in Chats : at[c] = "cache")
  /\ UNCHANGED <<store, chat, tasks, memory, settings, setting, expected, at, failures>>

-----------------------------------------------------------------------------
(* The answer: finishAiChat. *)

\* The model answers, or the call or the write fails and the question stays alone.
Finish(c) ==
  /\ at[c] = "model"
  /\ \/ CreateMessage /\ due' = TRUE /\ UNCHANGED failures
     \/ Fails /\ UNCHANGED <<messages, sequence, due>>
  /\ Move(c, "idle")
  /\ setting' = [setting EXCEPT ![c] = None] /\ expected' = [expected EXCEPT ![c] = 0]
  /\ UNCHANGED <<exists, record, text, index, chat, save, half, upserts, deleting, memory,
                 settings, cache, unannounced, announced, late>>

-----------------------------------------------------------------------------
(* The memory: doCompressAiContext and its background writes. *)

\* A request made while a compression runs shares in it.
ShareCompression ==
  /\ due /\ save[Compressor] # None
  /\ due' = FALSE
  /\ UNCHANGED <<store, chat, save, half, upserts, deleting, memory, config, at, failures>>

\* The newest of the messages that go into the summary.
LastCompressed(ms) ==
  CHOOSE m \in ms : Cardinality({x \in ms : x > m}) = RecentCount(ms)

\* Variant: the summary is marked with the newest message there is.
CompressIndex_Newest(ms) == Max(ms)

CompressIndex(ms) == LastCompressed(ms)

\* Two messages at least, and as many as the window holds.
LongEnough(ms) == Cardinality(ms) >= Max({2, Window}) /\ Cardinality(ms) > RecentCount(ms)

\* The messages are read and summarised by the model, or cut locally if it fails; what is
\* not long enough is left alone, and so are messages that cannot be read.
Compress ==
  /\ due /\ save[Compressor] = None
  /\ due' = FALSE
  /\ \/ ~ LongEnough(messages) /\ UNCHANGED <<save, failures>>
     \/ LongEnough(messages) /\ Fails /\ UNCHANGED save
     \/ /\ LongEnough(messages) /\ UNCHANGED failures
        /\ save' = [save EXCEPT ![Compressor] =
                      [text |-> LastCompressed(messages), index |-> CompressIndex(messages)]]
  /\ UNCHANGED <<store, chat, half, upserts, deleting, memory, config, at>>

\* saveCompressedContextToRedis: the text first.
SaveText(p) ==
  /\ save[p] # None /\ p \notin half
  /\ \/ /\ text' = save[p].text /\ half' = half \cup {p}
        /\ touched' = [c \in Chats |-> IF at[c] = "index" THEN touched[c] \cup {p} ELSE {}]
        /\ crossed' = (crossed \/ half # {} \/ save[p].text < index)
        /\ UNCHANGED <<save, failures>>
     \/ Fails /\ save' = [save EXCEPT ![p] = None] /\ UNCHANGED <<text, half, touched, crossed>>
  /\ UNCHANGED <<exists, messages, sequence, record, index, chat, due, upserts, deleting,
                 torn, config, at>>

\* Then the index; a compression goes on to have the row written, in the background.
SaveIndex(p) ==
  /\ p \in half
  /\ \/ /\ index' = save[p].index
        /\ upserts' = IF p = Compressor THEN upserts \cup {save[p]} ELSE upserts
        /\ torn' = [c \in Chats |-> torn[c] \/ (at[c] = "index" /\ p \in touched[c])]
        /\ UNCHANGED failures
     \/ Fails /\ UNCHANGED <<index, upserts, torn>>
  /\ save' = [save EXCEPT ![p] = None] /\ half' = half \ {p}
  /\ UNCHANGED <<exists, messages, sequence, record, text, chat, due, deleting, touched, crossed,
                 config, at>>

\* Background writes reach the row in any order, or fail.
UpsertRow(s) ==
  /\ s \in upserts
  /\ \/ record' = s /\ UNCHANGED failures
     \/ Fails /\ UNCHANGED record
  /\ upserts' = upserts \ {s}
  /\ UNCHANGED <<exists, messages, sequence, text, index, chat, save, half, due, deleting,
                 memory, config, at>>

-----------------------------------------------------------------------------
(* Deletion, and what Redis drops. *)

\* The conversation and its messages go in one transaction.
DeleteConversation ==
  /\ exists
  /\ exists' = FALSE /\ messages' = {} /\ deleting' = "keys"
  /\ UNCHANGED <<sequence, record, text, index, chat, save, half, due, upserts, memory, config,
                 at, failures>>

\* Then the summary's keys, and the row in the background, whether or not the keys could be
\* deleted.  The two commands count as one step: a chat between them finds no text and asks
\* the row, as after them.
ClearKeys ==
  /\ deleting = "keys"
  /\ \/ text' = 0 /\ index' = 0 /\ UNCHANGED failures
     \/ Fails /\ text' \in {0, text} /\ index' \in {0, index}
  /\ deleting' = "row"
  /\ UNCHANGED <<exists, messages, sequence, record, chat, save, half, due, upserts, memory, config,
                 at>>

ClearRow ==
  /\ deleting = "row"
  /\ \/ record' = NoSummary /\ UNCHANGED failures
     \/ Fails /\ UNCHANGED record
  /\ deleting' = "done"
  /\ UNCHANGED <<exists, messages, sequence, text, index, chat, save, half, due, upserts, memory,
                 config, at>>

\* A key's time is up, or Redis drops it.
KeyExpires ==
  /\ Fails
  /\ \/ text # 0 /\ text' = 0 /\ UNCHANGED index
     \/ index # 0 /\ index' = 0 /\ UNCHANGED text
  /\ UNCHANGED <<exists, messages, sequence, record, chat, tasks, memory, config, at>>

ChatNext ==
  \/ \E c \in Chats :
       \/ Chat(c) \/ GetText(c) \/ GetIndex(c) \/ Restore(c) \/ ListMessages(c) \/ Store(c)
       \/ Lookup(c) \/ FindSettings(c) \/ CacheSettings(c) \/ Finish(c)
  \/ CacheExpires \/ ChangeSettings \/ InvalidateCache
  \/ ShareCompression \/ Compress
  \/ \E p \in Saver : SaveText(p) \/ SaveIndex(p)
  \/ \E s \in upserts : UpsertRow(s)
  \/ DeleteConversation \/ ClearKeys \/ ClearRow \/ KeyExpires

ChatSpec == ChatInit /\ [][ChatNext]_chatVars

-----------------------------------------------------------------------------

\* A chat's context leaves no message out: what the summary does not tell comes after its
\* index, and fits into the window unless the summary is behind.  Excepted are a whole save
\* between the chat's two reads, and saves that have overlapped or brought an older summary
\* back, which pair an old text with a new index.  (getCompressedContextFromRedis,
\* saveCompressedContextToRedis, doCompressAiContext, buildContextWithWindow)
NothingForgotten ==
  \A c \in Chats : at[c] = "store" => missed[c] = {} \/ torn[c] \/ crossed

\* A chat that starts after a change of the settings has been announced calls the model with
\* settings that are no older; excepted is a chat that was about to cache what it had read
\* when the cache was cleared.  (GetEnabledAiProperty, InvalidateAiPropertyCache)
SettingsTakeEffect ==
  \A c \in Chats : at[c] = "model" => setting[c] >= expected[c] \/ late
=============================================================================
