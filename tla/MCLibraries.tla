----------------------------- MODULE MCLibraries -----------------------------
(* Model checking of the library code beside the clients: the multicast       *)
(* class, eventpp, linenoise and rapidjson.  Each behaviour is that of one    *)
(* component, chosen in the initial state; the others stay as they began.     *)
EXTENDS Integers, Sequences, TLC

CONSTANTS MaxWaiting, MaxTime, MaxNodes, MaxEvents, BufLen, Capacity, MaxEntry, MaxLine, Columns,
          MaxCalls, MaxPieces

VARIABLES component,
          m_fd, m_mode, m_open_type, kernel, errno, told, now, closeFailed, modeSet,
          node, head, tail, currentCounter, trigger, handle, itemList, loops, order, gone, calls, odd,
          queueList, freeList, queueEmptyCounter, queueNotifyCounter, mutex, waiting, run,
          items, enqueued, fate, lapse,
          buf, pos, open, ring, index, lastAction, lastYankSize, origin,
          mode, hist, max, idx, prev, recent, edited, cursor, sought, oldText, search, broken,
          kept, astray, accepted,
          pressed, sent, ready, utf8, place, meta, keys,
          lc, phase, row, pauseRow, stopList, shown, page, room,
          tty, orig_termios, rawmode, atexit_registered, doing, found, stuck,
          term, indent, extra, rowOffset, line, column, dp, prompt, base,
          flags, stopAt, text, state, stack, handler, error, root, parses,
          out, levels, hasRoot, doc, texts,
          string, pieces, a, b

(* Datagrams of no bytes and of two, and room to read one                  *)
M == INSTANCE Multicast WITH Lengths <- {0, 2}, Rooms <- {1}, Midnight <- 2
(* One thread adds and removes callbacks while another invokes the list     *)
C == INSTANCE CallbackList WITH Threads <- {1, 2}, Loopers <- {1},
       KindsOf <- <<{"plain", "counted", "conditional", "scoped"}, {"plain"}>>,
       Funcs <- {"operator()", "removeListener", "hasListener"},
       MaxCounter <- 3, Trigger <- 1, run <- loops
(* Three callbacks, so that one goes between two others, and no overflow    *)
B == INSTANCE CallbackList WITH Threads <- {1, 2}, Loopers <- {1}, KindsOf <- <<{"plain"}, {"plain"}, {"plain"}>>,
       Funcs <- {"operator()"}, MaxNodes <- 3, MaxCounter <- 7, Trigger <- 1, run <- loops
Q == INSTANCE EventQueue WITH Producers <- {1}, Consumers <- {2, 3}, Waiters <- {3},
       Calls <- (2 :> {"process", "processIf", "clearEvents"} @@
                 3 :> {"processOne", "processIf", "takeEvent"})
E == INSTANCE LineEditor WITH Letters <- {1}, Marks <- {}, Blank <- 0,
       Lines <- {<<>>, <<1, 0, 1>>}, Extensions <- {<<>>, <<1, 1>>}
H == INSTANCE LineHistory WITH Chars <- {1}, DefaultMax <- 3, MaxLens <- {2}, MaxText <- 1,
       AppLines <- {<<1>>}, Files <- {<< <<2, 1>>, <<>>, <<1>> >>},
       buf <- edited, pos <- cursor, text <- sought
(* A letter, a digit that escape sequences use, and the ends of UTF-8's     *)
(* lengths; bytes that begin no character                                   *)
K == INSTANCE KeyDecoder WITH TypedChars <- {97, 53, 126, 128, 2047, 65536}, Strays <- {128, 193, 245}
(* Prompts of one character, of a row, and of two lines                     *)
S == INSTANCE ScreenLine WITH NL <- 3, SearchPrompt <- 2, MaxText <- 2, Kinds <- {"narrow", "wide", "combining"}, MaxLine <- 4,
       Prompts_ <- {<<1>>, <<1, 1, 1, 1>>, <<1, 3, 1>>},
       Recalled <- {<<>>, <<1, 1, 1>>, <<1, 1, 1, 1, 1, 1>>}, pos <- column
(* Completions in one and two columns, on screens of which one is a row     *)
L == INSTANCE Completions WITH Lengths <- {1, 2}, MaxItems <- 5, Cutoff <- 4, ScreenColumns <- 7,
       ScreenRows <- {1, 2, 3}
O == INSTANCE TerminalMode WITH Modes <- {"shell", "other"}
R == INSTANCE JsonReader WITH MaxTexts <- <<6, 3>>, StopsAt <- {0, 3},
       FlagSets <- {{}, {"comments", "trailingCommas"}, {"stopWhenDone"}}
W == INSTANCE JsonWriter WITH MaxTexts <- 2
(* A quote, a letter, a control character, escapes good and bad, the halves *)
(* of a surrogate pair, and the bytes of characters of two to four bytes    *)
T == INSTANCE JsonStrings WITH text <- string,
       Pieces <- {<<34>>, <<65>>, <<1>>, <<92, 34>>, <<92, 98>>, <<92, 120>>, <<92, 117, 48, 48, 49>>,
                  <<92, 117, 68, 56, 51, 68>>, <<92, 117, 100, 101, 48, 48>>, <<92, 117, 48, 48, 101, 57>>,
                  <<92, 117, 50, 48, 65, 67>>, <<92, 47>>, <<195>>, <<169>>, <<226, 130>>, <<237>>,
                  <<240, 159>>, <<144>>}
(* Both sides of each limit of 8 and 16 bits and of 13 bits that are exact,  *)
(* halves between two doubles, and numbers beyond 16 bits                   *)
N == INSTANCE JsonNumbers WITH Narrow <- 8, Wide <- 16, Significand <- 13, Group <- 1,
       Numbers <- {0, 1, 9, 12, 100, 127, 128, 129, 255, 256, 8191, 8192, 8193, 8195, 9999, 10000,
                   32766, 32767, 32768, 32769, 65528, 65535, 65536, 327680, 655359}

multicast == <<m_fd, m_mode, m_open_type, kernel, errno, told, now, closeFailed, modeSet>>
callbacks == <<node, head, tail, currentCounter, trigger, handle, itemList, loops, order, gone, calls, odd>>
queue == <<queueList, freeList, queueEmptyCounter, queueNotifyCounter, mutex, waiting, run,
           items, enqueued, fate, lapse>>
lineEditor == <<buf, pos, open, ring, index, lastAction, lastYankSize, origin>>
lineHistory == <<mode, hist, max, idx, prev, recent, edited, cursor, sought, oldText, search, broken,
                 kept, astray, accepted>>
keyDecoder == <<pressed, sent, ready, utf8, place, meta, keys>>
screenLine == <<term, indent, extra, rowOffset, line, column, dp, prompt, base>>
completions == <<lc, phase, row, pauseRow, stopList, shown, page, room>>
terminal == <<tty, orig_termios, rawmode, atexit_registered, doing, found, stuck>>
reader == <<flags, stopAt, text, state, stack, handler, error, root, parses>>
writer == <<out, levels, hasRoot, doc, texts>>
strings == <<string, pieces>>
numbers == <<a, b>>

Is(c) == component = c
Components == {"multicast", "callback_list", "callback_between", "event_queue", "line_editor", "line_history",
               "key_decoder", "screen_line", "completions", "terminal", "reader", "writer", "strings", "numbers"}
Init == /\ component \in Components
        /\ M!Init /\ C!Init /\ Q!Init /\ E!Init /\ H!Init /\ K!Init /\ S!Init
        /\ L!Init /\ O!Init
        /\ R!Init /\ W!Init /\ T!Init /\ N!Init
        /\ Is("callback_list") \/ currentCounter = 0
        /\ Is("screen_line") \/ prompt = <<1>>
        /\ Is("completions") \/ lc = <<1, 1>>
        /\ Is("terminal") \/ tty.kind = "shell"
\* Every component but one stays as it is; C and B are of the same variables.
Stays(c, vars) == IF Is(c) THEN TRUE ELSE UNCHANGED vars
Next == /\ UNCHANGED component
        /\ Stays("multicast", multicast)
        /\ IF Is("callback_between") THEN TRUE ELSE Stays("callback_list", callbacks)
        /\ Stays("event_queue", queue)
        /\ Stays("line_editor", lineEditor)
        /\ Stays("line_history", lineHistory)
        /\ Stays("key_decoder", keyDecoder)
        /\ Stays("screen_line", screenLine)
        /\ Stays("completions", completions)
        /\ Stays("terminal", terminal)
        /\ Stays("reader", reader)
        /\ Stays("writer", writer)
        /\ Stays("strings", strings)
        /\ Stays("numbers", numbers)
        /\ \/ Is("multicast") /\ M!Next
           \/ Is("callback_list") /\ C!Next
           \/ Is("callback_between") /\ B!Next
           \/ Is("event_queue") /\ Q!Next
           \/ Is("line_editor") /\ E!Next
           \/ Is("line_history") /\ H!Next
           \/ Is("key_decoder") /\ K!Next
           \/ Is("screen_line") /\ S!Next
           \/ Is("completions") /\ L!Next
           \/ Is("terminal") /\ O!Next
           \/ Is("reader") /\ R!Next
           \/ Is("writer") /\ W!Next
           \/ Is("strings") /\ T!Next
           \/ Is("numbers") /\ N!Next
Spec == Init /\ [][Next]_<<component, multicast, callbacks, queue, lineEditor, lineHistory, keyDecoder,
                           screenLine, completions, terminal, reader, writer, strings, numbers>>

-----------------------------------------------------------------------------
(* Multicast: what a read returns is what waited, an empty datagram apart   *)
(* from a closed or failing socket, with the time of its arrival; and the   *)
(* class holds a descriptor exactly while it has one.                       *)
DatagramsTold == Is("multicast") => M!ReadsTell /\ M!DescriptorHeld

(* eventpp: whatever is added and removed while the list is invoked, it     *)
(* stays whole, an invocation calls each callback that was there once and   *)
(* none added since, and a counted one no more often than told; an event    *)
(* enqueued is dispatched, taken or cleared once and wakes who waits.       *)
CallbacksKept == /\ Is("callback_list") => C!ListKept /\ C!LoopsCallOnce /\ C!CountedOut
                 /\ Is("callback_between") => B!ListKept /\ B!LoopsCallOnce
                 /\ Is("event_queue") => Q!EventsKept /\ Q!NoLostWakeup

(* linenoise: a run of kills is one entry of the ring, with an entry before *)
(* it only if the run began with a kill of nothing or went on after a       *)
(* search, and a yank and its yank-pops put an entry where the cursor was;  *)
(* the history is what it was when a line is done, and a recalled or found  *)
(* line is the one the index names; a key is read as itself but for a stray *)
(* byte; the screen shows the line where the count of rows says; each       *)
(* completion is listed once and, of more than a row, none scrolls by; and  *)
(* the terminal gets back its mode.  The modules name the exceptions.       *)
LinesKept == /\ Is("line_editor") => E!RunUndone /\ E!YankStands /\ E!LineFits
             /\ Is("line_history") => H!EntriesStay /\ H!RecallTells /\ H!PrevTells /\ H!SearchShows
             /\ Is("key_decoder") => K!KeysDecode
             /\ Is("screen_line") => S!ScreenTells
             /\ Is("completions") => L!EachListed /\ L!NoneMissed
             /\ Is("terminal") => O!ModeRestored /\ O!EditsRaw

(* rapidjson: the recursive and the iterative parser agree on every text;   *)
(* what a writer was told reads back to the same document unless an object  *)
(* was ended after a name; strings and integers survive being written and   *)
(* read, and a double is equal to the integers that round to it.            *)
TextsKept == /\ Is("reader") => R!ParsersAgree
             /\ Is("writer") => W!ReadsBack
             /\ Is("strings") => T!StringsKept
             /\ Is("numbers") => N!NumbersTell
=============================================================================
