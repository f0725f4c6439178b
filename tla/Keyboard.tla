------------------------------ MODULE Keyboard ------------------------------
(***************************************************************************)
(* The keyboard (CASExampleHelper.cpp: EnableRawInput, PollKey,             *)
(* RestoreInput, the POSIX branch).  Standard input is a terminal, or a pipe *)
(* that stays silent, or is at its end; what was typed and not read yet is a *)
(* sequence of bytes.                                                      *)
(***************************************************************************)
EXTENDS Sequences, Naturals

VARIABLES
  stdin,            \* the file behind standard input: [kind, nonBlocking, raw]
  stdinConfigured,  \* g_stdinConfigured
  rawActive,        \* g_rawActive
  typed

keyboardVars == <<stdin, stdinConfigured, rawActive, typed>>

KeyboardInit ==
  /\ stdinConfigured = FALSE
  /\ rawActive = FALSE
  /\ typed = <<>>

ReadSize == 3

\* EnableRawInput gives up before O_NONBLOCK when there is no terminal.
Configured_TerminalFirst(file) ==
  IF file.kind = "terminal" THEN [file EXCEPT !.nonBlocking = TRUE, !.raw = TRUE] ELSE file

\* O_NONBLOCK whatever it is, raw mode for a terminal only.
Configured(file) ==
  [file EXCEPT !.nonBlocking = TRUE, !.raw = file.kind = "terminal"]

EnableRawInput ==
  IF stdinConfigured
    THEN UNCHANGED <<stdin, stdinConfigured, rawActive>>
    ELSE /\ stdinConfigured' = TRUE
         /\ stdin' = Configured(stdin)
         /\ rawActive' = (stdin.kind = "terminal")

\* Does read() wait for ever?  Only on a file that is neither non-blocking nor over.
Blocks(file) == typed = <<>> /\ file.kind # "ended" /\ ~file.nonBlocking

Letters ==
  [h |-> "Help", q |-> "Quit", s |-> "DemoAdvance", w |-> "WriteGroupDemo",
   d |-> "DiscoverRemote", r |-> "RouterAnnounce", m |-> "Metrics",
   k |-> "SimulatedPeerToggle", o |-> "ContactToggle", f |-> "ForceOpen", p |-> "BadgePulse"]

\* The key that the bytes of one read stand for: the first, or an arrow.
KeyOf(bytes) ==
  IF Len(bytes) = 3 /\ bytes[1] = "ESC" /\ bytes[2] = "["
    THEN CASE bytes[3] = "A" -> "ArrowUp"
           [] bytes[3] = "B" -> "ArrowDown"
           [] OTHER -> "None"
  ELSE IF bytes # <<>> /\ bytes[1] \in DOMAIN Letters THEN Letters[bytes[1]]
  ELSE "None"

Taken == SubSeq(typed, 1, IF Len(typed) < ReadSize THEN Len(typed) ELSE ReadSize)

\* One call, which returns when its read() does.
PollKey(key) ==
  /\ EnableRawInput
  /\ ~Blocks(stdin')
  /\ key = KeyOf(Taken)
  /\ typed' = SubSeq(typed, Len(Taken) + 1, Len(typed))

RestoreInput_Never == UNCHANGED <<stdin, rawActive>>

\* Only a terminal that was made raw is set back.
RestoreInput ==
  /\ stdin' = IF rawActive THEN [stdin EXCEPT !.raw = FALSE] ELSE stdin
  /\ rawActive' = FALSE
=============================================================================
