--------------------------------- MODULE Ai ----------------------------------
(***************************************************************************)
(* The command line of the AI layer, src/kernel/ai.c.  The input task      *)
(* feeds it one character at a time; the AI task picks up the line that    *)
(* was entered last and carries it out.  A line is handed from one task to *)
(* the other in last_command, guarded by the flag command_ready.           *)
(*                                                                         *)
(* The state is that after ai_init, which kernel_main calls before any     *)
(* task exists.  awareness_cycle only paces a console message and is left  *)
(* out.  Voice events come from an audio driver the kernel does not have.  *)
(***************************************************************************)
EXTENDS Naturals, Sequences

CONSTANTS
    AI_BUFFER_SIZE, \* bytes of command_buffer (128), one of them for '\0'
    Printable,      \* the characters 32..126
    ENTER,          \* '\n' and '\r'
    BACKSPACE,      \* '\b'
    Control         \* all other characters, a tab for example

VARIABLES
    command_buffer, \* the line being typed (command_length is its length)
    last_command,   \* the line entered last
    command_ready,  \* last_command waits for the AI task
    lost            \* history: lines replaced in last_command since the AI task took one

vars == <<command_buffer, last_command, command_ready, lost>>

Lines == UNION { [1..n -> Printable] : n \in 0..(AI_BUFFER_SIZE - 1) }

\* A line that is ready is a whole line: it fits its buffer and is not empty.
TypeOK == /\ command_buffer \in Lines
          /\ last_command \in Lines
          /\ command_ready \in BOOLEAN
          /\ command_ready => last_command # <<>>
          /\ lost \in Nat

\* ai_init
Init == /\ command_buffer = <<>>
        /\ last_command = <<>>
        /\ command_ready = FALSE
        /\ lost = 0

(***************************************************************************)
(* ai_feed_key                                                             *)
(***************************************************************************)
rub_out(character) ==
    /\ character = BACKSPACE
    /\ command_buffer' = IF command_buffer = <<>> THEN <<>>
                         ELSE SubSeq(command_buffer, 1, Len(command_buffer) - 1)
    /\ UNCHANGED <<last_command, command_ready, lost>>

enter(character) ==
    /\ character = ENTER
    /\ command_buffer' = <<>>
    /\ IF command_buffer # <<>>
          THEN /\ last_command' = command_buffer
               /\ command_ready' = TRUE
               /\ lost' = IF command_ready THEN lost + 1 ELSE lost
          ELSE UNCHANGED <<last_command, command_ready, lost>>

ignored(character) == character \in Control /\ UNCHANGED vars

type_limit_off(character) == \* mutant: no byte is kept for '\0'
    /\ character \in Printable
    /\ command_buffer' = IF Len(command_buffer) >= AI_BUFFER_SIZE
                            THEN command_buffer
                            ELSE Append(command_buffer, character)
    /\ UNCHANGED <<last_command, command_ready, lost>>

type(character) ==
    /\ character \in Printable
    /\ command_buffer' = IF Len(command_buffer) + 1 >= AI_BUFFER_SIZE
                            THEN command_buffer
                            ELSE Append(command_buffer, character)
    /\ UNCHANGED <<last_command, command_ready, lost>>

ai_feed_key(character) ==
    rub_out(character) \/ enter(character) \/ ignored(character) \/ type(character)

(***************************************************************************)
(* ai_task, up to the call of handle_command; the autonomous branch shows  *)
(* a status line.                                                          *)
(***************************************************************************)
ai_takes_command_again == command_ready /\ UNCHANGED vars \* mutant: flag not reset

ai_takes_command == /\ command_ready
                    /\ command_ready' = FALSE
                    /\ lost' = 0
                    /\ UNCHANGED <<command_buffer, last_command>>

ai_monitors == ~command_ready /\ UNCHANGED vars
==============================================================================
