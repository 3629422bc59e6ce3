------------------------------ MODULE Command ------------------------------
(* command: a line that a client sends is cut into a name and parameters, in
   place: they are pointers into the line, and the blanks become the zeros
   that end them.  A client has one command object, which every line resets.

   Characters are blank or not; a pointer is a position in the line, from 1.

   A definition whose name ends in _ and a word is its namesake with a slip a
   programmer could make; no other definition uses it.                       *)
EXTENDS Naturals, Sequences

CONSTANTS
  Line,      \* the lines that clients send, up to the first zero
  NULL       \* no name

Blank == " "
Zero == "0"

ASSUME CommandAssumption ==
  /\ NULL \notin Nat
  /\ \A l \in Line : l \in Seq({Blank, "c"})

VARIABLES
  line,             \* what was sent
  command_data,     \* the same memory, as init leaves it
  curr_index,
  cmd_segment_pos,
  name_,
  params_,
  is_correct_,
  init_phase             \* idle, or in the loop of init

command_vars == <<line, command_data, curr_index, cmd_segment_pos, name_, params_,
          is_correct_, init_phase>>

str_length == Len(line)

CommandTypeOK ==
  /\ line \in Seq({Blank, "c"})
  /\ command_data \in Seq({Blank, Zero, "c"}) /\ Len(command_data) = str_length
  /\ curr_index \in 1..str_length + 1
  /\ cmd_segment_pos \in 1..str_length + 1
  /\ name_ \in 1..str_length \cup {NULL}
  /\ params_ \in Seq(1..str_length)
  /\ is_correct_ \in BOOLEAN
  /\ init_phase \in {"idle", "init"}

--------------------------------------------------------------------------
\* reset: null(), and init as far as its loop, which an empty line does not
\* reach.
CommandReset(l) ==
  /\ init_phase = "idle"
  /\ line' = l /\ command_data' = l
  /\ curr_index' = 1 /\ cmd_segment_pos' = 1
  /\ name_' = NULL /\ params_' = <<>>
  /\ is_correct_' = FALSE
  /\ init_phase' = IF l = <<>> THEN "idle" ELSE "init"

Looping == init_phase = "init" /\ curr_index <= str_length

\* The word that ends here is the name if there is none yet, or a parameter.
AddWord ==
  IF name_ = NULL THEN name_' = cmd_segment_pos /\ UNCHANGED params_
  ELSE params_' = Append(params_, cmd_segment_pos) /\ UNCHANGED name_

\* A blank where a word could begin: the word can begin behind it.
SkipBlank ==
  /\ Looping
  /\ command_data[curr_index] = Blank
  /\ curr_index = cmd_segment_pos
  /\ command_data' = [command_data EXCEPT ![curr_index] = Zero]
  /\ cmd_segment_pos' = cmd_segment_pos + 1
  /\ curr_index' = curr_index + 1
  /\ UNCHANGED <<line, name_, params_, is_correct_, init_phase>>

\* A blank behind a word.
EndWord ==
  /\ Looping
  /\ command_data[curr_index] = Blank
  /\ curr_index # cmd_segment_pos
  /\ command_data' = [command_data EXCEPT ![curr_index] = Zero]
  /\ AddWord
  /\ cmd_segment_pos' = curr_index + 1
  /\ curr_index' = curr_index + 1
  /\ UNCHANGED <<line, is_correct_, init_phase>>

\* A character inside a word.
SkipChar ==
  /\ Looping
  /\ command_data[curr_index] # Blank
  /\ curr_index # str_length
  /\ curr_index' = curr_index + 1
  /\ UNCHANGED <<line, command_data, cmd_segment_pos, name_, params_, is_correct_,
                 init_phase>>

\* The line ends with a word, if that is longer than one character.
LastWord_NotOne ==
  /\ Looping
  /\ command_data[curr_index] # Blank
  /\ curr_index = str_length
  /\ IF curr_index # cmd_segment_pos THEN AddWord ELSE UNCHANGED <<name_, params_>>
  /\ curr_index' = curr_index + 1
  /\ UNCHANGED <<line, command_data, cmd_segment_pos, is_correct_, init_phase>>

\* The line ends with a word.
LastWord ==
  /\ Looping
  /\ command_data[curr_index] # Blank
  /\ curr_index = str_length
  /\ AddWord
  /\ curr_index' = curr_index + 1
  /\ UNCHANGED <<line, command_data, cmd_segment_pos, is_correct_, init_phase>>

EndInit ==
  /\ init_phase = "init" /\ curr_index > str_length
  /\ is_correct_' = (name_ # NULL)
  /\ init_phase' = "idle"
  /\ UNCHANGED <<line, command_data, curr_index, cmd_segment_pos, name_, params_>>

--------------------------------------------------------------------------
\* command::command
CommandInit ==
  /\ line = <<>> /\ command_data = <<>>
  /\ curr_index = 1 /\ cmd_segment_pos = 1
  /\ name_ = NULL /\ params_ = <<>>
  /\ is_correct_ = FALSE
  /\ init_phase = "idle"

CommandNext ==
  \/ \E l \in Line : CommandReset(l)
  \/ SkipBlank \/ EndWord \/ SkipChar \/ LastWord \/ EndInit

CommandSpec == CommandInit /\ [][CommandNext]_command_vars

--------------------------------------------------------------------------
(* Safety *)

\* A word begins at i: what the line says, whatever the code does.
WordBegins(i) == line[i] # Blank /\ (i = 1 \/ line[i - 1] = Blank)

\* The name and the parameters, in order.
Words == IF name_ = NULL THEN params_ ELSE <<name_>> \o params_

\* When a line has been taken apart, its words are all there, and in order,
\* however many blanks are between, before or behind them; the command is
\* correct if there is one, and has nothing of the line before.
WordsFound ==
  init_phase = "idle" =>
    /\ {Words[k] : k \in 1..Len(Words)} = {i \in 1..str_length : WordBegins(i)}
    /\ \A j, k \in 1..Len(Words) : j < k => Words[j] < Words[k]
    /\ is_correct_ <=> (name_ # NULL)
    /\ name_ = NULL => params_ = <<>>

\* A word that was found is ended by a zero where the line has a blank, and no
\* character of the line is lost.
WordsTerminated ==
  init_phase = "idle" =>
    \A i \in 1..str_length :
      command_data[i] = IF line[i] = Blank THEN Zero ELSE line[i]

=============================================================================
