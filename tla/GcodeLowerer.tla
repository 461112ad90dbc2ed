---------------------------- MODULE GcodeLowerer ----------------------------
(***************************************************************************)
(* The G-code lowerer of crates/gcode-lowerer/src/lib.rs.  A line is a     *)
(* sequence of words [letter, value]; a value is in thousandths, None for  *)
(* a word that is no number, and the letters ";" and "(" open a comment.   *)
(* Values stay far from the ends of i64.                                   *)
(***************************************************************************)
EXTENDS Integers, Sequences, SequencesExt

CONSTANTS
    default_feed_rate_um_s, hotend_name, bed_name,  \* LowererConfig
    None

\* Everything from the first ";" on is a comment or, in a line without one,
\* from the first "(" on.
CleanLine(line) ==
    LET opened(letter) == { i \in DOMAIN line : line[i].letter = letter }
        cut(letter) == SubSeq(line, 1, Min(opened(letter)) - 1)
    IN  IF opened(";") # {} THEN cut(";")
        ELSE IF opened("(") # {} THEN cut("(")
        ELSE line

\* Words, and the ones that are numbers.
Word == [letter : STRING, value : Int \cup {None}]
Token == [letter : STRING, value : Int]

\* The items of a sequence that belong to a set, in their order.
Kept(items, wanted) ==
    LET kept[i \in 0 .. Len(items)] ==
            IF i = 0 THEN <<>>
            ELSE IF items[i] \in wanted THEN Append(kept[i - 1], items[i]) ELSE kept[i - 1]
    IN  kept[Len(items)]

\* Words that are no numbers vanish.
ParseTokens(line) == Kept(CleanLine(line), Token)

\* The parameters with one of these letters.
Lettered(params, letters) == Kept(params, [letter : letters, value : Int])

\* The number of the command: truncated, and 0 when negative.
CommandNumber(token) == IF token.value < 0 THEN 0 ELSE token.value \div 1000

Homed == {"X", "Y", "Z"}
Moved == {"X", "Y", "Z", "E"}

\* A lowerer is [current_feed_rate_um_s, absolute_positioning, positions],
\* and a step of it [lowerer, commands].
NewLowerer ==
    [current_feed_rate_um_s |-> default_feed_rate_um_s, absolute_positioning |-> TRUE,
     positions |-> [axis \in Moved |-> 0]]

HomeCommand(lowerer, axis) ==
    [kind |-> "Home", axis |-> axis, rate_um_s |-> lowerer.current_feed_rate_um_s]

\* G28 homes the axes it names, all of them when it names none.
LowerHome(lowerer, params) ==
    LET named == Lettered(params, Homed)
        homed == IF named = <<>> THEN <<"X", "Y", "Z">>
                 ELSE [i \in DOMAIN named |-> named[i].letter]
    IN  [lowerer |-> [lowerer EXCEPT !.positions =
                         [axis \in Moved |-> IF axis \in ToSet(homed) THEN 0 ELSE @[axis]]],
         commands |-> [i \in DOMAIN homed |-> HomeCommand(lowerer, homed[i])]]

\* Feeds are in mm/min, and at least 1 um/s.
FeedRate(value) == IF value < 60 THEN 1 ELSE value \div 60

Fed(lowerer, params) ==
    LET feeds == Lettered(params, {"F"})
    IN  IF feeds = <<>> THEN lowerer
        ELSE [lowerer EXCEPT !.current_feed_rate_um_s = FeedRate(Last(feeds).value)]

\* A mistake to detect: only absolute moves are remembered.
MovedToAbsolute(lowerer, axis, target_um) ==
    IF lowerer.absolute_positioning THEN target_um ELSE lowerer.positions[axis]

MovedTo(lowerer, axis, target_um) ==
    IF lowerer.absolute_positioning THEN target_um ELSE lowerer.positions[axis] + target_um

\* One axis of a G0 or G1.
LowerAxis(step, param) ==
    LET to == MovedTo(step.lowerer, param.letter, param.value)
        delta_um == IF step.lowerer.absolute_positioning
                    THEN param.value - step.lowerer.positions[param.letter] ELSE param.value
    IN  [lowerer |-> [step.lowerer EXCEPT !.positions[param.letter] = to],
         commands |-> Append(step.commands,
             [kind |-> "Move", axis |-> param.letter, distance_um |-> delta_um,
              rate_um_s |-> step.lowerer.current_feed_rate_um_s])]

LowerMove(lowerer, params) ==
    LET moves == Lettered(params, Moved)
        step[i \in 0 .. Len(moves)] ==
            IF i = 0 THEN [lowerer |-> Fed(lowerer, params), commands |-> <<>>]
            ELSE LowerAxis(step[i - 1], moves[i])
    IN  step[Len(moves)]

\* The first S is the target; without one nothing is commanded.
LowerTarget(lowerer, heater, params) ==
    LET targets == Lettered(params, {"S"})
    IN  [lowerer |-> lowerer,
         commands |-> IF targets = <<>> THEN <<>>
                      ELSE << [kind |-> "SetHeaterTarget", heater |-> heater,
                               target_milli_c |-> Head(targets).value] >>]

\* One line; a command that is not known is no command.
Lower(lowerer, line) ==
    LET tokens == ParseTokens(line)
        params == Tail(tokens)
        command == <<Head(tokens).letter, CommandNumber(Head(tokens))>>
        nothing == [lowerer |-> lowerer, commands |-> <<>>]
    IN  IF tokens = <<>> THEN nothing
        ELSE CASE command \in {<<"G", 90>>, <<"G", 91>>} ->
                    [nothing EXCEPT !.lowerer.absolute_positioning = command[2] = 90]
               [] command = <<"G", 28>> -> LowerHome(lowerer, params)
               [] command \in {<<"G", 0>>, <<"G", 1>>} -> LowerMove(lowerer, params)
               [] command \in {<<"M", 104>>, <<"M", 109>>} -> LowerTarget(lowerer, hotend_name, params)
               [] command \in {<<"M", 140>>, <<"M", 190>>} -> LowerTarget(lowerer, bed_name, params)
               [] command = <<"M", 105>> -> [nothing EXCEPT !.commands = << [kind |-> "Heartbeat"] >>]
               [] OTHER -> nothing
=============================================================================
