----------------------------- MODULE ConfigText -----------------------------
(***************************************************************************)
(* What MprpcConfig makes of a configuration file, and the address that    *)
(* RpcProvider::Run makes of its options.  A file is a sequence of units:  *)
(* blanks, ends of lines, "#", "=" and ":", digits, and words that are     *)
(* names of options or host names; only the blanks matter to Trim.         *)
(***************************************************************************)
EXTENDS Integers, Sequences, SequencesExt, FiniteSetsExt

CONSTANTS
  BufSize,   \* sizeof(buf) in LoadConfigFile
  PortSize   \* the values of a uint16_t

Blank == " "
EndOfLine == "\n"
Digits == <<"0", "1", "2", "3", "4", "5", "6", "7", "8", "9">>

Positions(text, unit) == {i \in DOMAIN text : text[i] = unit}

\* A text of blanks only has no first other unit and stays as it is.
Trim(text) ==
  LET others == {i \in DOMAIN text : text[i] # Blank}
  IN IF others = {} THEN text ELSE SubSeq(text, Min(others), Max(others))

\* What fgets(buf, 512, pf) takes of the rest of a file, call by call: a line,
\* or as much of one as the buffer holds.
RECURSIVE Pieces(_)
Pieces(file) ==
  IF file = <<>> THEN <<>>
  ELSE LET size == Min(Positions(file, EndOfLine) \cup {BufSize - 1, Len(file)})
       IN <<SubSeq(file, 1, size)>> \o Pieces(SubSeq(file, size + 1, Len(file)))

\* The setting in a piece, if there is one.  Its value ends with the line, or
\* with the file: find gives -1 for an end of line that is not there, and the
\* length made of it takes all the rest.
Setting(piece) ==
  LET line == Trim(piece)
      equals == Positions(line, "=")
  IN IF line = <<>> \/ line[1] = "#" \/ equals = {} THEN {}
     ELSE LET idx == Min(equals)
              endidx == Min(Positions(line, EndOfLine) \cup {Len(line) + 1})
          IN {[key   |-> Trim(SubSeq(line, 1, idx - 1)),
               value |-> Trim(SubSeq(line, idx + 1, endidx - 1))]}

\* Slip used by a mutant run: a later setting replaces an earlier one.
LastSettingWins(file) ==
  LET Assign(map, piece) ==
        Setting(piece) \cup {t \in map : \A s \in Setting(piece) : t.key # s.key}
  IN FoldLeft(Assign, {}, Pieces(file))

\* The map after the whole file: insert leaves a key that is there alone.
LoadConfigFile(file) ==
  LET Insert(map, piece) ==
        {s \in Setting(piece) : \A t \in map : t.key # s.key} \cup map
  IN FoldLeft(Insert, {}, Pieces(file))

\* The value of an option, or the empty text.
Load(map, option) ==
  LET found == {s \in map : s.key = option}
  IN IF found = {} THEN <<>> ELSE (CHOOSE s \in found : TRUE).value

-----------------------------------------------------------------------------
(* RpcProvider::Run.                                                       *)

IsDigit(unit) == \E i \in DOMAIN Digits : Digits[i] = unit
DigitValue(unit) == (CHOOSE i \in DOMAIN Digits : Digits[i] = unit) - 1

\* atoi of a text without a sign: the digits after the blanks in front, up to
\* the first unit that is none.
Atoi(text) ==
  LET start == Min({i \in DOMAIN text : text[i] # Blank} \cup {Len(text) + 1})
      end == Min({i \in start .. Len(text) : ~IsDigit(text[i])} \cup {Len(text) + 1})
      Shift(n, unit) == 10 * n + DigitValue(unit)
  IN FoldLeft(Shift, 0, SubSeq(text, start, end - 1))

\* "%d" of a number that is not negative.
RECURSIVE Decimal(_)
Decimal(n) ==
  IF n < 10 THEN <<Digits[n + 1]>> ELSE Append(Decimal(n \div 10), Digits[(n % 10) + 1])

\* ip:port as the provider registers it; the port is a uint16_t.
ServerAddress(map) ==
  Load(map, <<"rpcserverip">>) \o <<":">>
    \o Decimal(Atoi(Load(map, <<"rpcserverport">>)) % PortSize)
=============================================================================
