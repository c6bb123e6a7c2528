----------------------------- MODULE Algorithms -----------------------------
(***************************************************************************)
(* The pure functions of the kernel, each checked against a reference: the *)
(* checksums of Crc32.c and Fletcher.c, the conversions of Convert.c and   *)
(* of the log line (Logger.c), the split of a shell line and the table of  *)
(* commands (Shell.c) and the prescaler of the OS timer (Core.c).  A state *)
(* holds one input.                                                        *)
(*                                                                         *)
(* TLC's integers are below 2^31: the CRC is a pair of 16-bit halves, and  *)
(* the other inputs are chosen below 2^31.                                 *)
(***************************************************************************)
EXTENDS Integers, Sequences, SequencesExt, FiniteSetsExt, Bitwise

CONSTANTS
  CrcData, FletcherData, Numbers, Buffers, Versions, Ticks, Chars, MaxLine,
              \* the inputs to check
  TimerHz,    \* PRTOS_CONFIG_F_OS_TIMER_HZ
  TokenCount, TokenLength,  \* SHELL_MAX_TOKEN_COUNT, SHELL_MAX_TOKEN_LENGTH
  LineLength, \* SHELL_MAX_LINE_LENGTH
  Commands,   \* commands to register: name, min_tokens, max_tokens, callback_execute
  CommandCount  \* SHELL_MAX_COMMAND_COUNT

VARIABLE input  \* the function called and its arguments

U8 == 0 .. 255
------------------------------------------------------------------------------
(* CRC-32, most significant bit first.                                     *)
Crc32LutHi == <<
    0, 1217, 2434, 3395, 4868, 6085, 6790, 7751, 9736, 8905, 12170, 11083,
    13580, 12749, 15502, 14415, 19473, 18640, 17811, 16722, 24341, 23508,
    22167, 21078, 27161, 28376, 25499, 26458, 31005, 32220, 28831, 29790,
    38947, 40162, 37281, 38240, 35623, 36838, 33445, 34404, 48683, 47850,
    47017, 45928, 44335, 43502, 42157, 41068, 54322, 53491, 56752, 55665,
    50998, 50167, 52916, 51829, 62010, 63227, 64440, 65401, 57662, 58879,
    59580, 60541, 13446, 12359, 15620, 14789, 10114, 9027, 11776, 10945, 4750,
    5711, 6924, 8141, 394, 1355, 2056, 3273, 30871, 31830, 28949, 30164,
    27539, 28498, 25105, 26320, 24223, 23134, 22301, 21468, 19867, 18778,
    17433, 16600, 44197, 43108, 42279, 41446, 49057, 47968, 46627, 45794,
    35501, 36460, 33583, 34798, 39337, 40296, 36907, 38122, 57524, 58485,
    59702, 60919, 62384, 63345, 64050, 65267, 50876, 49789, 53054, 52223,
    54712, 53625, 56378, 55547, 26892, 28109, 24718, 25679, 31240, 32457,
    29578, 30539, 20228, 19397, 18054, 16967, 23552, 22721, 21890, 20803,
    9501, 8668, 11423, 10334, 13849, 13016, 16283, 15194, 789, 2004, 2711,
    3670, 4113, 5328, 6547, 7506, 61743, 62958, 63661, 64620, 57899, 59114,
    60329, 61288, 55079, 54246, 56997, 55908, 50211, 49378, 52641, 51552,
    48446, 47615, 46268, 45181, 44602, 43771, 42936, 41849, 39734, 40951,
    37556, 38517, 34866, 36083, 33200, 34161, 23946, 22859, 21512, 20681,
    20110, 19023, 18188, 17357, 31618, 32579, 29184, 30401, 26758, 27719,
    24836, 26053, 4507, 5466, 6169, 7384, 671, 1630, 2845, 4060, 14227, 13138,
    15889, 15056, 9367, 8278, 11541, 10708, 50601, 49512, 52267, 51434, 54957,
    53868, 57135, 56302, 58273, 59232, 59939, 61154, 61605, 62564, 63783,
    64998, 35256, 36217, 32826, 34043, 39612, 40573, 37694, 38911, 44976,
    43889, 42546, 41715, 48308, 47221, 46390, 45559 >>

Crc32LutLo == <<
    0, 7607, 15214, 9945, 30428, 27499, 19890, 20485, 60856, 61455, 54998,
    52065, 39780, 34515, 40970, 48573, 56176, 50887, 57374, 64937, 44460,
    45083, 38594, 35701, 14024, 11135, 3494, 4113, 16404, 23971, 31610, 26317,
    46816, 43863, 36238, 36921, 49212, 56715, 64338, 59109, 23384, 18159,
    24630, 32129, 11652, 12339, 5866, 2909, 28048, 28711, 22270, 19273, 6988,
    1787, 8226, 15765, 32808, 40351, 47942, 42737, 63220, 60227, 52634, 53293,
    28791, 28096, 19225, 22190, 1707, 6940, 15813, 8306, 40399, 32888, 42657,
    47894, 60179, 63140, 53373, 52682, 43783, 46768, 36969, 36318, 56795,
    49260, 59061, 64258, 18111, 23304, 32209, 24678, 12387, 11732, 2829, 5818,
    50839, 56096, 65017, 57422, 45131, 44540, 35621, 38546, 11055, 13976,
    4161, 3574, 24051, 16452, 26269, 31530, 7655, 80, 9865, 15166, 27451,
    30348, 20565, 19938, 61535, 60904, 52017, 54918, 34435, 39732, 48621,
    41050, 57582, 64857, 56192, 50743, 38450, 35717, 44380, 45291, 3414, 4321,
    13880, 11151, 31626, 26173, 16612, 23891, 15262, 9769, 240, 7495, 19778,
    20725, 30252, 27547, 54822, 52113, 60744, 61695, 41210, 48461, 39828,
    34339, 22030, 19385, 28000, 28887, 8402, 15717, 7100, 1547, 48054, 42497,
    32984, 40303, 52586, 53469, 62980, 60339, 36222, 37065, 46608, 43943,
    64418, 58901, 49356, 56699, 24774, 32113, 23464, 17951, 5658, 2989, 11636,
    12483, 37017, 36142, 44023, 46656, 58949, 64498, 56619, 49308, 32033,
    24726, 17999, 23544, 3069, 5706, 12435, 11556, 19433, 22110, 28807, 27952,
    15669, 8322, 1627, 7148, 42577, 48102, 40255, 32904, 53389, 52538, 60387,
    63060, 9849, 15310, 7447, 160, 20645, 19730, 27595, 30332, 52161, 54902,
    61615, 60696, 48413, 41130, 34419, 39876, 64777, 57534, 50791, 56272,
    35797, 38498, 45243, 44300, 4273, 3334, 11231, 13928, 26221, 31706, 23811,
    16564 >>

Crc32Low(crc, byte) ==  \* mutant: the index is taken from the low byte
  LET i == 1 + ((crc[2] % 256) ^^ byte)
  IN  <<(((crc[1] % 256) * 256 + crc[2] \div 256) ^^ Crc32LutHi[i]),
        (((crc[2] % 256) * 256) ^^ Crc32LutLo[i])>>

Crc32Step(crc, byte) ==
  LET i == 1 + ((crc[1] \div 256) ^^ byte)
  IN  <<(((crc[1] % 256) * 256 + crc[2] \div 256) ^^ Crc32LutHi[i]),
        (((crc[2] % 256) * 256) ^^ Crc32LutLo[i])>>

Crc32(prev_crc, data) == FoldLeft(Crc32Step, prev_crc, data)
------------------------------------------------------------------------------
(* Fletcher-16 check bytes, cb0 and cb1.                                   *)
FletcherSums(data) ==
  FoldLeft(LAMBDA s, d : LET s1 == (s[1] + d) % 255 IN <<s1, (s[2] + s1) % 255>>,
           <<0, 0>>, data)

FletcherSwapped(data) ==  \* mutant: cb1 leaves cb0 out
  LET s   == FletcherSums(data)
      cb0 == 255 - ((s[1] + s[2]) % 255)
  IN  <<cb0, 255 - ((s[1] + s[2]) % 255)>>

FletcherGenerate(data) ==
  LET s   == FletcherSums(data)
      cb0 == 255 - ((s[1] + s[2]) % 255)
  IN  IF data = <<>> THEN <<0, 0>> ELSE <<cb0, 255 - ((s[1] + cb0) % 255)>>

FletcherVerify(fletcher, data) ==
  data # <<>> /\ fletcher = FletcherGenerate(data)
------------------------------------------------------------------------------
(* Conversions.  Characters are their codes.                               *)
ConvertIntToBytes(n, num_bytes) ==
  IF num_bytes \in 1 .. 4
  THEN [i \in 1 .. num_bytes |-> (n \div 256 ^ (i - 1)) % 256] ELSE <<>>

(* The first byte is the most significant one, whatever their number.      *)
ConvertBytesToInt(bytes) ==
  IF Len(bytes) \in 1 .. 4
  THEN FoldLeft(+, 0, [i \in 1 .. Len(bytes) |-> bytes[i] * 256 ^ (4 - i)]) ELSE 0

DigitsAbove10(n) ==  \* mutant: the divisor stops at 10
  CHOOSE d \in 1 .. 10 :
    n \div 10 ^ (d - 1) <= 10 /\ \A e \in 1 .. d - 1 : n \div 10 ^ (e - 1) > 10

Digits(n) ==
  CHOOSE d \in 1 .. 10 :
    n \div 10 ^ (d - 1) <= 9 /\ \A e \in 1 .. d - 1 : n \div 10 ^ (e - 1) > 9

(* The digits overwrite the buffer, up to and including the first cell     *)
(* that holds a blank (32).                                                *)
ConvertIntToString(n, buf) ==
  LET d     == Digits(n)
      blank == {i \in 1 .. d : buf[i] = 32}
      last  == IF blank = {} THEN d ELSE Min(blank)
  IN  [i \in 1 .. last |-> 48 + ((n \div 10 ^ (d - i)) % 10)]

ConvertDecToChar(decimal) == IF decimal <= 9 THEN decimal + 48 ELSE 0

ConvertCharToDec(character) == (character - 48) % 256

(* "V", the major number in the high byte, a nibble each for the others.   *)
ConvertOsVersionToString(version) ==
  LET parts == ConvertIntToBytes(version, 2)
  IN  <<86, ConvertDecToChar(parts[2]), 46, ConvertDecToChar(parts[1] \div 16),
        46, ConvertDecToChar(parts[1] % 16)>>

ConvertUsToMs(us) == us \div 1000

(* The seconds and milliseconds of a log line.                             *)
LogTime(micros) ==
  LET s == micros \div 1000000 IN <<s, ConvertUsToMs(micros) - s * 1000>>
------------------------------------------------------------------------------
(* The tokens of a line: a blank ends one, "=" is left out.  A line that   *)
(* has more tokens, or a longer one, than the table is cut off; the two    *)
(* limits are taken for each other, which have the same value.             *)
StoresAll(a, c) ==  \* mutant: no character is ignored
  IF c = " " THEN IF Len(a.args) > TokenLength THEN [a EXCEPT !.stop = TRUE]
                  ELSE [a EXCEPT !.args = Append(@, <<>>)]
  ELSE IF Len(Last(a.args)) >= TokenCount THEN [a EXCEPT !.stop = TRUE]
  ELSE [a EXCEPT !.args[Len(a.args)] = Append(@, c)]

SplitChar(a, c) ==
  IF c = " " THEN IF Len(a.args) > TokenLength THEN [a EXCEPT !.stop = TRUE]
                  ELSE [a EXCEPT !.args = Append(@, <<>>)]
  ELSE IF c = "=" THEN a
  ELSE IF Len(Last(a.args)) >= TokenCount THEN [a EXCEPT !.stop = TRUE]
  ELSE [a EXCEPT !.args[Len(a.args)] = Append(@, c)]

IShellSplitLine(line) ==
  FoldLeft(LAMBDA a, c : IF a.stop THEN a ELSE SplitChar(a, c),
           [args |-> << <<>> >>, stop |-> FALSE],
           SubSeq(line, 1, Min({Len(line), LineLength}))).args

(* The index of an argument in the tokens of a command, from 0, or -1.     *)
IShellCommandTokensContainArgument(tokens, argument) ==
  LET at == {i \in DOMAIN tokens : tokens[i] = argument}
  IN  IF at = {} THEN -1 ELSE Min(at) - 1

(* ShellCommandSet.                                                        *)
OneMore(set, cmd) ==  \* mutant: the limit is off by one
  IF Len(set) > CommandCount THEN set ELSE Append(set, cmd)

ShellCommandRegister(set, cmd) ==
  IF Len(set) >= CommandCount THEN set ELSE Append(set, cmd)

Named(set, name) == {i \in DOMAIN set : set[i].cmd = name}

(* The command whose callback TaskShellExecute calls for a line of n       *)
(* tokens, if any: the first one of the name is taken.                     *)
ShellExecutes(set, name, n) ==
  {c \in {set[i] : i \in {i \in Named(set, name) : \A j \in Named(set, name) : i <= j}} :
     n \in c.min_tokens .. c.max_tokens /\ c.callback}

(* The command whose help is shown: the last one of the name.              *)
ShellCommandFromName(set, name) ==
  {set[i] : i \in {i \in Named(set, name) : \A j \in Named(set, name) : j <= i}}
------------------------------------------------------------------------------
(* The prescaler and the counts of the OS timer per tick.  The quotient is *)
(* a float: it may be rounded across an integer that it is close to (less  *)
(* than 1/128 away).  With no prescaler that fits the code does not end.   *)
Prescalers == <<1, 8, 65, 256, 1024>>

Counts(f_os, p) ==
  LET f == TimerHz \div p
      q == f \div f_os
      r == f % f_os
  IN  {q} \cup (IF 128 * r < f_os THEN {q - 1} ELSE {})
          \cup (IF 128 * (f_os - r) < f_os THEN {q + 1} ELSE {})

SignedLimit(f_os) ==  \* mutant: the limit is the one of a signed count
  {<<Prescalers[i], c - 1>> : <<i, c>> \in
     {ic \in UNION {{i} \X Counts(f_os, Prescalers[i]) : i \in 1 .. 5} :
        /\ ic[2] <= 32767
        /\ \A j \in 1 .. ic[1] - 1 : \E d \in Counts(f_os, Prescalers[j]) : d > 32767}}

(* The pairs of a prescaler and an overflow value that may come out.       *)
ICoreCalculatePrescaler(f_os) ==
  {<<Prescalers[i], c - 1>> : <<i, c>> \in
     {ic \in UNION {{i} \X Counts(f_os, Prescalers[i]) : i \in 1 .. 5} :
        /\ ic[2] <= 65535
        /\ \A j \in 1 .. ic[1] - 1 : \E d \in Counts(f_os, Prescalers[j]) : d > 65535}}
------------------------------------------------------------------------------
NoInput == [fn |-> "none"]

AlgorithmsInit == input = NoInput

CallCrc == \E p \in {<<0, 0>>, <<65535, 65535>>}, d \in CrcData :
  input' = [fn |-> "crc", prev |-> p, data |-> d]

CallFletcher == \E d \in FletcherData : input' = [fn |-> "fletcher", data |-> d]

CallConvert == \E n \in Numbers, b \in Buffers :
  input' = [fn |-> "convert", n |-> n, buf |-> b]

CallVersion == \E v \in Versions : input' = [fn |-> "version", version |-> v]

CallSplit == \E n \in 0 .. MaxLine : \E l \in [1 .. n -> Chars] :
  input' = [fn |-> "split", line |-> l]

CallCommand == \E k \in 0 .. CommandCount + 1 : \E cmds \in [1 .. k -> Commands] :
  input' = [fn |-> "command", cmds |-> cmds]

CallPrescaler == \E f \in Ticks : input' = [fn |-> "prescaler", f_os |-> f]

AlgorithmsNext ==
  \/ /\ input = NoInput
     /\ CallCrc \/ CallFletcher \/ CallConvert \/ CallVersion \/ CallSplit
        \/ CallCommand \/ CallPrescaler
  \/ input # NoInput /\ input' = NoInput
------------------------------------------------------------------------------
(* The register of a bit-serial divider by the CRC-32 polynomial.          *)
Polynomial == {26, 23, 22, 16, 12, 11, 10, 8, 7, 5, 4, 2, 1, 0}

Bit(n, e) == (n \div 2 ^ e) % 2 = 1

CrcBit(r, b) ==
  LET top == r[31] # b
  IN  [e \in 0 .. 31 |-> (e > 0 /\ r[e - 1]) # (top /\ e \in Polynomial)]

Divider(r, data) ==
  FoldLeft(CrcBit, r, FlattenSeq([i \in 1 .. Len(data) |->
                                    [k \in 1 .. 8 |-> Bit(data[i], 8 - k)]]))

Register(crc) == [e \in 0 .. 31 |-> IF e < 16 THEN Bit(crc[2], e) ELSE Bit(crc[1], e - 16)]

(* The table-driven CRC is the remainder of the division by the CRC-32     *)
(* polynomial, for every entry of the table.                               *)
CrcDivides ==
  input.fn = "crc" =>
    Register(Crc32(input.prev, input.data)) = Divider(Register(input.prev), input.data)

(* The two check bytes bring both sums back to zero, and FletcherVerify    *)
(* notices every change of one byte other than 0 for 255: what the pool    *)
(* check of Memory.c and the event hash of Event.c are built on.           *)
FletcherDetects ==
  input.fn = "fletcher" =>
    LET d == input.data  f == FletcherGenerate(d)
    IN  /\ d # <<>> => FletcherSums(d \o f) = <<0, 0>>
        /\ \A i \in DOMAIN d, b \in U8 :
             FletcherVerify(f, [d EXCEPT ![i] = b]) <=> b % 255 = d[i] % 255

NumberOf(str) == FoldLeft(LAMBDA v, c : 10 * v + ConvertCharToDec(c), 0, str)

(* A number is read back from its bytes, most significant one first, and   *)
(* from its string, of which only a blank in the buffer cuts digits off;   *)
(* the version from its digits; the log line has the milliseconds of the   *)
(* run time.                                                               *)
ConversionsReadBack ==
  /\ input.fn = "convert" =>
       LET n == input.n
           s == ConvertIntToString(n, input.buf)
           t == LogTime(n)
       IN  /\ \A k \in 1 .. 4 :
                ConvertBytesToInt(Reverse(ConvertIntToBytes(n, k))) =
                  IF k = 4 THEN n ELSE (n % 256 ^ k) * 256 ^ (4 - k)
           /\ \E k \in 0 .. 9 : /\ NumberOf(s) = n \div 10 ^ k
                                /\ k = 0 \/ input.buf[Len(s)] = 32
           /\ t[2] \in 0 .. 999 /\ t[1] * 1000 + t[2] = n \div 1000
  /\ input.fn = "version" =>
       LET s == ConvertOsVersionToString(input.version)
       IN  input.version = 256 * ConvertCharToDec(s[2]) + 16 * ConvertCharToDec(s[4])
                           + ConvertCharToDec(s[6])

(* A line whose tokens fit in the table is split at its blanks, without    *)
(* the characters to ignore, and an argument is found where it comes       *)
(* first.                                                                  *)
SplitReads ==
  input.fn = "split" =>
    LET line   == input.line
        ends   == {0, Len(line) + 1} \cup {i \in DOMAIN line : line[i] = " "}
        s      == [k \in 1 .. Cardinality(ends) |->
                     CHOOSE e \in ends : Cardinality({x \in ends : x < e}) = k - 1]
        tokens == [k \in 1 .. Len(s) - 1 |->
                     SelectSeq(SubSeq(line, s[k] + 1, s[k + 1] - 1), LAMBDA c : c # "=")]
    IN  /\ Len(line) <= LineLength /\ Len(tokens) <= TokenCount
        /\ \A k \in DOMAIN tokens : Len(tokens[k]) < TokenLength
        => /\ IShellSplitLine(line) = tokens
           /\ \A k \in DOMAIN tokens :
                LET i == IShellCommandTokensContainArgument(IShellSplitLine(line), tokens[k]) + 1
                IN  tokens[i] = tokens[k] /\ \A l \in 1 .. i - 1 : tokens[l] # tokens[k]

(* A command executes, and has its help shown, if and only if it was       *)
(* registered while the table had room and it is called with a number of   *)
(* tokens of its own; of two commands of one name the first executes and   *)
(* the last is helped with.  The table never outgrows ShellCommandSet.     *)
CommandsFound ==
  input.fn = "command" =>
    LET cmds == input.cmds
        set  == FoldLeft(ShellCommandRegister, <<>>, cmds)
        room == SubSeq(cmds, 1, Min({Len(cmds), CommandCount}))
        First(c) == \E i \in DOMAIN room :
                      room[i] = c /\ \A j \in 1 .. i - 1 : room[j].cmd # c.cmd
        Last1(c) == \E i \in DOMAIN room :
                      room[i] = c /\ \A j \in i + 1 .. Len(room) : room[j].cmd # c.cmd
    IN  /\ Len(set) <= CommandCount
        /\ \A c \in Commands :
             /\ c \in ShellCommandFromName(set, c.cmd) <=> Last1(c)
             /\ \A n \in 0 .. 5 :
                  c \in ShellExecutes(set, c.cmd, n) <=>
                    First(c) /\ c.callback /\ n \in c.min_tokens .. c.max_tokens

(* A prescaler is found if and only if the counts of a tick fit in 16 bits *)
(* with the largest one (for 1 Hz they do not, and the code does not end). *)
(* It is the smallest one with which they fit, and the tick is at most one *)
(* count too long and three too short.                                     *)
PrescalerFits ==
  input.fn = "prescaler" =>
    LET f == input.f_os
        most == (TimerHz \div Max(Range(Prescalers))) \div f
    IN  /\ most < 65535 => ICoreCalculatePrescaler(f) # {}
        /\ most > 65535 => ICoreCalculatePrescaler(f) = {}
        /\ \A po \in ICoreCalculatePrescaler(f) :
             /\ TimerHz - (po[2] + 1) * po[1] * f \in -po[1] * f .. 3 * po[1] * f
             /\ \A q \in Range(Prescalers) :
                  q < po[1] => (TimerHz \div q) \div f >= 65535

(* Every function gives what its reference says, for all of the inputs.    *)
FunctionsRight ==
  /\ CrcDivides /\ FletcherDetects /\ ConversionsReadBack
  /\ SplitReads /\ CommandsFound /\ PrescalerFits
==============================================================================
