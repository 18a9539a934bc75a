------------------------------ MODULE Settings ------------------------------
(***************************************************************************)
(* The settings and the other records kept in EEPROM (settings.c,          *)
(* eeprom.c), the commands that write them (system.c) and the power-up     *)
(* that reads them back (main.c): byte by byte, with the power failing     *)
(* between two bytes.                                                      *)
(*                                                                         *)
(* A byte is a number below Base, an erased one Base - 1.  Writing a byte  *)
(* is atomic, as the EEPROM cell is taken to be.  Of the settings the      *)
(* model keeps four: two of one byte, two of the flags, and the pull-off,  *)
(* which takes two bytes as the floats of the code take four.              *)
(***************************************************************************)
EXTENDS Integers, SequencesExt

CONSTANTS
  Base,         \* values of a byte (256)
  EepromSize,   \* bytes of the EEPROM (1024)
  Version,      \* SETTINGS_VERSION
  AddrParameters, AddrStartup, AddrBuildInfo,  \* EEPROM_ADDR_*
  NCoord,       \* coordinate records, G28 and G30 included
  CoordSize,    \* bytes of one
  NLines,       \* N_STARTUP_LINE
  LineSize,     \* LINE_BUFFER_SIZE
  Defaults,     \* the default settings
  MinPulse,     \* shortest step pulse accepted by $0
  Pulses, Masks, Pulloffs,  \* the values the host asks for
  Coords,       \* and the coordinates
  Texts,        \* and the startup lines, with what follows their end in the buffer
  LineNumbers,  \* and their numbers, which the code does not check
  MaxCommands,  \* bound: commands that write
  MaxLosses     \* bound: power failures

Byte == 0..Base - 1
Erased == Base - 1

SettingsOf(Flag) ==
  [pulse : Byte, mask : Byte, homing : Flag, soft : Flag, pulloff : 0..Base * Base - 1]

ASSUME ByteAssumption == Base \in 4..256 /\ Base % 2 = 0 /\ Version \in 0..Base - 2
ASSUME LayoutAssumption ==
  /\ {NCoord, CoordSize, NLines, LineSize} \subseteq Nat \ {0}
  /\ {EepromSize, AddrParameters, AddrStartup, AddrBuildInfo} \subseteq Nat
  /\ 1 + 6 <= AddrParameters
  /\ AddrParameters + NCoord * (CoordSize + 1) <= AddrStartup
  /\ AddrStartup + NLines * (LineSize + 1) <= AddrBuildInfo
  /\ AddrBuildInfo + LineSize + 1 <= EepromSize
ASSUME DefaultsAssumption ==
  /\ Defaults \in SettingsOf(BOOLEAN) /\ MinPulse \in Byte
  /\ Defaults.pulse >= MinPulse /\ (Defaults.soft => Defaults.homing)
ASSUME InputAssumption ==
  /\ Pulses \cup Masks \subseteq Byte /\ Pulloffs \subseteq 0..Base * Base - 1
  /\ Coords \subseteq [1..CoordSize -> Byte] /\ Texts \subseteq [1..LineSize -> Byte]
  /\ LineNumbers \subseteq Nat /\ {MaxCommands, MaxLosses} \subseteq Nat

VARIABLES
  eeprom,    \* the bytes
  settings,  \* the settings in memory
  alarm,     \* sys.state is ALARM, else IDLE
  pc,        \* "off", "init", "startup" or "ready"
  n,         \* the startup line read next
  writes,    \* the bytes still to write
  expected,  \* the values last asked for
  before,    \* the values they replace, until they are written
  dirty,     \* records whose last write was interrupted
  commands, losses

vars == <<eeprom, settings, alarm, pc, n, writes, expected, before, dirty, commands, losses>>

-----------------------------------------------------------------------------
(* The records and where they are.                                         *)

Global == 0
Coord(i) == 1 + i
Line(k) == 1 + NCoord + k
BuildInfo == 1 + NCoord + NLines
Records == 0..BuildInfo
NoRecord == BuildInfo + 1
IsLine(r) == r > NCoord

CoordAddr(i) == AddrParameters + i * (CoordSize + 1)
LineAddr_NoChecksum(k) == AddrStartup + k * LineSize
LineAddr(k) == AddrStartup + k * (LineSize + 1)

Addr(r) ==
  CASE r = Global -> 1
    [] r \in 1..NCoord -> CoordAddr(r - 1)
    [] r \in NCoord + 1..NCoord + NLines -> LineAddr(r - NCoord - 1)
    [] OTHER -> AddrBuildInfo

Size(r) == IF r = Global THEN 5 ELSE IF IsLine(r) THEN LineSize ELSE CoordSize

(* The settings as they are laid out, and read back.                       *)
Bit(flag) == IF flag THEN 1 ELSE 0
ToBytes(s) == <<s.pulse, s.mask, Bit(s.homing) + 2 * Bit(s.soft), s.pulloff % Base, s.pulloff \div Base>>
FromBytes(b) == [pulse |-> b[1], mask |-> b[2], homing |-> b[3] % 2 = 1,
                 soft |-> (b[3] \div 2) % 2 = 1, pulloff |-> b[4] + Base * b[5]]

(* A text ends at its first zero.                                          *)
Text(b) == [i \in DOMAIN b |-> IF \E j \in 1..i : b[j] = 0 THEN 0 ELSE b[i]]

Empty == [i \in 1..LineSize |-> 0]
Default(r) == IF r = Global THEN ToBytes(Defaults) ELSE [i \in 1..Size(r) |-> 0]

(* The checksum of the code: the rotation is a logical or, so that all it  *)
(* keeps of the bytes before the last is whether their sum is zero.        *)
Checksum(b) ==
  LET sum[i \in 0..Len(b)] == IF i = 0 THEN 0 ELSE (Bit(sum[i - 1] # 0) + b[i]) % Base
  IN  sum[Len(b)]

-----------------------------------------------------------------------------
(* Reading.                                                                *)

At(addr) == eeprom[addr % EepromSize]
Bytes(r) == [i \in 1..Size(r) |-> At(Addr(r) + i - 1)]
Intact(r) == Checksum(Bytes(r)) = At(Addr(r) + Size(r))
Valid(r) == Intact(r) /\ (r = Global => At(0) = Version)

(* What a reader of the record is given.                                   *)
Value(r) ==
  IF ~Valid(r) THEN Default(r) ELSE IF IsLine(r) THEN Text(Bytes(r)) ELSE Bytes(r)

(* Writing: the bytes in their order, and the record they belong to.       *)
Put(addr, byte, r) == [addr |-> addr % EepromSize, byte |-> byte, record |-> r]
WriteAt(addr, b, r) ==
  [i \in 1..Len(b) + 1 |-> Put(addr + i - 1, IF i > Len(b) THEN Checksum(b) ELSE b[i], r)]

WriteGlobal_NoVersion(s) == WriteAt(Addr(Global), ToBytes(s), Global)
WriteGlobal(s) == <<Put(0, Version, Global)>> \o WriteAt(Addr(Global), ToBytes(s), Global)

(* An empty text, without the checksum of the record.                      *)
Clear(r) == <<Put(Addr(r), 0, r), Put(Addr(r) + 1, 0, r)>>

RestoreDefaults == WriteGlobal(Defaults)
RestoreParameters ==
  FlattenSeq([i \in 1..NCoord |-> WriteAt(CoordAddr(i - 1), Default(i), Coord(i - 1))])
RestoreStartupLines == FlattenSeq([k \in 1..NLines |-> Clear(Line(k - 1))])
RestoreAll == RestoreDefaults \o RestoreParameters \o RestoreStartupLines \o Clear(BuildInfo)

(* The records that are given new values, for the properties.              *)
Ask(new) ==
  /\ expected' = [r \in Records |-> IF r \in DOMAIN new THEN new[r] ELSE expected[r]]
  /\ before' = [r \in Records |-> IF r \in DOMAIN new THEN Value(r) ELSE before[r]]
  /\ dirty' = dirty \ DOMAIN new

Same == UNCHANGED <<expected, before, dirty>>

-----------------------------------------------------------------------------
Init ==
  /\ eeprom = [a \in 0..EepromSize - 1 |-> Erased] /\ settings = Defaults
  /\ alarm = FALSE /\ pc = "off" /\ n = 0 /\ writes = <<>>
  /\ expected = [r \in Records |-> Default(r)] /\ before = expected /\ dirty = {}
  /\ commands = 0 /\ losses = 0

(* eeprom_put_char().  Nothing else runs until the last byte is written.   *)
WriteByte ==
  /\ writes # <<>> /\ writes' = Tail(writes)
  /\ eeprom' = [eeprom EXCEPT ![Head(writes).addr] = Head(writes).byte]
  /\ before' = IF Len(writes) > 1 THEN before
               ELSE [r \in Records |-> IF r \in dirty THEN before[r] ELSE expected[r]]
  /\ UNCHANGED <<settings, alarm, pc, n, expected, dirty, commands, losses>>

(* Memory is lost, and what was still to be written.                       *)
PowerLoss ==
  /\ pc # "off" /\ losses < MaxLosses /\ losses' = losses + 1
  /\ pc' = "off" /\ settings' = Defaults /\ alarm' = FALSE /\ n' = 0 /\ writes' = <<>>
  /\ dirty' = dirty \cup ({writes[i].record : i \in DOMAIN writes} \cap Records)
  /\ UNCHANGED <<eeprom, expected, before, commands>>

(* settings_init() and the lock of HOMING_INIT_LOCK.  When the settings    *)
(* cannot be read, all the records are restored.                           *)
SettingsInit ==
  /\ pc = "off" /\ pc' = "init"
  /\ settings' = FromBytes(Value(Global)) /\ alarm' = settings'.homing
  /\ IF Valid(Global) THEN writes' = <<>> /\ Same
     ELSE writes' = RestoreAll /\ Ask([r \in Records |-> Default(r)])
  /\ UNCHANGED <<eeprom, n, commands, losses>>

(* A record found invalid is given its default value.                      *)
Repair(r) ==
  IF Valid(r) THEN writes' = <<>> /\ Same
  ELSE writes' = WriteAt(Addr(r), Default(r), r) /\ Ask([q \in {r} |-> Default(q)])

(* main(): gc_init() reads G54; in ALARM the startup lines are not read.   *)
Start ==
  /\ pc = "init" /\ writes = <<>>
  /\ Repair(Coord(0))
  /\ pc' = IF alarm THEN "ready" ELSE "startup"
  /\ n' = 0 /\ UNCHANGED <<eeprom, settings, alarm, commands, losses>>

(* system_execute_startup(): the lines are taken to be motions.            *)
ReadStartupLine ==
  /\ pc = "startup" /\ writes = <<>>
  /\ Repair(Line(n))
  /\ n' = (n + 1) % NLines /\ pc' = IF n + 1 = NLines THEN "ready" ELSE "startup"
  /\ UNCHANGED <<eeprom, settings, alarm, commands, losses>>

-----------------------------------------------------------------------------
(* The commands.                                                           *)

Ready == pc = "ready" /\ writes = <<>>

Command ==
  /\ Ready /\ commands < MaxCommands /\ commands' = commands + 1
  /\ UNCHANGED <<eeprom, n, losses>>

Stored_SoftStays(s, parameter, value) ==
  CASE parameter = 0 -> [s EXCEPT !.pulse = value]
    [] parameter = 2 -> [s EXCEPT !.mask = value]
    [] parameter = 20 -> [s EXCEPT !.soft = value # 0]
    [] parameter = 22 -> [s EXCEPT !.homing = value # 0]
    [] parameter = 27 -> [s EXCEPT !.pulloff = value]

(* settings_store_global_setting(): homing switched off takes the soft     *)
(* limits with it, and without homing they cannot be switched on.          *)
Stored(s, parameter, value) ==
  CASE parameter = 0 -> [s EXCEPT !.pulse = value]
    [] parameter = 2 -> [s EXCEPT !.mask = value]
    [] parameter = 20 -> [s EXCEPT !.soft = value # 0]
    [] parameter = 22 -> [s EXCEPT !.homing = value # 0, !.soft = s.soft /\ value # 0]
    [] parameter = 27 -> [s EXCEPT !.pulloff = value]

Accepts(s, parameter, value) ==
  /\ parameter = 0 => value >= MinPulse
  /\ parameter = 20 /\ value # 0 => s.homing

Settable == ({0} \X Pulses) \cup ({2} \X Masks) \cup ({20, 22} \X {0, 1}) \cup ({27} \X Pulloffs)

(* $x=value                                                                *)
StoreSetting ==
  /\ Command
  /\ \E p \in Settable :
       /\ Accepts(settings, p[1], p[2])
       /\ settings' = Stored(settings, p[1], p[2])
       /\ writes' = WriteGlobal(settings') /\ Ask([r \in {Global} |-> ToBytes(settings')])
  /\ UNCHANGED <<alarm, pc>>

(* $Nx=line, in IDLE, once the line was executed without an error.  The    *)
(* number is not compared with N_STARTUP_LINE.                             *)
StoreStartupLine ==
  /\ Command /\ ~alarm
  /\ \E k \in LineNumbers, b \in Texts :
       IF k < NLines
       THEN writes' = WriteAt(LineAddr(k), b, Line(k)) /\ Ask([r \in {Line(k)} |-> Text(b)])
       ELSE writes' = WriteAt(LineAddr(k), b, NoRecord) /\ Same
  /\ UNCHANGED <<settings, alarm, pc>>

(* G10, G28.1 and G30.1: g-code, not in ALARM.                             *)
WriteCoordData ==
  /\ Command /\ ~alarm
  /\ \E i \in 0..NCoord - 1, b \in Coords :
       writes' = WriteAt(CoordAddr(i), b, Coord(i)) /\ Ask([r \in {Coord(i)} |-> b])
  /\ UNCHANGED <<settings, alarm, pc>>

(* $RST=$, $RST=# and $RST=*, and the reset that follows.                  *)
Restore ==
  /\ Command
  /\ \E what \in {"$", "#", "*"} :
       /\ settings' = IF what = "#" THEN settings ELSE Defaults
       /\ writes' = CASE what = "$" -> RestoreDefaults
                      [] what = "#" -> RestoreParameters
                      [] what = "*" -> RestoreAll
       /\ Ask([r \in CASE what = "$" -> {Global} [] what = "#" -> 1..NCoord
                       [] what = "*" -> Records |-> Default(r)])
  /\ pc' = "init" /\ UNCHANGED alarm

(* $#, $N, $I and G54 to G59, G28 and G30 read a record.                   *)
ReadRecord ==
  /\ Ready
  /\ \E r \in Records \ {Global} : ~Valid(r) /\ Repair(r)
  /\ UNCHANGED <<eeprom, settings, alarm, pc, n, commands, losses>>

(* A soft reset: memory is kept, and so is the lock.                       *)
Reset ==
  /\ Ready /\ pc' = "init"
  /\ Same /\ UNCHANGED <<eeprom, settings, alarm, n, writes, commands, losses>>

(* $X and $H: the startup lines run after homing only.                     *)
Unlock ==
  /\ Ready /\ alarm /\ alarm' = FALSE
  /\ Same /\ UNCHANGED <<eeprom, settings, pc, n, writes, commands, losses>>
Home ==
  /\ Ready /\ settings.homing /\ alarm' = FALSE /\ pc' = "startup"
  /\ Same /\ UNCHANGED <<eeprom, settings, n, writes, commands, losses>>

Next ==
  \/ WriteByte \/ PowerLoss \/ SettingsInit \/ Start \/ ReadStartupLine
  \/ StoreSetting \/ StoreStartupLine \/ WriteCoordData \/ Restore
  \/ ReadRecord \/ Reset \/ Unlock \/ Home

Spec == Init /\ [][Next]_vars

-----------------------------------------------------------------------------
(* What is in memory is what the next power-up reads: no command leaves    *)
(* settings in force that were not stored, or stored where the version     *)
(* byte does not vouch for them (write_global_settings(), settings_init()).*)
SettingsPersist ==
  pc # "off" /\ writes = <<>> => Valid(Global) /\ FromBytes(Bytes(Global)) = settings

(* Soft limits are never in force without homing, nor a step pulse shorter *)
(* than the minimum, whatever the commands and the power failures that led *)
(* there (settings.c:251, 257, 270), in memory and in what a power-up      *)
(* would read.                                                             *)
Sound(s) == (s.soft => s.homing) /\ s.pulse >= MinPulse
SettingsSound ==
  /\ settings \in SettingsOf(BOOLEAN) /\ Sound(settings)
  /\ pc = "off" => Sound(FromBytes(Value(Global)))

(* A record is read back as it was last stored, or as the default it was   *)
(* restored to, whatever was written to the other records before or after  *)
(* and however often the power failed meanwhile, unless its own write was  *)
(* cut short (the addresses of settings.h:66-71, the partial restoration   *)
(* of settings.c:115-132).                                                 *)
RecordsKeep ==
  writes = <<>> => \A r \in Records \ dirty : pc # "off" \/ Valid(Global) =>
                      Value(r) = expected[r]

(* A record whose write was cut short is found invalid and restored to its *)
(* default, unless it still is the old one or already the new one: "An     *)
(* EEPROM read failed. Auto-restoring affected EEPROM to default values."  *)
WholeOrDefault ==
  pc = "ready" /\ writes = <<>> =>
    \A r \in dirty : Value(r) \in {expected[r], before[r], Default(r)}

=============================================================================
