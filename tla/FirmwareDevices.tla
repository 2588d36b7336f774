--------------------------- MODULE FirmwareDevices ---------------------------
(***************************************************************************)
(* The devices edk2 boots with in the experimental VMM: the NOR flash of   *)
(* the UEFI variables and its command protocol, fw_cfg with its DMA and    *)
(* the ramfb whose configuration is written through it, the serial port.   *)
(* The guest's accesses come one at a time, from its only vCPU; the frame  *)
(* buffer is drawn and the keyboard read by goroutines of their own.       *)
(*                                                                         *)
(* A flash word is the set of its one bits, erased when it holds them all; *)
(* a fw_cfg item is a sequence of bytes.                                   *)
(***************************************************************************)
EXTENDS Naturals, Sequences

CONSTANTS
    Words,       \* words of the flash, two to a block
    Bits,        \* bits of a word
    Patterns,    \* what the driver programs
    Items,       \* the read-only items: selector -> bytes
    RamfbKey,    \* the selector of etc/ramfb, of two bytes: address, geometry
    InputCap,    \* capacity of the serial port's queue, 256 in the code
    MaxFlashOps, MaxDMA, MaxKeys \* bounds of a history

VARIABLES
    flash,    \* the array and the state of the command protocol
    flashdrv, \* edk2's flash driver: what it is doing, what should be there
    fwcfg,    \* selector, offset, the writable item
    dma,      \* the guest's last fw_cfg transfer
    ramfb,    \* the display: mutex, address, geometry
    frame,    \* the goroutine that draws
    uart      \* keys typed, the queue, what the guest has read

fdvars == <<flash, flashdrv, fwcfg, dma, ramfb, frame, uart>>

-----------------------------------------------------------------------------
(* The flash                                                               *)

Addr == 0 .. Words - 1
BlockOf(a) == {w \in Addr : w \div 2 = a \div 2}

(* Programming can only clear bits.                                        *)
program(a, v) == [flash.data EXCEPT ![a] = @ \cap v]

BufferWords(n) == n + 1

Erased(a) == [w \in Addr |-> IF w \in BlockOf(a) THEN Bits ELSE flash.data[w]]

CommandState(c) ==
    IF c \in {"readarray", "clear"} THEN "array"
    ELSE IF c = "word" THEN "program"
    ELSE IF c = "buffer" THEN "bufcount"
    ELSE IF c = "erase" THEN "erasesetup" ELSE "status"

(* A write is taken by the state the device is in: as a word of data, as a *)
(* count, as a confirmation, and only otherwise as a command.              *)
FlashWrite(a, v) ==
    \/ /\ flash.state = "program"
       /\ flash' = [flash EXCEPT !.data = program(a, v.word), !.state = "status"]
    \/ /\ flash.state = "bufcount"
       /\ flash' = [flash EXCEPT !.left = BufferWords(v.count), !.state = "bufdata"]
    \/ /\ flash.state = "bufdata"
       /\ flash' = [flash EXCEPT !.data = program(a, v.word), !.left = @ - 1,
                                 !.state = IF flash.left <= 1 THEN "status" ELSE @]
    \/ /\ flash.state = "erasesetup"
       /\ flash' = [flash EXCEPT !.data = IF v.command = "confirm" THEN Erased(a) ELSE @,
                                 !.state = "status"]
    \/ /\ flash.state \in {"array", "status"}
       /\ flash' = [flash EXCEPT !.state = CommandState(v.command)]

(* Anything but the array reads as ready.                                  *)
Ready == {0}
FlashRead(a) == IF flash.state = "array" THEN flash.data[a] ELSE Ready

Write(command, word, count) == [command |-> command, word |-> word, count |-> count]
Command(c) == Write(c, Bits, 0)

(* The driver's operations, as the writes they consist of.                 *)
WordProgram(a, p) == << <<a, Command("word")>>, <<a, Write("data", p, 0)>> >>
BufferProgram(a, p, q) ==
    << <<a, Command("buffer")>>, <<a, Write("data", Bits, 1)>>, <<a, Write("data", p, 0)>>,
       <<a + 1, Write("data", q, 0)>>, <<a, Command("confirm")>> >>
BlockErase(a) == << <<a, Command("erase")>>, <<a, Command("confirm")>> >>

StartFlash ==
    /\ flashdrv.todo = <<>> /\ flashdrv.ops < MaxFlashOps
    /\ \E a \in Addr, p \in Patterns, q \in Patterns :
          \/ flashdrv' = [todo |-> WordProgram(a, p), ops |-> flashdrv.ops + 1,
                          want |-> [flashdrv.want EXCEPT ![a] = @ \cap p]]
          \/ /\ a + 1 \in Addr
             /\ flashdrv' = [todo |-> BufferProgram(a, p, q), ops |-> flashdrv.ops + 1,
                             want |-> [flashdrv.want EXCEPT ![a] = @ \cap p,
                                                            ![a + 1] = @ \cap q]]
          \/ flashdrv' = [todo |-> BlockErase(a), ops |-> flashdrv.ops + 1,
                          want |-> [w \in Addr |-> IF w \in BlockOf(a) THEN Bits
                                                   ELSE flashdrv.want[w]]]
    /\ UNCHANGED <<flash, fwcfg, dma, ramfb, frame, uart>>

(* After the last write the driver polls until ready, then reads the array.*)
DriveFlash ==
    /\ flashdrv.todo # <<>>
    /\ FlashWrite(flashdrv.todo[1][1], flashdrv.todo[1][2])
    /\ flashdrv' = [flashdrv EXCEPT !.todo = Tail(@)]
    /\ UNCHANGED <<fwcfg, dma, ramfb, frame, uart>>

BackToArray ==
    /\ flashdrv.todo = <<>> /\ FlashRead(0) = Ready
    /\ FlashWrite(0, Command("readarray"))
    /\ UNCHANGED <<flashdrv, fwcfg, dma, ramfb, frame, uart>>

-----------------------------------------------------------------------------
(* fw_cfg and ramfb                                                        *)

item(s) == IF s = RamfbKey THEN fwcfg.ramfb ELSE IF s \in DOMAIN Items THEN Items[s] ELSE <<>>
ByteAt(data, i) == IF i < Len(data) THEN data[i + 1] ELSE 0

Selected(s) == [fwcfg EXCEPT !.selector = s, !.offset = 0]

(* The selector register, then the data register byte by byte.             *)
SelectRead ==
    /\ dma.count < MaxDMA
    /\ \E s \in DOMAIN Items, n \in 1 .. 2 :
          LET f == Selected(s) IN
          /\ fwcfg' = [f EXCEPT !.offset = @ + n]
          /\ dma' = [count |-> dma.count + 1, key |-> s, from |-> 0,
                     got |-> [i \in 1 .. n |-> ByteAt(item(s), f.offset + i - 1)]]
    /\ UNCHANGED <<flash, flashdrv, ramfb, frame, uart>>

(* A DMA descriptor may select, and then reads or skips.                   *)
DMARead ==
    /\ dma.count < MaxDMA
    /\ \E s \in DOMAIN Items, sel \in BOOLEAN, n \in 1 .. 3 :
          LET f == IF sel THEN Selected(s) ELSE fwcfg IN
          /\ fwcfg' = [f EXCEPT !.offset = @ + n]
          /\ dma' = [count |-> dma.count + 1, key |-> f.selector,
                     from |-> IF sel THEN 0 ELSE dma.from + Len(dma.got),
                     got |-> [i \in 1 .. n |-> ByteAt(item(f.selector), f.offset + i - 1)]]
    /\ UNCHANGED <<flash, flashdrv, ramfb, frame, uart>>

DMASkip ==
    /\ dma.count < MaxDMA
    /\ fwcfg' = [fwcfg EXCEPT !.offset = @ + 1]
    /\ dma' = [dma EXCEPT !.count = @ + 1, !.from = @ + Len(dma.got) + 1, !.got = <<>>]
    /\ UNCHANGED <<flash, flashdrv, ramfb, frame, uart>>

(* edk2 writes the whole configuration, and setConfig takes the mutex.     *)
DMAWrite ==
    /\ dma.count < MaxDMA /\ ramfb.owner = "none"
    /\ \E c \in 1 .. 2 :
          /\ fwcfg' = [Selected(RamfbKey) EXCEPT !.ramfb = <<c, c>>, !.offset = 2]
          /\ ramfb' = [ramfb EXCEPT !.owner = "guest", !.addr = c]
    /\ dma' = [dma EXCEPT !.count = @ + 1, !.key = RamfbKey, !.from = 2, !.got = <<>>]
    /\ UNCHANGED <<flash, flashdrv, frame, uart>>

SetConfigEnds ==
    /\ ramfb.owner = "guest"
    /\ ramfb' = [ramfb EXCEPT !.owner = "none", !.geometry = fwcfg.ramfb[2]]
    /\ UNCHANGED <<flash, flashdrv, fwcfg, dma, frame, uart>>

(* Faulty: the render loop copies the configuration without the mutex.     *)
SnapshotUnlocked ==
    /\ frame.pc = "idle" /\ frame' = [frame EXCEPT !.pc = "copy", !.addr = ramfb.addr]
    /\ UNCHANGED <<flash, flashdrv, fwcfg, dma, ramfb, uart>>

(* Every second the render loop copies the configuration, under the mutex. *)
Snapshot ==
    /\ frame.pc = "idle" /\ ramfb.owner = "none"
    /\ ramfb' = [ramfb EXCEPT !.owner = "render"]
    /\ frame' = [frame EXCEPT !.pc = "copy", !.addr = ramfb.addr]
    /\ UNCHANGED <<flash, flashdrv, fwcfg, dma, uart>>

SnapshotCopied ==
    /\ frame.pc = "copy"
    /\ ramfb' = [ramfb EXCEPT !.owner = IF @ = "render" THEN "none" ELSE @]
    /\ frame' = [frame EXCEPT !.pc = "draw", !.geometry = ramfb.geometry]
    /\ UNCHANGED <<flash, flashdrv, fwcfg, dma, uart>>

(* Nothing is drawn before a configuration was written.                    *)
Draw ==
    /\ frame.pc = "draw"
    /\ frame' = [frame EXCEPT !.pc = "idle",
                              !.drawn = IF frame.addr = 0 THEN @
                                        ELSE <<frame.addr, frame.geometry>>]
    /\ UNCHANGED <<flash, flashdrv, fwcfg, dma, ramfb, uart>>

-----------------------------------------------------------------------------
(* The serial port                                                         *)

Type ==
    /\ uart.typed < MaxKeys /\ uart' = [uart EXCEPT !.typed = @ + 1]
    /\ UNCHANGED <<flash, flashdrv, fwcfg, dma, ramfb, frame>>

(* pumpInput waits while the queue is full.                                *)
Pump ==
    /\ uart.pumped < uart.typed /\ Len(uart.queue) < InputCap
    /\ uart' = [uart EXCEPT !.pumped = @ + 1, !.queue = Append(@, uart.pumped + 1)]
    /\ UNCHANGED <<flash, flashdrv, fwcfg, dma, ramfb, frame>>

(* The guest polls the flag register and reads a byte when there is one.   *)
ReadKey ==
    /\ uart.queue # <<>>
    /\ uart' = [uart EXCEPT !.queue = Tail(@), !.read = Append(@, Head(uart.queue))]
    /\ UNCHANGED <<flash, flashdrv, fwcfg, dma, ramfb, frame>>

-----------------------------------------------------------------------------
Init ==
    /\ flash = [data |-> [a \in Addr |-> Bits], state |-> "array", left |-> 0]
    /\ flashdrv = [todo |-> <<>>, ops |-> 0, want |-> [a \in Addr |-> Bits]]
    /\ fwcfg = [selector |-> 0, offset |-> 0, ramfb |-> <<0, 0>>]
    /\ dma = [count |-> 0, key |-> 0, from |-> 0, got |-> <<>>]
    /\ ramfb = [owner |-> "none", addr |-> 0, geometry |-> 0]
    /\ frame = [pc |-> "idle", addr |-> 0, geometry |-> 0, drawn |-> <<0, 0>>]
    /\ uart = [typed |-> 0, pumped |-> 0, queue |-> <<>>, read |-> <<>>]

Flash == StartFlash \/ DriveFlash \/ BackToArray
Display ==
    SelectRead \/ DMARead \/ DMASkip \/ DMAWrite \/ SetConfigEnds \/ Snapshot
        \/ SnapshotCopied \/ Draw
Serial == Type \/ Pump \/ ReadKey

(* edk2 uses the flash, the display and the console at different times.    *)
Next ==
    \/ (dma.count = 0 /\ uart.typed = 0 /\ frame.pc = "idle") /\ Flash
    \/ (flashdrv.ops = 0 /\ uart.typed = 0) /\ Display
    \/ (flashdrv.ops = 0 /\ dma.count = 0 /\ frame.pc = "idle") /\ Serial

(* The goroutines go on, and the console polls.                            *)
Fairness == WF_fdvars(Pump) /\ WF_fdvars(ReadKey) /\ WF_fdvars(DriveFlash)
    /\ WF_fdvars(BackToArray)

Spec == Init /\ [][Next]_fdvars /\ Fairness

-----------------------------------------------------------------------------
TypeOK ==
    /\ \A a \in Addr : flash.data[a] \subseteq Bits
    /\ flash.left \in 0 .. 2 /\ (flash.state = "bufdata" => flash.left > 0)
    /\ fwcfg.selector \in DOMAIN Items \cup {RamfbKey, 0} /\ fwcfg.offset \in Nat
    /\ ramfb.owner \in {"none", "guest", "render"}
    /\ (frame.pc = "copy") = (ramfb.owner = "render")
    /\ Len(uart.queue) <= InputCap

(* When the driver is done the flash holds what was there with the bits of *)
(* the programmed words cleared, a block erased as a whole, and no word    *)
(* beside them changed; none of the protocol's writes is taken for data    *)
(* (cfiFlash.write).                                                       *)
FlashAsProgrammed ==
    flashdrv.todo = <<>> =>
        flash.data = flashdrv.want /\ flash.state \in {"array", "status"}

(* A transfer gives the selected item's bytes from where the one before it *)
(* ended, zeros past its end (processDMA, read).                           *)
ItemBytes ==
    \A i \in DOMAIN dma.got :
        dma.key \in DOMAIN Items => dma.got[i] = ByteAt(Items[dma.key], dma.from + i - 1)

(* A frame is drawn from one configuration, never the address of one and   *)
(* the geometry of another (setConfig, snapshot).                          *)
OneConfiguration == frame.drawn[1] = frame.drawn[2]

(* The guest reads the keys in the order in which they were typed, none of *)
(* them lost while the queue is full (pumpInput, pl011.read).              *)
KeysInOrder == \A i \in DOMAIN uart.read : uart.read[i] = i

(* Every key is read, and the flash comes back to its array (pumpInput,    *)
(* cfiFlash.read).                                                         *)
ConsoleAndFlashEnd ==
    []<>(Len(uart.read) = uart.typed \/ uart.typed < MaxKeys) /\ []<>(flash.state = "array")

(* The flash, the items, a frame and the keys are as the guest expects. *)
FWSafe ==
    /\ TypeOK
    /\ FlashAsProgrammed
    /\ ItemBytes
    /\ OneConfiguration
    /\ KeysInOrder
=============================================================================
