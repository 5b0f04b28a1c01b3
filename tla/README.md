# Undertow in TLA+

A verification development of Undertow, a packet monitor in Go: TLA+ modules
translated from `src/`, TLC configurations that check them on small instances,
and proofs that TLAPS checks for every value of the constants.

## The program

```
              live mode                                replay mode
  libpcap -> capture -> inChan -> workers -+      recording -> replay engine -+
                |       (drop when full)   |                    ^             |
             recorder                      v                   keys           v
                                        outChan -> aggregator goroutine <- outChan
                                                     |   owns statistics, detector,
                                                     |   baselines, stories
                                       publishedPtr  v   (atomic pointer)
              dashboard, headless loop, report, broadcast server
```

`cmd/undertow/main.go` starts one goroutine per stage and then runs the
dashboard or a headless loop.  A signal or the user's `q` ends that, the deferred
calls run, and the process is gone: **main waits for no goroutine**.

| component | state | operations | talks to | hard because | correct when |
|---|---|---|---|---|---|
| capture (`capture/capture.go`) | packet in hand, drop counter | receive, record, send without waiting, stop | handle, recorder, `inChan` | drops when the channel is full; closes it on two returns | every packet is recorded, then sent or counted as dropped; nothing is sent on a closed channel |
| recorder (`replay/recorder.go`) | open file | `WritePacket`, `Close` | capture, main | main closes it while the capture still runs | the file is what was captured, in order |
| worker pool (`decode/pool.go`) | a packet per worker | two nested selects, close behind the last worker | both channels | cancellation at any point; order between workers | a packet is passed on or thrown away by a cancellation only |
| aggregator (`aggregator/aggregator.go`) | statistics | count, two tickers, drain, save, last snapshot | `outChan`, `publishedPtr`, baseline file | cancellation while the workers wait for room | each packet counted once; the last snapshot has them all |
| statistics (`aggregator/stats.go`) | totals, talkers, flows, three rings | `AddPacket`, `TickSecond`, `PublishSnapshot` | detector, stories, baselines | many parts, published together | a snapshot is the statistics of one prefix of the traffic |
| ring buffer (`stats.go:40`) | items, head, size | `Push`, `Slice` | statistics | wrap-around | it is the window of the last items |
| detector (`anomaly/detect.go`) | ports per source, flagged flows | `CheckPacket` | statistics | lazily pruned lists, reset by an alert | alerts as defined over the whole traffic |
| stories (`narrative/story.go`) | capped timelines | record, narrate | statistics, dashboard | eviction; shared with the readers of a snapshot | the narrative is true of the host |
| baselines (`baseline/baseline.go`) | mean and variance per host, a file | observe, save, load | aggregator | numerical edges; a save is no atomic step | a lasting rate is one alert; a start uses a completed save or none |
| replay engine (`replay/replay.go`) | position, pause, speed | play, pause, seek, step | keys, `outChan` | the keys race the playback | a pause holds, a seek is not undone |
| dashboard (`ui/dashboard.go`) | modals, filter, selection | keys, repaint, questions to the AI | handle, snapshot, tracker, AI client | three kinds of goroutine around one event loop | what is shown is so; it stops when told |
| process tracker (`process/tracker.go`) | owner per port | `Refresh`, look-ups | the operating system | sockets come and go between its reads | no process is blamed for a port it had nothing to do with |
| decoder (`decode/decode.go`) | none | `DecodePacket`, a cascade over the layers | fingerprints, threat lists | renames protocols that later rules look at | a probe is counted as one, a mark has its reason |
| JA3 and JA4 (`tls/ja3.go`, `decode/ja4.go`) | none | a walk over the bytes of a ClientHello, in two copies | decoder | lengths inside lengths, of bytes cut anywhere | the fingerprint is of what the client said, or there is none; no hello ends the program |
| threat lists (`security/threat.go`) | addresses, blocks, domains | load, match | main, decoder | a feed of the user's is added or not | a listed indicator is found |
| broadcast server (`remote/server.go`) | one handler per connection | `Start` and its shutdown goroutine, `handleStream` | `publishedPtr`, browsers | viewers never leave on their own, reconnect; some snapshots cannot be encoded | a viewer never goes back and does not stay behind; the shutdown ends |
| AI client, webhook sender | none | one request; one post per alert | network | time-outs, lost posts | every question gets an answer |
| diff, topology, report, panels | none | functions of one or two snapshots | | formats | |

`PROJECT.json` has the same list with sources and status, and the hazards, each at
the line where it bites.

## The modules

| module | models | state and actions |
|---|---|---|
| `Capture`, `WorkerPool`, `Aggregator` | the three goroutines of live mode | one action per statement at which another goroutine may come in between: a branch of a `select`, a send, a return.  A Go channel is a sequence of at most `BufSize` with a closed flag |
| `Pipeline` | `main` and the composition of the three (`INSTANCE`) | `MainStop` ... `MainReturn` are the exit path, deferred calls in their order; after `exited` no goroutine takes a step |
| `Ledger` | what live mode promises: packets arrive, and each is counted, dropped, or thrown away after the stop; totals are published | abstract; `Pipeline` implements it under the mapping at the end of that module |
| `RingBuffer`, `Window` | `RingBuffer[T]`, slot by slot, and the promise that it is the last `Capacity` items | `RingBuffer` implements `Window` with `Slice` as the mapping |
| `Decode` | `DecodePacket` with the threat engine, as main sets it up before the workers start | a packet is a record of the layers gopacket found; loading a feed, failing to, starting, taking a packet (and panicking, which ends the program) and handing it on are the actions |
| `ClientHello`, `TlsHello` | the walk over the bytes of a hello with its bounds checks, the byte that is read behind a list of odd length, the panic where there is none, GREASE, counts and sorting; and what a client says, laid out as RFC 8446 does, with the fingerprints defined on it | pure operators; the walk is a recursive function of the round.  The first is translated from the code, the second is the definition it is compared with |
| `Stats`, `Detector`, `Story` | `StatsManager` with all that `AddPacket`, `TickSecond` and `PublishSnapshot` call | these run in one goroutine, so one action is one whole call.  Rings are windows, as `RingBuffer` justifies (`RingsAreKeepLast`); the port list of a source is a set, since only its different ports are asked for.  Packets have the time of their capture, in any order; a tick raises up to two alerts per host, with the time of the wall clock |
| `Baseline` | `ObserveHost`, save, crash, load | means and variances are exact fractions, kept as integers with the `unit` they are parts of; a save is two steps, `os.WriteFile` truncating first |
| `Replay` | replay engine, replay keys, exit; the same `Aggregator` module with an empty drop counter | the mutex guards the position, so pick and send are two steps |
| `Dashboard` | event loop from before it has a screen, modals, filter, AI questions, repaint goroutine | the repaint reads snapshot and selection in two steps and draws in a third |
| `Tracker` | `Refresh` on Linux as one step per table and per process, on Windows and macOS from the output of one command; each of these reads may fail | sockets with both their ports, processes and the clock are the environment |
| `Remote` | `remote.Server`, the browsers and the exit of main | a handler reads the snapshot, skips one it cannot encode, and writes it to its connection in two steps; connections may be lost at any time, with what is under way on them |
| `MC*` | the small instances | |
| `PipelineProofs`, `StatsProofs`, `DecodeProofs`, `RemoteProofs`, `ReplayProofs`, `BaselineProofs`, `DashboardProofs` | theorems and proofs; those of `RingBuffer` are in `StatsProofs`, which uses them, and those of `Tracker`, the model behind a panel, in `DashboardProofs` | |
| `SequenceLemmas` | what `FlattenSeq` does, where the parts of a flattened sequence lie, that a recursive function exists and is unique; used by `StatsProofs` and `DecodeProofs` | |

An operator introduced by "Mutant of X" is X with a plausible bug: with it in
place of X the run named in `PROJECT.json` reports a violation.  History variables,
marked so, record what the code does not and never guard an action.

## The runs

| run | instance | question |
|---|---|---|
| `pipeline` | 3 packets, 2 slots, 2 workers, recording, dashboard, report | Is each packet in exactly one place and accounted for once?  Do losses come from shutdown alone, is no closed channel written to, is the last snapshot complete?  How far do workers overtake each other?  Is the recording faithful although it is closed under the capture?  Does it implement the ledger?  Does the drain end, does no packet get stuck, does the snapshot catch up? |
| `pipeline_baseline` | 1 packet | (violation) Is the baseline saved on shutdown? |
| `ring` | 4 slots, 3 items | Is the ring the window of the last four items? |
| `stats` | 3 packets of 6 shapes at 2 times in any order, 2 ticks, rings and timelines of 1 and 2, one host that deviates up to twice in a tick | Is a snapshot one prefix, with the alerts of that prefix?  Does each byte fall in one second?  Do the port scan and large transfer rules agree with their definitions over the whole traffic?  Is a timeline the last events of its host? |
| `decode` | packets of every protocol the decoder tells apart; some 1200 hellos, each whole, cut or followed by more; records with lists of odd length; a built-in list, a feed and a broken feed | Are the fingerprints those of what the client said, and does no hello end the program?  Is every probe counted as one?  Is a packet marked exactly when an indicator is listed? |
| `remote` | 2 browsers, 3 connections, 3 snapshots of which one cannot be encoded, 1 message under way | Does a viewer never go back, does it catch up, also after that one, does the shutdown end under viewers that stay? |
| `baseline` | 1 host, 4 rates, 4 samples, 2 runs, crashes, disk failures | Is a lasting rate reported once?  Does a start take a completed save or nothing? |
| `baseline_burst` | 1 host, steady then burst | (violation) Is the burst flagged that `baseline_test.go` demands? |
| `tracker` | Linux, Windows and macOS, 2 ports, 2 processes, 2 sockets of TCP over both IPs or UDP, one process unreadable, failing reads | Is an entry always of a process that had the port, on macOS at either end?  Does an undisturbed refresh find every owner it may see? |
| `dashboard` | 2 hosts, a good, a bad, an empty and a blank filter, 2 questions, 1 snapshot | Is the shown filter in effect, is one modal open at most, is every question answered, does a cancellation end it? |
| `replay` | 4 packets, 2 keys, 1 slot, disk may fail | Do pause and seek hold against the engine, is all that was played counted, does it end? |
| `replay_step` | 2 packets, 1 key | (violation) Does stepping work wherever the playback is? |

**Bounds.**  Three packets over channels of two slots with two workers fill a
channel and drop at it (the workers need not take anything), overtake, wait for room, and leave packets
in both channels at the exit.  Rings and timelines have one or two places so that three packets evict, and the alerts of one
tick do.  The scan window is one second and its threshold two ports, so that two times are enough to be inside it, exactly as
old as it, and before the latest packet.  Four
samples put two flagged ones behind a learned mean.  Two sockets on two ports use one port again
for another process, put TCP and UDP on one port, and are both ends of one connection.  Two keys are a seek in a
pause, a pause after a seek, and two seeks around one pick.  Three connections let one browser
reconnect twice, or both once between them, and a write wait behind a full connection.  The hellos
have up to three extensions of eight kinds in every order, among them each kind the code reads, GREASE in
the lists, and counts around the cap (2 here); the odd lists end with the packet, with the record, or behind it.  Workers and ports are
symmetric where no liveness is checked.

**Fairness.**  A goroutine that can step does in the end, and a ready branch of a
`select` is taken in the end since Go chooses among the ready ones at random.  Hence weak
fairness of each stage, of the start of the dashboard, separately of the branches of the aggregator's `select`,
and strong fairness of the repaint goroutine's `ctx.Done()` branch, which is ready
again and again but not all the time.  An AI request ends by its client's
time-out.  In `Remote` ticks and the limit of two seconds come, and a connection that is not lost passes
on what was written to it; nothing makes a browser connect.  No fairness is assumed of packets, signals, keys, or `main`.

**Deadlock** is checked in `Pipeline` and `Replay` (whose only stop is the end of the process,
a stuttering action), `RingBuffer` and `Stats` (where publishing is always possible).
It is off in the other five, where the bounds, the end of the dashboard, or the panic of a worker, which ends the program, stop the model.

## What is proved

For any number of packets, workers and slots, from `PipelineAssumption` (channels
have a slot, there are workers, finitely many) and nothing else:

* `TypeCorrect`, by the type invariant itself, one lemma per goroutine.
* `PacketsAreExactlyOnce`.  `ExactlyOnce` is inductive with `TypeOK`: each action moves one packet
  from one place to another, and the lemmas say what `Append` and `Tail` do to the
  set of elements and the absence of repetitions.
* `PipelineImplementsLedger`: each step of a goroutine maps to the ledger's step or a
  stutter, with `ExactlyOnce` to know that the packet moved was pending.
* `StagesStopInOrder`: the invariant `ShutdownOrder`, needed because "nobody sends on a
  closed channel" is not inductive.  A stage ends only behind the one before it or
  after the cancellation, and a channel is closed exactly when its senders are gone.
* `ShutdownIsSafe` (`NoSendOnClosed`, `LostOnlyByShutdown`) and `EndIsComplete`
  (`CompleteAtEnd`), from `ShutdownOrder` and the two before.
* `SnapshotIsHonest` and `TotalsNeverGoBack`: the aggregator replaces the total by one that
  only grows, and publishes it; the drop counter is added to only.

* `RecordingIsFaithful`, by `RecordingOrder`: the file is ascending, holds nothing newer than the
  packet in the hand of the capture, and all up to that one while it is open and the disk works.
* `OvertakingIsBounded`, by `InOrder`: the queue into the pool is ascending and comes after all
  that the workers took from it, and one worker at least is not behind: it holds
  nothing, or what is newer than all that was passed on.  With one worker the order is kept.
* `LossNeedsShutdown`, the other half of `ShutdownIsSafe` as a theorem of its own.

For any number of browsers, connections and snapshots, and any capacity of a connection:

* `ViewersNeverGoBack`.  The invariant lines up what a connection holds, from the browser back to the
  aggregator: shown, on the wire, in the hands of the handler, published (`StreamInv`); and
  a connection has one viewer, so the handlers of lost connections write for nobody.

For any hosts, traffic, thresholds and capacities of rings and timelines (`StatsAssumption`), in `StatsProofs`:

* `TypeCorrect`, in particular that no timeline exceeds its cap.
* `AlwaysCounted`, then `SnapshotsAreOnePrefix`.  `Counted` says of every counter that it is the sum
  or the count over all packets so far; the step lemmas say what one more packet adds to each.  `SnapshotOK` says the same of
  what was published, and of the prefix it was published at.
* `EveryByteInOneSecond`, by `TicksOK` and `RollsOK`: the ring is the last of the sums between two ticks, and the bucket
  what came since the last.
* `AlertsAlwaysHold`, then `SnapshotsShowAlerts`: the ring of alerts holds the newest of the history of all
  alerts, before and after each of the up to three events of a packet and the deviations of a tick, any number of them per host.
* `TransfersReportedOnce`, by `FlagsOK` and `TransfersOK`: a flow is flagged exactly when its bytes have reached the threshold.
* `ScansFoundExactly`, by `TrackOK`: the port list of a source, pruned only when its next packet comes, holds exactly
  its packets since its last alert that were inside the window of each later one.  Nothing is assumed of the order of packet times, which
  workers that overtake each other, and seeks, disturb.  What such a window is worth when times go back is another matter; see
  `ScanWithinWindow` under Divergences.
* `StoriesAreWindows`, by `StoryTold`: the timeline of a host, seen as kinds and times, is the last of its `Milestones`, read off
  the traffic and the history of alerts: of each packet what it did, then the alerts against the host until the next came.  Adding events one
  by one and evicting from the front (`AddEvents`) is keeping the last of the concatenation, and a packet or an alert adds to the end of the milestones.
* `RingTypeCorrect`, `RingImplementsWindow`: a ring of any capacity over any items is a window.  The invariant relates `head` and `size` to the history
  (`size < Capacity` means that the ring has not wrapped and `head = size`); the proof
  splits on full or not, and on where the head wraps.  `RingsAreKeepLast` adds that a push is what `Stats` writes for it.

Sums and concatenations over the traffic are recursive functions.  The library's induction theorems
cannot be used with the provers at hand, so statements about all numbers are proved by contradiction from the least
counterexample (lemmas `Least` and `Induction`), which rest on `NatLessThanWellFounded` and `WFMin` of `WellFoundedInduction`.  That such a
function exists and is the only one that meets its equation is proved on the way; `FlattenSeq` is handled by the
running concatenations it is made of (`Joins`).

For any traffic, lists and feeds (from `DecodeAssumption`: a DNS layer is the application layer of its packet, an IP header has
a source, the text of an address has no blanks and is in the blocks the address is in), in `DecodeProofs`:

* `ProbesAlwaysCounted` and `IndicatorsAlwaysRaiseAlert`, both from `AlwaysDecoded`: the engine is the
  union of the feeds and does not change once the workers run, so what a worker holds
  is what the decoder makes of its packet with all lists.  Then the cascade is followed: nothing but a DNS layer or a payload renames a
  protocol, and a name or the text of an address matches exactly when some feed has it, and an address by a block exactly when it is in one that
  parsed.  A broken feed changes nothing.
* `HellosAreExact`: the walk over the bytes of a hello finds what the client said, with lists of any length and any
  number of extensions in any order.  The argument:
  * `Lies(s, h, p)`: the sequence s is in h behind position p.  What is concatenated lies side by side, and what is
    flattened lies at running sums (`LiesConcat`, `LiesFlatten`); so each field of the layout lies at its place (`BytesShape`) and
    the walk reads its length and its numbers there (`FieldsFound`).
  * Round k of the walk begins where extension k lies, for the k extensions there are, and stays at the end for all
    later rounds (`WalkExact`, by induction over the rounds); hence the walk yields these extensions with their
    data, all read (`ExtensionsExact`), and each reader gets out of the data what the client put in (`LongListRead` and its like).
  * At most one extension is of a type, so what is gathered from all of them is the list of that one (`GatheredOne`).
  * `Sorted` puts each number at its rank; ranks grow strictly along the order "smaller, or equal and not after", so
    they are a permutation of the places, which keeps how often a number occurs (`RankPlaces`, `SortedExact`).
  * With any of its bytes missing the record is longer than the body, and the code returns before the walk (`CutSegment`).

  * A hello has lists of even length only, so nothing is read behind a list and nothing panics (`NothingOverruns`).

  `HelloAssumption` only says what a record is: a segment of TCP that is no DNS and that has no line "Host:".  The packets may
  hold records with any bytes, well-formed or not; the property speaks of those that are what a client said, cut or followed by more
  (`IsOfHello`).  `IsHello` is what a client may say: a version from TLS 1.0 to 1.3, at most one extension of a type
  (RFC 8446, 4.2), no protocol without a name (RFC 7301), and no number that only looks like GREASE, where the code differs
  (`GREASEIsExact` under Divergences).  The JA4 it compares with (`IsJA4`) has the parts `src/README.md` documents, which are
  not in every detail those of FoxIO's JA4 (`IsCanonicalJA4`, and `JA4IsCanonical` under Divergences).
  That a number fits the bytes it is written to is not needed: `Two` of a larger one is read back all the same, so the theorem covers
  more hellos than there are.

For a replay of any recording with at least one packet (`ReplayAssumption`):

* `TypeCorrect`; in particular the channel is closed exactly when the engine has returned.
* `PauseIsKept`.  The engine picks a packet under the mutex and sends it after, so the
  invariant adds that a packet waiting to be sent in a pause means that none was sent since.
* `SeekIsKept`: the property is inductive with the types of its history.
* `AllPlayedIsCounted`: the drain of the aggregator ends only on an empty closed channel.

Of the others:

* `StartsFromASave` (`Baseline`): a file that can be read holds what was written by a completed
  save, so the baselines a start loads were the program's own.
* `LastingRatesFlaggedOnce` (`Baseline`), for any smoothing factor A/B and K with A/B >= 1/(1+K²), which the defaults
  0.1 and 3.0 meet with equality.  `LastingRateFlaggedOnce` is not inductive; `FlaggedIsAbsorbed` adds what the sample did to the
  baseline: after a deviation d the mean is (1-A/B)d away and the variance at least A/B(1-A/B)d², hence
  (1-A/B)²d² <= K²A/B(1-A/B)d², and the same rate is within K standard deviations.
* `NothingIsInvented` (`Tracker`), by induction on what was remembered: every entry of the map names a process that had a
  socket with that port at its own end or, on macOS only, at the other (`EntriesAreLocal` under Divergences).
* `OwnersAreFound` (`Tracker`), by `Progress`: what a refresh has gathered when it reaches each table and process, as long as
  no socket comes or goes and no read fails, and that a port whose entry was overwritten went to another visible socket of that port.
* `ShownFilterIsReal` (`Dashboard`), for filters that are neither empty, white space nor refused: the first is shown as "None", the second
  as a filter without being one (`ShownMeansInstalled` under Divergences).
* `TypeCorrect` (`Dashboard`), by `Orderly`: at most one modal is open, and since hosts are never
  taken out of the talkers no empty table follows another, so the selection stays within the table on screen.

**Only model-checked:** liveness, nine properties of the runs, which the provers do not do.  Every invariant and every
safety property of a step that a passing run checks is a theorem as well.

## Divergences

Three are runs of their own (`expect: violation`), and TLC shows the trace:

* **Stepping at the end panics** (`StepAlwaysWorks`).  After the last packet `currentIndex` is
  `len(packets)`, and `StepSec` indexes with it (`replay.go:146`).
* **The baseline may not be saved** (`BaselineSavedOnShutdown`).  `main` returns while the
  aggregator is still draining or writing; with the file truncated, the old baselines are gone too.
* **A burst after steady traffic is missed** (`BurstIsFlagged`).  The variance is 0 and a
  deviation of at most 1 is never compared (`baseline.go:98`);
  `baseline_test.go:38` demands the alert of just such a host.

The models also refute the following statements of the documentation.  Each is
stated in its module and named in a configuration (`tlc -config <cfg>
<module>` prints the trace of the first that it refutes; take that one out for
the next); the runs of the project do not depend on them.

| property, configuration | the code | says otherwise |
|---|---|---|
| `CaptureOrder`, `MCPipelineGaps.cfg` | two workers overtake each other, so the rings are not in capture order | `stats.go:74` |
| `ReportComplete`, `MCPipelineGaps.cfg` | the report is made from an older snapshot while packets are still being counted | `main.go:103` |
| `ScanWithinWindow`, `MCStatsRewind.cfg` | when packet times go back, after a seek or because one worker overtook another, ports of later packets count in the window | `detect.go:85` |
| `SnapshotStoryFixed`, `MCStatsStory.cfg` | a snapshot shares the live story tracker | `stats.go:30` |
| `RateIsPerSecond`, `MCStatsRate.cfg` | `ObserveHost` gets the totals of the session as a rate | `baseline.go:103` |
| `NarrativeTruthful`, `MCStatsNarrative.cfg` | the cap evicts alerts, and the narrative denies them | `story.go:234` |
| `RedactionComplete`, `MCStatsRedact.cfg` | the details of alerts in a redacted narrative name addresses in full | `main.go:98` |
| `MalwareRaisesAlert`, `MCDecodeGaps.cfg` | the label "Evilginx Phishing Toolkit" has none of the words looked for, so that tool raises no alert | `src/README.md:60` |
| `GREASEIsExact`, `MCDecodeGaps.cfg` | the mask ignores half of each byte, so 0x0A1A and 239 other numbers are left out as GREASE | `ja3.go:28` |
| `CountedPortsAreReal`, `MCDecodeGaps.cfg` | fragments after the first have no ports and count as port 0 | `detect.go:85` |
| `NeverPanics`, `MCDecodeGaps.cfg` | a list of odd length that ends with the packet is read beyond it, which panics (`ja3.go:85`, `ja4.go:94`) | `decode.go:26` |
| `JA4IsCanonical`, `MCDecodeGaps.cfg` | the digest of the extensions takes SNI and ALPN in, and the version is the hello's own unless TLS 1.3 is offered, not the highest offered | `ja4.go:38` |
| `TestedHelloHasPrint`, `MCDecodeGaps.cfg` | the hello of the test declares 50 bytes and has 47, and has no fingerprint | `ja4_test.go:26` |
| `EverySpellingRaisesAlert`, `MCDecodeGaps.cfg` | addresses of a feed are compared as texts, so another spelling of one is not found | `src/README.md:76` |
| `WarmupHolds`, `MCBaselineWarmup.cfg` | thirty samples, earlier runs included, end the warm-up | `baseline.go:29` |
| `MatrixIsActive`, `MCTrackerGaps.cfg` | entries of closed sockets stay | `tracker.go:248` |
| `ResolvesLocalPort`, `MCTrackerGaps.cfg` | the remote port is looked up first | `tracker.go:47` |
| `EntriesAreLocal`, `MCTrackerGaps.cfg` | macOS enters a connection under the port of the other end (`tracker.go:231`) | `tracker.go:25` |
| `EnteredFilterApplies`, `MCDashboardGaps.cfg` | an empty filter is accepted and not applied | `dashboard.go:137` |
| `ShownMeansInstalled`, `MCDashboardGaps.cfg` | an expression of white space is trimmed, accepted and not installed, and shown as a filter | `topbar.go:43` |
| `CancellationEndsDashboard`, `MCDashboardGaps.cfg` | a cancellation before the loop has a screen stops nothing, and the goroutine that would repeat it is gone | `main.go:124` |
| `StoryIsOfSelected`, `MCDashboardGaps.cfg` | the selection is read before the table is redrawn | `src/README.md:194` |
| `PromptIsAboutOneHost`, `MCDashboardGaps.cfg` | the prompt names one host and tells the story of another | `ollama.go:64` |
| `ChannelClosesAtTheEnd`, `MCReplayClose.cfg` | the channel stays open when the recording has been played | `replay_test.go:63` |

## Not modelled

* Packets are given to `Decode` as the layers gopacket found in them, and to the statistics as the few
  fields that these tell apart.  gopacket's own layer for a well-known port, such as TLS on 443, hands over no
  payload, so a hello there gets no fingerprint; nor does one split over two records.  `HelloExact` claims
  neither.  The buffer of a packet is taken to end with its segment; with bytes behind it, such as the
  padding of a short frame, an odd list takes its last byte from there and does not panic.
* At this commit `decode.go`, `packetlog.go` and `dashboard.go` lack imports or use undeclared names
  and types and do not compile; the models take what the code plainly says.
* libpcap (a handle that is read and given a filter at the same time), tview's drawing, floating-point rounding,
  packet delays in a replay, the texts of narratives, prompts and reports.
* The webhook sender: one request per alert in a goroutine of its own, with a time-out, no retry, and nobody
  waiting for it.  It has no state, and nothing is promised of it that could fail.
* Diff, topology, report and panels are pure functions of one or two snapshots, the process resolver
  an earlier copy of the tracker that only its own test uses.  The 26 aliases of redacted addresses, and
  the map they are kept in, written under a read lock, are left out of `Story`.

## The plan

1. Live pipeline with its exit and its ledger; ring buffer and window. *Done, proved.*
2. Statistics with detector and stories; baselines with their file; replay mode;
   tracker; dashboard. *Done, model-checked; safety proved.*
3. Broadcast server; decoder, fingerprints and threat lists; redaction; the order of the packets and
   the recording. *Done, proved.*
4. Statistics with detector and stories, rings in the statistics, lasting rates, owners of ports, probes and
   indicators. *Done, proved.*
5. Fingerprints: the fields before the extensions, cut hellos, the list of extensions, sorting. *Done, proved.*
6. Lists of odd length, texts of addresses, filters of white space, both ends of a connection, disorder of packet
   times, deviations of two metrics, snapshots that cannot be encoded. *Done, proved.*
7. Open: `Diff` against its definition on sets, and hellos that say what `IsHello` excludes, such as two extensions of a type.
