# go-mokkit in TLA+

go-mokkit lets a Go test read as a scenario. A `Setup` holds containers; a test enters a `Stage` over
them, drives it with chains of steps, and the stage is closed by the test's cleanup. This directory
models the parts of the library that decide something while other things happen, checks them with TLC,
and proves most of what is checked for every value of the constants with TLAPS.

Run `tlc -config <run>.cfg <module>.tla` for a run of the table below, and `tlapm <module>.tla` for the
proofs in each module whose name ends in `Proofs`. Line numbers are those of the repository's files.

## 1. The system

| component | code | state | operations |
|---|---|---|---|
| bag scopes | `container/bag/bag.go` | `entries`, each with a lock, a value and `built`; `closers`, `closed` | `TryResolveType(Path)`, `Close`; `pathResolver` for factories |
| bag builder | `container/bag/bag.go` | `regs`, `built` | `Instance`, `Scoped`, `Fresh`, `Alias`, `Registered`, `Build` |
| stage: resolution | `stage.go`, `resolve.go` | `cache`, `scopes`, `closed` under `mu` | `TryResolveTypePath`, `Close` |
| setup and stage: lifecycle | `stage.go`, `observer.go`, `fixture.go` | `containers`, `observers`; a stage's `scopes`, `closed` | `Observe`, `EnterStage(Context)`, `Close` |
| chains | `chain.go` | phase, fail mode | `Add`, `And`, `All`, `Group`, `WithContext` |
| verbs | `do.go` | none of their own | `Do`, `Get`, `Try`, `Attempt` and their `As` forms |
| executor | `executor.go`, `step.go` | none | `Run`, which turns a panic into an error |
| observers | `observer.go` | the observer's | `StageEntered`, `StepRan`, `StageClosed` |
| tokens | `token.go` | `slots` under `mu` | `New`, `Of`, `Ref`, `Declared` |
| allure reporter | `report/allure/allure.go` | `inflight`, `errs` under `mu`; the results directory | the three observer calls, `Err` |
| mock containers | `container/mokkit{gomock,mockery,minimock}` | `regs`, `seen`, `built`; a scope's items; mockery's `reporter` and `collectingT` | `Add`, `Registered`, `Build`, `BeginScope`, `Satisfied` |
| DI adapters | `container/mokkit{dig,do}` | what the DI library has built | `Provide`, `Expose`, `Bridge`, `FromStage`, `TryResolveType`, `Close` |

How they meet:

* A step asks the stage for a service; the stage asks its scopes in order; a bag's factory, or a DI
  constructor over its bridge, asks the stage again from within. All of it happens on as many
  goroutines as `All` has branches.
* A chain hands a step to the executor, tells the observers how it ended, and only then fails the
  test. `Fatalf` ends the goroutine, and testing runs the cleanups, last registered first.
* `Stage.Close` is one of those cleanups. It may also be called by the test, or by `EnterStage` on a
  stage that did not open, and nothing stops it from running while a stray goroutine still resolves.
* The mock containers leave their check with the test when a scope is opened, before `EnterStage`
  registers `Close`, so that it runs after.

What is hard: single-flight construction with locks held across calls into other containers; cycles
through those locks; a panic with several of them held; a snapshot resolved from after the stage has
moved on; a Goexit where an error was expected; failures half-way through opening or closing; stages of
several tests on one reporter. `PROJECT.json` lists these hazards, each at its line.

What makes each correct: one instance per registration and stage, handed to everybody; every lock given
back; every resolution answered; each closer closed once, dependents first (bag, stage). Everything
opened is closed, once, newest first, before expectations are checked (lifecycle). `All` joins, a fast
chain stops, a soft one reports everything, no failure misses the verdict (chains). One sink per role
(tokens). One result per stage, telling that stage's steps, none missing unnoticed (reporter). One mock
per registration, reached by both its keys (mock containers).

## 2. The modules

`Resolution` - the core. A goroutine is its call stack, one frame for each Go call in progress; `at` is
the place the call has reached. An action is the code between two points where another goroutine can
interfere: `Cached`, `Snapshot`, `Scan`, `Remember` are the four parts of `Stage.TryResolveTypePath`;
`Resolve`, `EntryFor`, `LockBuilt`/`LockAndBuild`, `FactoryAsks`, `FactoryGets`, `FactoryReturns` are
`scope.resolve` from its first look at the registrations to the deferred `Unlock`; `Unwind` is a panic
leaving one call; `CloseStage`, `CloseScope`, `CloseInstance` are `Stage.Close`, down to one closer. The
composition is a constant, `Regs`, with what a bag's builder enforces as its assumption. Two
abstractions: the construction path is a set (its order shows only in the text of a `CycleError`), and
the entries, which `entryFor` makes on demand, are there from the start.

`Registry` - the abstract specification: what a stage promises about services, with no locks, cache or
paths. An instance is created once; callers asking for a type are all given one instance; each closer's
turn comes at most once, and nothing that stands on an instance is still waiting when it goes.
`Resolution` implements it by the mapping in `Promise`: `owned` is `entry`, `handed` the stage's answers,
`due` the closers taken by the Close in progress and `freed` those closed.

`Chain` - a test's goroutine and the branches of an `All`, each step ending in success, an error, a
panic or a Goexit, under either fail mode; what is observed, what reported, what the verbs hand back,
what the stage closes with. `WithContext` changes the context of the steps from there on.

`Lifecycle` - tests on one setup: scopes opened one by one, each opening, failing or ending the
goroutine; a fixture's `Enter` that gets no setup; the test's cleanups; `Close`; the mock containers'
checks.

`Tokens` - calls of `New`, `Of`, `Ref` and `Declared` under the registry's mutex, and the store through
`New`'s sink outside it. `Fatalf` ends the goroutine, or returns where the `TB` is a fake.

`Allure` - the reporter fed by several stages at once; the two critical sections of `StageClosed` and
the write of the file, in two steps, between them, with the binary dying at any moment.

`Builders` - writing a composition down: registrations on builders of every kind (a mock builder takes
two types at once, a bag one, a DI builder one or none), the panics that leave a builder half-marked,
`NewSetup` building one builder after the other and failing part-way, stages entered from what it
returned. It says which registration a type leads to; what a bag or a DI scope then makes of it is in
`Resolution` and `Bridges`.

`Expectations` extends it by one test over a stage with testify mocks: expectations declared, calls from
the test and from a goroutine the subject left behind, `Satisfied` asking mock after mock, the checks at
cleanup, and the reporter that ties `FAIL` lines to the next `Errorf`. testify's `Mock` is not code of
the repository: that it asserts, and reports an unexpected call, under its own lock is taken from how
the adapter uses it.

`Labels` - two pure algorithms, as operators: the name a step takes from its verb's frame, and the frames
kept of a panic's stack. `MCChain` compares both with what they are to find, for symbols and stacks put
together from their parts.

`Bridges` - a composition of bag, dig and do scopes: who carries the path, who holds a lock while it
builds, and what a bridge hands over. It has the frames of `Resolution` at a coarser grain and a stage
that stays open. What dig and do lock is not code of the repository; it is taken from how the adapters
use them: a do provider runs at most once per stage, dig is given no lock. Two goroutines may therefore
be in one dig scope; `crowded` records it, and what comes of it in the model is a second instance. That
Go's runtime may also abort on concurrent map writes is left out.

`MCResolution`, `MCChain`, `MCLifecycle`, `MCExpectations` and `MCBridges` give the compositions, types,
labels and symmetry that the runs use. The theorems are in `ResolutionProofs`, `RegistryProofs` (which
extends it), `ChainProofs`, `LifecycleProofs`, `TokensProofs`, `AllureProofs`, `BuildersProofs` (for
`Builders` and `Expectations`) and `BridgesProofs`.

Operators named `Bug...` are plausible mistakes, one for each property, that TLC was shown to find when
they take the place of the action they resemble. No next-state relation uses them.

## 3. The runs

| run | what it shows | bounds |
|---|---|---|
| `resolution_layered` | single-flight, locks given back, agreement, closing once and in order, every resolve answered, `Registry` implemented | 2 goroutines, 1 resolution each, 5 types in 2 bags, a panicking factory, `Close` at any moment |
| `resolution_cycle` | a goroutine never waits for itself, on a cycle through an alias and across bags, and never stops | 1 goroutine, 3 resolutions |
| `resolution_orphan` | *refuted:* closers are closed when the stage ends | as `resolution_layered` |
| `chain` | joining, stopping, reporting, observing, verdict, what verbs return; names and stacks | 2 operations, `All` of 2, `Group` of 2; 72 shapes of verb by 4 entries and 2 roles; stacks of up to 11 frames, buffers of 4 and 7 |
| `chain_unobserved` | *refuted:* every step that ran is observed | 1 operation suffices |
| `lifecycle` | everything closed once, newest first, before the checks; errors and audience | 2 tests, 2 stages, 2 containers, 1 observer |
| `lifecycle_verdict` | *refuted:* a stage closes with the test's verdict | 1 test, 1 stage |
| `tokens` | one sink per role, stored values stay, nobody locked out | 2 goroutines, 2 calls each, 2 roles |
| `allure` | one result per stage, of its steps, none missing unnoticed | 2 stages, 2 steps each, 1 or 2 test names |
| `mocks` | which registration a type leads to, one mock for each; `Satisfied`; missing calls named | 2 builders of any kind, 3 registrations over 2 interfaces and their mocks, 2 `NewSetup`s, 2 stages; then a test on 1 or 2 mocks with 2 expectations each and a stray goroutine |
| `bridges` | one instance across bag, dig and do; every resolve answered | 2 goroutines, 1 resolution each, 10 types |
| `bridges_cycle` | *refuted:* a cycle that crosses containers is reported | 1 goroutine, 1 resolution |

Why these bounds are enough. In resolution, a race needs two goroutines at one entry and a third actor,
`Close`, which is always there; `Layered` has a closer over a closer inside a bag, a factory reaching
across bags through an alias, a type that the stage and a bag answer differently, one nobody has, and a
factory that panics under two held locks; what goes beyond two goroutines the theorems cover. A chain's
properties speak of two steps at most: the one that failed and a later one, or two branches. A stage's
speak of two scopes; two stages meet when one test enters twice or two tests share the setup. Two calls
for each of two goroutines produce, lose and read a role in every order. A cycle in `Bridges` needs one
bag and one bridge. `MaxAsks`, `MaxOps`, `MaxBranches`, `MaxBodies`, `MaxContainers`, `MaxStages`,
`MaxCalls`, `MaxSteps`, `MaxAdds`, `MaxSetups` and `MaxExpected` are the only bounds on counters. In
`mocks`, three registrations on one builder are what it takes for a key to be taken, lost to a panic and
tried again; two calls of `NewSetup` share a builder, and two stages a setup. A test is followed beyond
`EnterStage` in three compositions (`Followed`): one mock, two that share a reporter, two that do not. Tests
are interchangeable in `lifecycle`, which has no liveness property, hence its symmetry.

Deadlock is checked in every run: a test that is over stutters in an action of its own (`Finished`,
`Over`), and anything else that stops would be reported.

Fairness. A goroutine inside a call keeps running (`WF` of its `Advance` or `Running`): Go's scheduler
preempts and starves nobody, and no factory or step of the models blocks on anything but the locks that
are modelled. `Close`, once begun, goes on: it is one call on one goroutine. A waiter for
`Tokens.mu` gets it (`SF`): `sync.Mutex` hands itself to a starving waiter. Nobody is obliged to ask,
to add a step, or to close.

## 4. Where code and docs part

Checked, as findings of the four refuting runs:

* `addCloser` does not look at `closed`, so a factory that outlives its scope's `Close` leaves a closer
  nobody closes (`resolution_orphan`).
* A step that calls the test's `FailNow`, as `require` does, ends its goroutine inside `Executor.Run`
  and is missing from every report (`chain_unobserved`).
* `StageClosed` carries the verdict of a moment before the scopes are closed and the mocks checked
  (`lifecycle_verdict`).
* Neither DI adapter carries the construction path, so a cycle through a bag and a bridge hangs
  (`bridges_cycle`).

Met while modelling; the step is in the model, no run is about it:

* A factory that panicked runs again at the next resolution (bag.go:206, 215; "at most once", bag.go:63).
* `remember` stores into the cache of a stage that has closed in the meantime (stage.go:190;
  stage_test.go:276).
* On a soft chain `Get` hands back a value beside its error and, after a panic, `Try` a zero `Outcome`
  (do.go:71-72, 111-112). `HandedBackIsMeaningful` states what holds: the promise, on fast chains.
* A `BeginScope` that ends the goroutine leaves the scopes before it open (stage.go:63; 37-39).
  `NothingLeaks` makes that exception.
* Observers hear `StageClosed` of a stage that never opened (stage.go:66; observer.go:20-22).
* After a producer that failed between `New` and its store, `Of` answers with a zero value
  (token.go:71; 76-77).
* A binary dying inside `os.WriteFile` leaves part of a result (allure.go:216; 133-134).
* A mock container's `Add` that panics over the mock's type has marked the interface as registered
  (mokkitgomock.go:81; 93-95).
* A dig scope may be used by two branches at once and nothing keeps them apart (mokkitdig.go:160;
  "safe for concurrent use", container.go:45-47). `OneInstance` makes that exception, by `crowded`.
* The stage "finds the first container that has typ registered, so all code sees one instance"
  (stage.go:131-132). An alias whose target only a *later* container has, where that container registers
  the alias's type too, is an exception: a resolution that has the stage's snapshot, and makes the
  alias's hop after `Close` has emptied the stage, finds the target absent and goes on to the later
  container's own registration, while an earlier caller was given the alias's target. `Agreement` holds
  in the composition that is checked and wherever aliases stand for services of their own container
  (`AgreementHolds`).
* `Satisfied`'s error counts the mocks with missing calls and does not name the calls: `collectingT.Logf`
  drops the lines (mokkitmockery.go:189). It asks the mocks of the first mockery container only, where
  the doc speaks of "every expectation declared so far" (mokkitmockery.go:160-167).
* The builders a failed `NewSetup` had already built stay built, and panic when registered on
  (stage.go:25-28).
* A user's own function named like a closure (`func1`) loses its name to the one before it (do.go).
* `skipToPanic`'s comment counts one frame fewer than the stack has; the frame is skipped all the same
  (executor.go:77-79).

## 5. The proofs

Each module assumes only what its model's `ASSUME`s say: bounds are numbers, `None` is none of the values
it stands in for, `Regs` is what a builder can yield, `Builders` and, in
`Bridges`, `Goroutines` are finite. Everything below is for any
constants that satisfy them. Hardly a property is inductive as it stands: each model has
an invariant that adds what its properties leave unsaid, one lemma per action, and the properties as
corollaries.

**`ResolutionProofs`** - `Typing`, `SingleFlightHolds`, `NeverWaitsForItselfHolds`,
`LocksHeldByFactoriesHolds`, `InstanceKeptHolds`. `SingleFlight` says nothing about locks, and without
knowing that every call in a factory holds its entry's lock, `LockAndBuild` could start a second one.
`IInv = TypeOK /\ StackInv` adds four facts about call stacks.

* `FramesOK`: a call that has reached its entry is for a registered type that was not in its path.
* `PathsOK`: what a call is building is in the path of every call above it on the stack.
* `BuildersHold`: a call in a factory holds its entry's lock, and the entry has no value.
* `HoldersBuild`: a lock that is held is held by such a call.

`BuildersHold` gives `SingleFlight`, the last two give `LocksHeldByFactories`, and `FramesOK` with
`PathsOK` and `HoldersBuild` gives `NeverWaitsForItself`: the call the lock's holder is waiting in has
its type in the path and out of it at once. An action does one of three things to one stack: its
innermost call becomes another, makes a call, or returns. What each does to `IInv` is proved once
(`BecomeKeeps`, `PushKeeps`, `ReturnKeeps`); there is then a lemma for each action, and longer ones for
the three that touch a lock (`LockAndBuildKeeps`, `FactoryReturnsKeeps`, `UnwindKeeps`).

What becomes of an instance is in the same module, by two more invariants.

* `Accounted`: what is queued, taken or closed is the instance of its own entry (`NamesOK`), no instance
  is in two of these places or twice in one (`PlacesOK`), and a closer that was built is in one of them
  (`FiledOK`). `ClosedAtMostOnceHolds` counts. `ScopesAgree` is the part of `Agreement` a scope owes: what
  it has answered is what its entry holds, which `InstanceKept` never lets go.
* `Ordered`, for `DependentsCloseFirstHolds`. Closing in reverse puts dependents first only if what they
  stand on was queued earlier. So an entry with a value stands on entries with values (`BuiltOver`), which
  in turn needs, of every call in progress, that what its factory has been given is there
  (`CallsLinked`). Then a collaborator lies before its dependent in the queue and in what `Close` has
  taken, and is not closed while its dependent is not (`OrderOK`); and a scope is shut when its queue is
  taken, once (`ShutOK`). Cycles need no exception: nothing on one is ever built.

**`RegistryProofs`** - what the stage promises, under one more assumption, `DirectAliases`: an alias
stands for a service, no alias, of its own container. The compositions of the runs satisfy it, and
without some such assumption `Agreement` is false (section 4).

`AgreementHolds`: the stage asks its containers in order; that its answers agree needs, for every call in
progress, that the rest of its scan is a suffix of the composition (`SoundOK`), that it is waiting for
the container it asked last and none before it has the type (`CallsOK`), and that what it is being handed
is what that container stands for (`HandedOK`). Then cache and answers are what the *first* container
with the type gives (`StageOK`), on either side of `Close`.

`ImplementsRegistryHolds`: under `RegistryInv` (the invariants of `Ordered` and of `Agreement`, and
`MarksOK`: a factory somebody is in was run, and only closers are queued) every step of `Resolution` is a
step of `Registry` or a stutter. `FactoryReturns` creates, an answer of the stage hands out, `CloseScope`
ends what it takes, `CloseInstance` frees one that nothing waiting stands on; `NextImplements` puts the
lemmas for these together.

**`ChainProofs`** - every safety property of `chain`. For those about `Chain`, the invariant says where each
runner may be while the test is where it is (`RunsOK`), how the end of a step shows in its runner until
the chain moves on (`EndedOK`, `Shows`), that what has been observed and reported is of steps that have
got that far (`EventsOK`, `ReportsOK`), and, the one the others are for, that a failure is still to be
reported or has reached the test in the way its mode calls for (`SettledOK`).
`PanicStackFinds` is about `Labels`: in a stack of any length put together from an unwinding without a
panic's entry, the runtime's frames, the step's own and those below the executor (`Parts`), each search of
`TrimmedStack` finds what it looks for (`StackFacts`), in any buffer deep enough and in none that is not.
`BareNameFinds` is about the other half, a symbol with any path, receivers and closures (`Named`): a fold
goes token after token (`Leads`, from the function `FoldLeft` chooses), ways through parts join (`LeadsOn`),
the last slash is in the path (`AfterOn`), what is left of it and of the receivers without their brackets
is something, and whatever that is, the function's name is a segment of its own after it and each closure
one more (`ClosuresAreSegments`), so the last segment that is no closure's is the name. `Named` asks that
the name is none of `Ordinals`: a verb somebody calls `func1` is told under something else, in the code
too. `VerbIsNamed` adds where on the stack the symbol is, and `MCChain` assumes of `Ordinals` what
`isClosureOrdinal` answers for the words of its verbs (`OrdinalsAssumption`).

**`TokensProofs`** - `OneSinkPerRoleHolds`, `ProducedIsReadableHolds`. A sink is named after the call that
makes it; that it is fresh needs `MadeBefore`: no sink on file is the one of a call that has yet to file.

**`LifecycleProofs`** - all six of `lifecycle`. Until `Close` takes a stage's scopes, its test is at work
on it or has its `Close` among the cleanups (`ScopesOK`), whence `NothingLeaks`; what is still to be
closed is older than what has been freed (`FreedOK`), whence the order; a stage's checks lie before its
`Close` among the cleanups (`ChecksOK`), and cleanups run from the end; a scope's error has failed the
test or is with the `Close` in progress (`TroubleOK`).

**`AllureProofs`** - all three of `allure`. A result in the making has its stage's steps and verdict, is the
only one for its stage, and a file beside it is a part of it (`WritingOK`, `MakingOK`).

**`BuildersProofs`** - in the specification of `Expectations`. A builder has marked every type it holds
and holds none under two registrations (`HeldOK`), containers are copies of what builders that have
closed for good hold (`CopiesOK`), a stage's scopes are what its setup's containers begin (`StagesOK`).
`OneCompositionHolds` and `OneInstancePerRegistrationHolds` follow. Then the test over the mocks:

* `UseInvariance` types the rest and says where the control of the test, of `Satisfied` and of a
  cleanup's check may be (`UsesOK`, `ControlOK`), nothing being used before there is a stage (`FreshOK`).
  `TypeOKHolds`.
* `SatisfiedMeansMetHolds`: while `Satisfied` asks and has found nothing missing, the mocks it is past have
  nothing missing (`AskOK`). Expectations are declared by the goroutine that asks, so none comes up
  behind it.
* `EveryMissingCallIsNamedHolds` follows a line from the check that writes it to the `Errorf` that tells
  it. Each expectation found unmet is in one place, once: yet to be logged, with a scope's reporter, with
  an `Errorf` in progress, or told (`KeptOK`); a reporter has lines of the mock being checked only
  (`LinesOK`), and that mock has not been checked before (`CheckedOK`).

A claim about all elements of a sequence of any length (what `FlattenSeq` or a fold yields) is proved from its least
counterexample, since the library's induction rules are out of reach.

**`BridgesProofs`** - `OneInstanceHolds`, for every composition of bag, dig and do scopes. Every value on
its way up a stack, in the stage's cache, answered or kept is the one its scope keeps (`CallsOK`,
`KeptOK`), and what is kept is built over what is there (`ValuesOK`). That nothing kept is replaced is
`OpenOK`: what is being built has no value yet. In a bag and in do a lock gives that. dig has none, and
there the argument is about one goroutine: were a build of a type to return inside another build of the
same type, all it is built over would have values, and so would what each call between the two waits
for, from the outer build to the inner one, that type itself included (`Nested`, by the least
counterexample again); the inner build would have found it. Two goroutines in a dig scope are in `crowded` (`MeetOK`), for which the property makes
its exception.

Model-checked only: `Agreement` and the implementation of `Registry` with aliases into other containers;
all liveness, which the prover does not reach, nor `ENABLED`.

## 6. Not modelled

* `Host`, and a builder's `Registered`: no state, or state nothing else reads.
* `CycleError`'s order of types, and the sharing of a path's backing array, which `slices.Clone` rules
  out: the path is a set.
* A service registered under a type it cannot be used as (`ResolveError.Present`); a bag scope without a
  stage, which only its own package can make.
* What the docs leave to vocabulary authors: races in their verbs, `Of` inside an `All` branch beyond
  its Goexit.
* Closing order between services of two scopes: scopes close newest first, whatever was built over what.
* The observers of one event are told in one step; a panicking observer is left out.
* The reporter's timestamps, UUIDs and labels: wording. Of step names and panic stacks, which word or frame
  is kept is modelled, not how it is printed.
* In `Expectations`, mocks made by gomock and minimock: their checks at cleanup are in `Lifecycle`.
* The Go runtime's abort on a concurrent map write inside dig.
* Intra-container cycles of dig and do, which those libraries refuse themselves.
* Generated mocks and the example.

## 7. Plan

Done: `Resolution` with `Registry`, `Chain`, `Lifecycle`, `Tokens`, `Allure`, `Builders`, `Expectations`,
`Labels`, `Bridges`; the proofs of section 5, which cover every safety property of the runs.

Left, in this order:

1. The implementation of `Registry` for aliases into other containers that no later container has too.
2. `Resolution` and `Lifecycle` composed: what is released when a stage closes with resolutions in flight
   in two tests. `Chain`'s events fed to `Allure`.
3. `ResolveError.Present`: a registration found under a type it cannot be used as.
