# Verification of the grimoire/rel repository shell

TLA+ models of the `Repo` in `src/repo.go`: its transaction boundary, its
single-record read and write methods, `Preload`, and the association upsert
orchestrator as its unit tests pin it down. There are TLC runs on small
instances, and TLAPS proofs for every instance of the constants: of the
transaction invariants and the transaction boundary's refinement of an
abstract atomic call, of the repository shell's type and single-client
round trip, of the association orchestrator's invariants, and of Preload's
type invariant.

## The system

`src/repo.go` holds the repository shell of the library (lines 1-293) and,
from line 294 on, its unit tests. The shell's pieces are:

- **Transaction** (263-293): begins an adapter transaction and runs the
  callback `fn` on a repo bound to it. Its deferred function then does one of
  three things:
  - it recovers a panic, rolls back, and returns the panic as an error if it
    is a recognised `errors.Error`, or re-raises it otherwise;
  - it rolls back if `fn` returned an error;
  - it commits if `fn` returned nil, and the commit's error becomes the
    result.

  `fn` may call `Transaction` again on the repo it was given. The code then
  calls `Begin` on the transactional adapter a second time (line 264).
- **One / All / Aggregate / Count** (40-106): one adapter read each. One turns
  zero rows into `NotFound`.
- **Insert / Update** (109-170): one adapter write, then a re-read through
  `One`:
  - Insert re-reads by the id the adapter returned;
  - Update re-reads with the query it wrote through, which filters on the
    primary key the record had before the write.
- **Delete** (179-186): one adapter delete by the record's primary key.
- **Preload** (195-254): collects the reference keys of the target records and
  issues one `All` with `where.In`. It then maps every row to every target
  whose key matches: it appends to a slice field, and sets a pointer or struct
  field.

The adapter (`Begin/Commit/Rollback/All/Insert/Update/Delete`) is an external
collaborator. It is not in `src/`, so its behaviour is modelled from its
contract in the spec; these definitions are marked `spec_modelled` in
PROJECT.json. The association orchestrator (`upsertBelongsTo`, `upsertHasOne`,
`upsertHasMany`), the schema, document, changeset and query code, and the
`reltest` mock library are not in `src/` or are test doubles. The
orchestrator's unit tests are in `src/repo.go` (628-1184). They expect, for
every path, which adapter calls it makes with which queries, and what each
return leads to. The `Association` module is translated from them.

## Modules

| Module | Models | State |
|---|---|---|
| `Transaction` | `Repo.Transaction` and the adapter's scope stack | `db` (committed store), `scopes` (stack of open scope views), `frames` (stack of running Transaction calls: phase `begin`/`body`/`deferred`, fn's error, the panic being unwound), ghosts `db0`, `final`, `raised`, `outcome` |
| `TransactionProofs` | TLAPS proofs about `Transaction` | — |
| `Repo` | One, All, Aggregate/Count, Insert, Update, Delete, run by several clients | `table` (primary key → column or `Absent`), per client: `rec` (the record passed by pointer), `pc` (between a write and its re-read), `key` (what the re-read filters on), `res`, `op`, ghosts `want`, `wrote` |
| `RepoProofs` | TLAPS proofs about `Repo` | — |
| `Preload` | `Repo.Preload` | `ref` (parents' keys), `rows` (child table), `many` (slices), `one` (pointers), `done`, `calls`, ghost `last` |
| `PreloadProofs` | TLAPS proofs about `Preload` | — |
| `AtomicTransaction` | what Transaction promises: a call is one unit | `db`, `busy`, `result` |
| `Association` | upsertBelongsTo, upsertHasOne, upsertHasMany of one owner | `users`, `addresses`, `items` (tables: primary key → owner's id or `Absent`), the owner's loaded `buyer`, `address`, `coll` and `loaded`, its changeset's `fk` (user_id), `calls`, ghost `last` |
| `AssociationProofs` | TLAPS proofs about `Association` | — |
| `MCTransaction`, `MCRepo`, `MCPreload`, `MCAssociation` | model values and symmetry sets for TLC | — |

**Transaction.** Each Go step that changes state is one action:

- `Call` is a top-level call.
- `Begin` is line 264, with its error path at 265-267.
- `Write` is `fn` writing through the transactional adapter.
- `Nest` is `fn` calling Transaction on its repo.
- `FnReturn` and `FnPanic` are the ways `fn` ends, at line 289.
- `Recover` (273-281), `RollbackOnError` (282-283) and `Commit` (284-286) are
  the three branches of the deferred function.

Each action includes the adapter call it makes. `ReturnTo` and `PanicTo` hand
the result, or the re-raised panic, to the enclosing frame: a re-raised panic
unwinds into the enclosing `fn` and starts its deferred function. Begin,
Commit and Rollback may each fail with any error kind:

- a failed Commit or Rollback ends the scope without applying it;
- a nested scope's Commit makes its view its parent's view;
- the outermost scope's Commit replaces the store.

**Repo.** Each adapter call is one atomic step, so Insert and Update take two
steps (the write, then `ReRead`), and other clients may act between them:

- an adapter call may fail (`Unexpected`);
- an Insert takes any free primary key;
- an Update that sets a primary key another row holds fails with `Constraint`;
- an Update that matches no row is not an error.

A changeset sets or keeps each of the two fields; the empty changeset and the
no-builder calls return nil at once (`InsertNothing`, `UpdateNothing`).

**Preload.** A call is one step, because only its `All` touches shared state.
The targets are any subset of the parent records. The read has no ORDER BY,
so the rows come back in any order. The loop hands a row only to the parents
whose key is the row's foreign key (`addrs[id]`), so what a parent receives
depends only on the order of its own key's rows. The model therefore chooses
an order per key (`Orders`: one `SetToSeqs` ordering of `KeyRows(id)` for
each key read). Every ordering of the whole result projects to such a family,
and every family is the projection of some ordering. This per-key form has no
recursive operator, so TLAPS can reason about it; it reaches the same 154540
distinct states as a form that filters one global ordering with `SelectSeq`.
The mapping loop is `MapMany` (append to the slice) and `MapOne` (the last
matching row wins). Because a parent is handed exactly an ordering of its own key's
rows, the fan-out (every child a parent receives has its key) and the
completeness of a preload hold by construction of this encoding; they are
not stated as properties. What the runs check of Preload is its type and
the two findings below, which depend on what the code does across calls. Any filter the caller passes is
enumerated and recorded in `last`.

**Association.** A call is one step. Its adapter calls are made in sequence
by one caller, and each may fail with `Unexpected`.

- `BelongsTo` takes one of three paths:
  - no nested changes: it returns nil at once;
  - a nested primary key other than the loaded buyer's: it panics;
  - otherwise `BelongsToUpdate` (Update where id, then re-read) or
    `BelongsToInsert`. Insert stamps the owner's `user_id` with the new id
    right after a successful Insert (spec §4.3; the tests do not fix the
    order relative to the re-read).
- `HasOne` has the same shape:
  - `HasOneUpdate` filters on the address id and on `user_id = Owner`;
  - `HasOneInsert` stamps the child and re-reads by id.
- `HasMany(n, insertion)`:
  - it panics on an unloaded collection unless `insertion` holds;
  - otherwise it deletes the loaded children (`user_id = Owner AND id IN
    loaded`) when there are any, and returns a Delete error at once;
  - then `HasManyInsertAll`: InsertAll of `n` stamped children, then a
    re-read by the assigned ids, which replaces the collection.

  `insertion` is the caller's word that the owner is new, so it is enabled
  only when no row references the owner. A loaded address may be stored
  under another owner (a stale record).

**AtomicTransaction.** This is the abstract specification. A call starts
(`Start`) and finishes (`Finish`):

- with nil, and any store;
- or with an error or a panic, and the store unchanged.

`Transaction` maps to it through `busy <- Len(frames) > 0` and
`result <- outcome` (`ImplementsAtomic`).

## Runs

| Run | Expect | Checks | Shows |
|---|---|---|---|
| `transaction_safety` | pass | TypeOK, ScopesMatchFrames, Atomicity, PanicNotSwallowed, ImplementsAtomic | calls nested up to 3 deep, with every failure of Begin, fn, Commit and Rollback and every panic, keep one scope per frame past Begin, are all or nothing, re-raise fatal panics unchanged and implement `AtomicTransaction` |
| `transaction_nested` | violation | NoNestedScope | a Transaction in fn opens a second adapter scope (spec §5 says it reuses the first) |
| `repo_single` | pass | TypeOK, RoundTrip | with one client, a write that returns nil leaves the record equal to the row it wrote |
| `repo_update_pk` | violation | UpdateWriteNotMissing | an Update that changes the primary key writes the row and returns NotFound |
| `repo_roundtrip_race` | violation | RoundTrip | with two clients, Update can return nil with a row another client wrote between its write and its re-read |
| `repo_insert_error` | violation | InsertErrorWroteNothing | an Insert whose re-read fails returns an error after its row is stored |
| `association` | pass | TypeOK, OwnerReferencesBuyer, ReplaceDropsLoaded | over 3 calls with every adapter failure: user_id always names a stored buyer; a has-many replace returning nil drops every loaded child |
| `association_partial` | violation | HasManyAllOrNothing | a replace whose InsertAll fails has already deleted the loaded children |
| `preload` | pass | TypeOK | up to 3 Preloads on overlapping parent sets, with parents sharing keys, adapter errors and any result order, keep slices sequences of children and pointers a child or nil |
| `preload_duplicates` | violation | NoDuplicates | a second Preload of a slice appends the children again |
| `preload_filters` | violation | FiltersHonoured | the caller's filters never reach the read (line 229) |

**Bounds.** These are the smallest values that make the interesting cases
happen:

- **Transaction:**
  - 2 rows and 1 value (with `NoVal`, each row has two states);
  - nesting depth 3, so that a panic unwinds through an intermediate frame
    and a nested Commit lands in a scope that is itself nested.
- **Repo:**
  - 2 primary keys, so that a key can change and a freed key can be reused;
  - 2 column values with one client;
  - 1 value with two clients (`repo_roundtrip_race`), where a second
    client's write between another's write and re-read is what matters.
- **Preload:**
  - 2 parents and 2 keys, so that parents may share a key;
  - 3 children and 2 filter values;
  - 3 calls, so that repeated and overlapping Preloads happen.

- **Association:**
  - 3 ids, so that two children and a fresh address or buyer fit together;
  - 2 owners, so that a stale row can belong to someone else;
  - up to 2 new children per has-many call;
  - 3 calls, so that a failed call is followed by one that succeeds.

Symmetry is used only over model values that no property tells apart.

**Fairness.** No run assumes fairness and no liveness property is stated.
The only progress question is whether a Transaction call whose fn has ended
returns: its deferred function (lines 272-287) is an if/else with no loop,
and each branch pops the frame, so that holds in one step of whichever
branch is enabled and says nothing a reviewer of the code could doubt.

The Preload and Association runs set `CHECK_DEADLOCK FALSE`, because their
only bound is the number of calls a caller makes.

## Findings

1. **Nested Transaction opens a savepoint** (spec/code divergence, line 264).
   `inTransaction` is set but never read, so the nested call begins a second
   scope.
2. **Update that changes the primary key reports NotFound** (code bug,
   lines 152/169). The row is written; the re-read filters on the old key.
3. **Round trip is not atomic under concurrency** (spec gap, line 169). A
   write and its re-read are two adapter calls. The trace TLC gives:
   - client 1 moves its row from key `i1` to `i2`;
   - client 2 inserts a new row under the freed `i1`;
   - client 1's re-read of `i1` returns nil with client 2's row.
4. **Preload duplicates an already-loaded slice** (spec gap, line 242).
5. **Preload ignores its filters** (code bug, line 229).
6. **A failed Insert may have written its row** (spec gap, line 131). The
   re-read's error is returned after the adapter stored the row, so a caller
   that retries inserts it twice.
7. **The has-many replace is not all or nothing** (spec gap, test lines
   1054-1055). Delete and InsertAll are two adapter calls, and the test
   expects no Begin. A failed InsertAll leaves the loaded children deleted
   and the in-memory collection stale, although §4.3 says the whole step
   aborts. Inside `Repo.Transaction` the rollback would undo the Delete;
   outside it nothing does.

## Proofs

`TransactionProofs` proves, for all `Keys`, `Vals`, `NoVal` and
`MaxDepth \in Nat \ {0}`:

- `IInvInvariant`: `Spec => []IInv`;
- `TypeCorrect`: `Spec => []TypeOK`;
- `AtomicityInvariant`: `Spec => []Atomicity`;
- `PanicNotSwallowedInvariant`: `Spec => []PanicNotSwallowed`;
- `ScopesMatchFramesInvariant`: `Spec => []ScopesMatchFrames`. This one uses
  `FS_Interval`, because the frames past Begin are an interval of the stack.

`Atomicity` is not inductive by itself, and neither is `PanicNotSwallowed`.
The inductive invariant `IInv` adds four conjuncts:

- `StackShape`: every frame below the top is in its `body`, waiting on the
  nested call.
- `ScopeCount`: the number of scopes equals the depth, minus one while the top
  frame is still in `begin`.
- `DbStable`: the store does not change while a call runs. Only the outermost
  Commit writes it, and that call then returns.
- `PanicTrack`: a fatal panic is either being unwound by the top frame or has
  reached the caller.

TLC checked `IInv` as an invariant before it was proved. The proof has:

- one lemma per action, and under each a step per conjunct the action can
  disturb;
- lemmas on the helpers `ReturnTo`, `PanicTo`, `SetTop` and `PopScope`;
- sequence lemmas (`LastElem`, `ReplaceLast`, `DropLast`) built on
  `SequenceTheorems`.

The temporal steps are closed with PTL.

`Refinement` proves `Spec => ImplementsAtomic`, for the same constants:

- the initial states map to `AtomicTransaction`'s initial state;
- every step with `IInv` before and after is a `Start`, a `Finish` or a
  stutter.

Lemma `StepEnds` shows, one case per action, that a step taken while a call
runs keeps `db0`. It also shows that the step either keeps the outcome (and
the call running) or ends the call with an outcome set.

- `DbStable` before and after then makes the store unchanged while a call
  runs.
- `Atomicity` in the new state gives `Finish`: the store changes only with a
  nil result.

`RepoProofs` proves, for every set of clients, keys and values:

- `TypeCorrect`: `Spec => []TypeOK`.
- `SingleClientRoundTrip`: `RoundTrip` for a `Clients` set of one element,
  the instance of the `repo_single` run. With two clients it is false (run
  `repo_roundtrip_race`), so the hypothesis is part of what is proved. The
  inductive invariant `SingleInv` adds `WrittenRowStored`: between a write
  and its re-read, the written row is in the store, and the re-read key is
  either its key or a key with no row. The second case is an Update that
  moved the row, which then returns NotFound. Lemma `UpdateWrite` states what
  the write half of Update leaves in the store.

`AssociationProofs` proves, for every set of ids and every bound:

- `TypeCorrect`;
- `OwnerReferencesBuyerInvariant`;
- `ReplaceDropsLoadedInvariant`.

All of them come from one inductive invariant, `AssocInv`. It adds
`BuyerStamped` to the properties: once both are set, user_id and the loaded
buyer name the same row. This is needed because a belongs-to Update returning
nil leaves user_id alone. The strengthening holds because the only step that
sets user_id, the Insert of a new buyer, runs when no buyer is loaded and
loads the buyer it stored. TLC checked `AssocInv` on the `association`
instance before it was proved. There is one lemma per operation
(`BelongsToInv`, `HasOneInv`, `HasManyInv`). `InsertAllPost` states what
InsertAll leaves when no child of the collection is still under Owner. Both
uses establish that precondition: by the Delete, by an empty collection, or
by the caller's insertion flag.

`PreloadProofs` proves, for every finite `Children` without `NoChild`, every
`Parents`, `PIds`, `Vals` and `MaxCalls \in Nat`:

- `TypeCorrect`: `Spec => []TypeOK`.

The argument rests on what an ordering of a finite set is.
`SetToSeqsCovers` shows that a member of `SetToSeqs(S)` is a sequence of `S` of length `Cardinality(S)` that holds
every element of `S`. It follows from `FS_Injection`: an injection between
sets of equal finite size is onto. `RowsOfProps` applies this to the rows a
target receives. `MapManyProps` and `MapOneProps` state what the mapping loop
leaves in each slice and pointer, using `ConcatProperties`. The step
then takes one case per outcome of a call (nil without targets, adapter
error, rows mapped into the slices, rows mapped into the pointers).

Some results are only model-checked:

- the violations, which are counterexamples and not theorems.

## Not modelled

- **Parts of the association orchestrator that no test covers**:
  - recursion into nested associations;
  - has-many changesets that carry primary keys;
  - the composition with the owner's own write.

  The orchestrator's code is not in `src/`, and its tests show none of
  these.
- **Schema, Document/Collection, Changeset and Query**: not in `src/`. They are
  abstracted to a record with a primary key and one column, and to a
  set-or-keep changeset.
- **`Must*` wrappers**: they turn an error into a panic. That panic is what
  `FnPanic` with an error kind stands for inside a Transaction.
- **New, Adapter and SetLogger**: configuration.
- **Preload over multi-level paths, and the panic on a non-pointer record**:
  the panic is a caller contract violation.
- **`src/reltest/modify.go`**: a test double for the rel library. It sets a
  mocked repository's expected arguments and canned results, and holds no
  state of the system. The unique-constraint error it fakes (`NotUnique`) is
  the `Constraint` result the Repo model's writes already return.
- **`src/unnamed/part_000`**: the README.
