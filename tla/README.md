# TLA+ models of the Webserv front end

The repository's `src/Webserv/www` is the static site served by the Webserv
HTTP server: pages, small scripts, and one PHP CGI. The only part with real
behaviour is the gallery code. It keeps a page in step with the files stored
under `/upload`, through the requests `GET /upload`, `POST /upload` and
`DELETE /upload/<name>`. That code is in `scripts/feature-photobook.js` and in
the lower half of `scripts/feature-methods-demo.js`. `spec.md` calls it the
"file-gallery synchronization client". This directory models it.

## 1. Inventory

### Components

| Component | Source | State it keeps | Operations |
|---|---|---|---|
| Photobook page | `feature-photobook.js` | the photo cards in `.photo-grid`; `#emptyMessage`; the confirm modal; the closure variables `fileToDelete`, `cardToDelete` shared by every X button | top-level GET and its handler (lines 84–225); X click (208–217); confirm click and DELETE handler (110–156); file-input change (8–33); upload submit, POST and reload (37–77) |
| Filename sanitizer | `feature-photobook.js` 45–51 | none (pure) | base from user input or the file name, strip characters, dashes for spaces, `"photo"` fallback, original extension lower-cased |
| Remote file store | the C++ server, not in `src/` | the set of stored files | GET list, POST store, DELETE by name (404 if absent); spec.md §6 |
| Methods demo list | `feature-methods-demo.js` 17–113 | `#fileList` rows, `#status`, `#alert`, `#empty` | `loadFiles` (clear, GET, render), `onListClick` (confirm, DELETE, remove the row) |
| Redirect countdown | `index.js` 47–64 | a counter, an interval, the modal | start, tick every second, navigate at 0 |
| Scroll effects, nav links, panel switch | `index.js` 1–45, `feature-methods-demo.js` 1–14 | CSS classes | pure presentation |
| Error-trigger forms | `feature-error-codes.js`, `trigger_errors.js` | a hidden form | submit (navigates away) |
| Siege badges | `feature-siege.js` | none | classify static numbers |
| CGI upload | `cgi-bin/cgi_upload.php` | the upload directory | store the posted file under its basename |

### How they interact

Every user gesture and every network completion runs as one task on the
browser's single thread. A handler runs to completion between two `await`s
or `.then`s, so a handler is one atomic step. The interleaving happens at the
suspension points. A request goes out, and before its answer arrives the user
may click, reload or send more requests. The store applies the requests in
flight in any order, because each fetch has its own connection.

The photobook shares two closure variables between all its X buttons and the
DELETE handler. The DELETE handler reads them when the response arrives. An
upload that succeeds reloads the page. The reload drops every pending
handler, but the requests those handlers wait for may still reach the store.

### What is hard

- Responses that complete after the user has changed the selection, after a
  re-render, or after a page reload.
- The store applying requests in an order the page did not expect.
- Double clicks: the confirm modal stays open while its DELETE is in flight.
- Transport failures before or after the store applied a request.
- Timers: several countdown intervals writing one span.

### What makes each component correct

- Photobook: the selection always names one displayed card. The empty
  message is shown exactly when no photo is left. A card disappears only when
  its own file was deleted. After all requests settle, the cards match the
  stored images.
- Sanitizer (spec.md §4.1): the result is non-empty, has no path separator,
  and is a filtered base followed by the lower-cased extension.
- Methods demo: once no request is in flight, the rows are the stored files.
  Success status is shown only for deletes the store applied.
- Countdown: each call navigates exactly once.

PROJECT.json lists each hazard at its line, with the properties that cover it.

## 2. Modules

| Module | Models | TLC instance | Proofs |
|---|---|---|---|
| `Photobook` | the photobook page with the store | `MC_Photobook` | `PhotobookProofs` |
| `Sanitizer` | the file-input change handler and the upload renaming | `MC_Sanitizer` | `SanitizerProofs` |
| `MethodsDemo` | the methods demo list with the store | `MC_MethodsDemo` | `MethodsDemoProofs` |
| `StoreView` | abstract: what a store client may display (refined by `MethodsDemo`) | through `MethodsDemo` | |
| `ListSpec` | abstract: spec.md's list()/delete() (not refined) | through `MethodsDemo` | |
| `Countdown` | the redirect countdown of `index.js` | `MC_Countdown` | `CountdownProofs` |

Still open: alerts in Photobook (a failure alert for a file the store
deleted, after a double confirm or `null.remove()`), and a property relating
cards to the store across a reload with orphaned requests.

## 3. What is modelled

### Photobook.tla

| Code | Model |
|---|---|
| the stored files | `server` (subset of `Files`) |
| the GET handler's progress | `page`: loading, shown, empty (the handler returned at "no images"), failed (`.catch`) |
| cards in `.photo-grid` | `cards`; a card is its file name, since one load renders one card per file |
| `#emptyMessage` visible | `emptyMsg` |
| confirm modal shown | `confirmOpen` |
| `fileToDelete`, `cardToDelete` | the same names; `None` is `null` |
| fetches in flight | `net`: records with kind, file, stage (sent/done), store verdict, GET snapshot, and `live` (the page that sent it is still loaded) |

Actions: `Reload` (the page opened again), `ClickDelete`, `DismissConfirm`
(Bootstrap's default Escape and backdrop click), `ConfirmDelete`,
`SubmitUpload`, `StoreHandle` (the store, from spec.md), `Receive` (fetch
settles with the store's answer or a transport error and the page's handler
runs: `ReceiveList`, `ReceiveDelete`, `ReceiveUpload`), and `Discard` (the
outcome of a request from an unloaded page). Each handler is one action. The
GET and POST handlers suspend once more, at `res.json()`. The part before
that suspension only tests `res.ok` and changes no modelled state, so
merging the two parts loses no interleaving. A body that fails to parse takes
the same path as a transport error. Here the upload's name is abstract (any
name in `Files`, which the image filter may or may not accept). The renaming
itself is `Sanitizer`.

Bounds: `Files = {f1, f2, f3}` with `ImageFiles = {f1, f2}`, and `MaxReq = 4`
user-started requests. That is enough for two deletes plus a reload or an
upload, which the interesting races need (the wrong-card trace uses one GET
and one DELETE). Deadlock checking is off. When the request budget is spent
and nothing is in flight, the page waits for the user, which is a legitimate
stop.

### Sanitizer.tla

Names are sequences over character classes: `p` (lower-case letter), `P`
(upper-case letter), `0` (digit), `-`, `_`, space, `\t` (any other white
space: tab, no-break space, ...), `.`, `/` (typed names only) and `!`
(anything else). The image extensions of `isImageFile` are abstracted to
the one-letter extension `p`, in either case. Each regular expression is an
operator that does what the regex does:
- `StripExt` is `replace(/\.[^/.]+$/, "")`.
- `ExtOf` is the `match(/\.[^.]+$/)` lower-cased.
- `Trim` is `trim()`: from the first to the last character that is not
  white space (`Blanks`, found with `Min`, `Max`).
- `StripChars` is the `[^a-zA-Z0-9-_ ]` filter: the characters of `Kept`
  (letters, digits, `-`, `_` and the space; in a JS class `9-_` after the
  range `0-9` is a literal `-` and `_`).
- `DashBlanks` is `replace(/\s+/g, "-")`. After the filter the only white
  space left is the space, so it keeps each other character and the first
  space of each run (as a dash), and drops the other spaces.
- `Renamed(f, v)` is the whole chain with the `"photo"` fallback.

Both filters are `AtPositions(s, S)`: the characters of `s` at the index
set `S`, in order, where the k-th index is the one with k indices of `S` up
to it (`NthOf`). This is written without recursion or folds on purpose, so
that the provers can reason about it. It agrees with the `SelectSeq` and
fold forms on every pair of names of up to four characters (checked once
with TLC).

Actions:
- `ChooseFile(f, typeOk)` is the change handler. It keeps the file and
  prefills the name, or on a wrong MIME type clears the input. `typeOk`
  (the browser's `file.type`) is chosen independently of the name; no
  property depends on how the browser derives it.
- `ClearFile` is the no-file branch.
- `EditName(s)` is the user typing.
- `Submit` is the submit handler up to the renamed `File`; the name is
  `Renamed(file, nameValue)`.

`upload` is that handler's local `renamed`: the step after the submit
forgets it. Bounds: file names up to 3 characters, typed names up to 2 (all
of them: 183,337 states, about two and a half minutes). That covers a file
name that is only an extension, two dots, a dot followed by a slash, white
space at both ends and names the filter empties. Runs of spaces inside a
base need four characters; `SanitizerProofs` covers every length.

### MethodsDemo.tla

| Code | Model |
|---|---|
| `<li>` rows in `#fileList` | `rows`: records of name and `gen`, the id of the GET whose `render` created it; an `<li>` detached by a later `render` is no longer in `rows`, and `li.remove()` on it changes nothing |
| `#empty` shown | `emptyShown` |
| `#alert` | `alert`: hidden, or the kind of error `showError` put there |
| `#status` | `status` |
| fetches in flight, the store | `net`, `server`, as in Photobook |

Actions:
- `LoadFiles`: `clearUI`, the status, and the GET.
- `ClickDelete(li)`: a confirmed click, which sends the DELETE.
- `StoreHandle`.
- `Receive`, which runs `ReceiveList` (`render` or `showError`) or
  `ReceiveDelete` (`li.remove()`, the empty indicator from the rows left,
  the status, or `showError`).

The script sends no POST, so the store here only lists and deletes. An
upload from another page or tab while the demo is open (the photobook's
POST) is left out: it could bring back a name the status reports as
deleted, and `DeletedStatusTrue` is stated for the demo on its own.

Bounds: 3 names, 5 requests (530,221 states). That is enough for two
overlapping loads plus deletes before and after a re-render.

### Countdown.tla

Every interval has the same 1 s period, so they fire in cyclic order. The
running intervals are therefore a queue (`timers`). `Tick` fires the head,
decrements its own `countdownValue` and writes the span. At 0 it clears its
interval, assigns `location.href` (`navigations`) and hides the modal.
Otherwise the interval goes to the back of the queue.

`Call` is `redirectionCountdown`. `Unload` is the navigation replacing the
page. The module-level `redirectInterval` (line 48) is declared "to access
from cancel button", but no cancel button or handler exists in `src/` and
the variable is never read or assigned, so it is not modelled. `span` is
`None` until the first tick writes it (the modal's markup is not under
`src/`). Bound: 3 calls.

## 4. Runs

Passing runs. Each property has a mutant, a plausible bug that TLC catches
(PROJECT.json lists them).
- `photobook_safety` (768,892 states) checks `TypeOK`, `SelectionCoherent`
  and `EmptyMessageAccurate`.
  - `SelectionCoherent`: the shared selection names one displayed card, and
    the open modal has one.
  - `EmptyMessageAccurate`: once the page has rendered, the empty message is
    shown exactly when no card is left.
- `photobook_liveness` checks `LoadCompletes` under `FairSpec`: every page
  load leaves "loading".
- `methods_demo_safety` checks:
  - `TypeOK`.
  - `NoDuplicateRows`: no name is listed twice.
  - `EmptyIndicatorAccurate`: never empty beside a row.
  - `DeletedStatusTrue`: "Deleted: <name>" only for a file the store no
    longer has.
  - `LoadSettles`: "GET REQUEST SENT" is always replaced.
  - `ShowsStoreLists`: refinement of `StoreView`. The displayed names
    change only by being cleared, by becoming a list the store returned, or
    by losing a name the store deleted. The refinement mapping is
    `stored <- server`, `shown <- RowNames`, and `answers <-` the lists in
    GET answers not yet consumed.
- `countdown_redirects` checks `OneRedirectPerCall`. While the page lives,
  navigations plus running intervals equal calls, and every running count is
  in 1..5. With overlapping calls, each one navigates exactly once.
- `sanitizer_rename` checks two properties.
  - `SafeRename`: a non-empty base of letters, digits, dashes and
    underscores, then the lower-cased original extension.
  - `ImageStaysImage`: the new name is an image name exactly when the
    original is.

Violation runs (findings in PROJECT.json):
- `photobook_wrong_card` (`CardRemovedOnlyWhenDeleted`):
  1. Confirm f1.
  2. Dismiss, then select f2.
  3. f1's success removes card f2.
- `photobook_silent_failure` (`LoadOutcomeVisible`): a failed GET shows
  nothing at all (spec.md §4.3/§8 say the error is surfaced).
- `photobook_double_delete` and `methods_demo_double_delete`
  (`OneDeletePerName`): a second click sends a second DELETE of one name.
  spec.md §4.3 says it is rejected before any network call.
- `methods_demo_list_refinement` (`ListRefined`, refinement of `ListSpec`):
  `clearUI` empties the list before the GET answers, and it stays empty if
  the GET fails.

### Fairness

`FairSpec` in Photobook and MethodsDemo assumes weak fairness of two things.
- The store handling some request. A running server answers what it
  receives.
- Some fetch settling. The browser settles every fetch, with a response or
  a network error.

The user's actions, the reloads and the uploads get no fairness: nothing
obliges a user to click. Deadlock checking is off everywhere. The models stop
only when the request or call budget is spent and nothing is in flight, which
is the page waiting for the user.

## 5. What is proved

These hold for every value of the constants. The assumptions are
`FilesAssumption`, `DemoAssumption`, `CountdownAssumption` and
`SanitizerAssumption`:
- `None` is not a file name, or for Countdown not a number;
- the request or call bound is a positive natural.

`PhotobookProofs`:
- `TypeCorrect`.
- `SelectionSafe: Spec => []SelectionCoherent`, via
  `Inv == TypeOK /\ SelectionCoherent /\ LoadingClean /\ LiveGetLoading /\ OneLiveGet`.
  `SelectionCoherent` alone is not inductive, because the GET handler
  replaces `cards` and could strand a selection. The extra conjuncts say:
  - while loading there are no cards, no selection and no modal;
  - a live GET exists only while loading;
  - there is at most one live GET.

  So the GET handler runs once per load, on a clean page.
- `EmptyMessageSafe: Spec => []EmptyMessageAccurate`. Its step lemma uses
  `Inv` for the fact that no card exists while loading.

`MethodsDemoProofs`:
- `TypeCorrect`, `NoDuplicates` and `EmptyIndicatorSafe`, from
  `Inv == TypeOK /\ SameGen /\ EmptyIndicatorAccurate /\ DoneDeleteGone`.
  - `SameGen`: all rows come from one render, which is what makes names
    unique.
  - `DoneDeleteGone`: a successful DELETE answer names a file no longer
    stored.
- `ImplementsStoreView: Spec => ShowsStoreLists`. Initial states map to
  initial states. `ViewStep` shows every step is a `StoreView` step or a
  stutter, with one case per action:
  - sending is a stutter or `Clear`;
  - the store answering a GET is `Answer`;
  - a DELETE is `Delete`;
  - a rendered answer is `Show`;
  - a failed one is `Forget`;
  - a successful delete is `Remove`.

  `Remove` needs `DoneDeleteGone`. The lemmas `RenderNames` and
  `RemoveNames` give the names after `render` and `li.remove()`.
- `DeletedStatusSafe: Spec => []DeletedStatusTrue`. It is not inductive
  alone: a "Deleted" status is written when a DELETE's fetch settles. The
  step lemma `DeletedStep` uses `Inv`. A settled success (`Outcomes`) is the
  store's verdict, and by `DoneDeleteGone` the file is then gone. The store
  only loses files, so the status stays true afterwards.

`CountdownProofs`:
- `RedirectOnce: Spec => []OneRedirectPerCall`, via
  `RedirectInv == timers well-typed /\ OneRedirectPerCall` (with the
  counters typed), stated in `CountdownProofs`. Case by case:
  - A call appends an interval at 5.
  - A tick at 0 drops the head and counts a navigation.
  - Any other tick moves the head to the back, one lower. The lemma
    `Requeue` covers this, from the library's `HeadTailProperties` and
    `AppendProperties`.

`SanitizerProofs`, for file names and typed names of every length:
- `RenameSafe: Spec => []SafeRename` and `ImageKept: Spec => []ImageStaysImage`.
- The invariant is `RenameInv`: the file and the name are strings, and a
  renamed `File` is `Renamed(file, nameValue)`, since every other step
  discards it. The theorems then follow from two lemmas about `Renamed`:
  - `RenamedSafe`: the name is `Base \o ExtOf(file)`, with a non-empty base
    of letters, digits, dashes and underscores (`BaseType`). So it is longer than the
    extension, ends with it, and is safe before it.
  - `RenamedImage`: if the last dot has a character after it, the name's
    last two characters are the file's, lower-cased. Otherwise the
    extension is empty and the name is all base, so it holds no dot. The
    file is not an image name either: a dot just before a last character
    that is not a dot is the last dot (`LastDotAt`).
- The lemmas they rest on concern the operators of the pipeline:
  - `TrimType`, `StripExtType`, `StripCharsType` and `DashBlanksType` say
    what characters each stage can produce.
  - `AtPositionsType` says a filter's output has exactly the characters at
    the chosen indices. It rests on `RankExists`: a set of indices has an
    element of every rank up to its size.
  - `RankExists`, `NatMin` and `NatMax` use the least-element principle
    (`WFMin` with `NatLessThanWellFounded`) and the cardinality facts of
    `FiniteSetTheorems`. Neither takes an operator parameter.

Left to TLC:
- Liveness (`LoadCompletes`, `LoadSettles`). TLAPS does not reason about
  fairness and ENABLED here.
- That the non-recursive `AtPositions` filters equal the `SelectSeq` and
  fold forms for every length. Equality with a recursive definition would
  need induction over the sequence. The installed provers cannot
  instantiate the library's induction theorems. TLC checked this up to
  length four.

## 6. Not modelled, and why

- Presentation-only scripts (scroll effects, nav links, the panel switch,
  siege badges) and the error-trigger forms keep no state that survives a
  step.
- The CGI script is one synchronous handler.
- The per-image spinner timers only change how a card looks.
- `escapeHtml` and `escapeAttr` in the methods demo. A row is identified by
  its name, and names are model values. `escapeAttr` escapes only `"`, so a
  stored name that holds a character reference such as `&amp;` reads back
  from `data-name` decoded, and its DELETE names another file. The model
  assumes names that read back unchanged; PROJECT.json lists this as a
  hazard no property covers.
