-------------------------- MODULE ShareStoreProofs --------------------------
EXTENDS ShareStore, TLAPS

\* Every step keeps the types.
LEMMA TypeStep ==
    ASSUME TypeOK, [Next]_vars
    PROVE  TypeOK'
<1> USE StoreAssumption DEF TypeOK, vars, db, thread, Files, Threads,
  ServerThread
<1>1. CASE Tick
  BY <1>1 DEF Tick
<1>2. ASSUME NEW t \in Threads, NEW s \in Shares, BeginDestroy(t, s)
      PROVE  TypeOK'
  BY <1>2 DEF BeginDestroy, Remove, OwnedFiles
<1>3. ASSUME NEW t \in Threads, NEW f \in Files, RemoveFile(t, f)
      PROVE  TypeOK'
  BY <1>3 DEF RemoveFile, Unlink
<1>4. ASSUME NEW t \in Threads, CommitDestroy(t)
      PROVE  TypeOK'
  BY <1>4 DEF CommitDestroy, Commit, Release, Rest
<1>5. ASSUME NEW t \in Threads, CommitCheck(t)
      PROVE  TypeOK'
  BY <1>5 DEF CommitCheck, Commit, Release, Rest
<1>6. ASSUME NEW t \in Threads, Fail(t)
      PROVE  TypeOK'
  BY <1>6 DEF Fail, Release, Rest, Halt
<1>7. CASE Start
  BY <1>7 DEF Start, BeginCheck, Remove, OwnedFiles
<1>8. ASSUME NEW f \in Uploads, ScanFile(f)
      PROVE  TypeOK'
  BY <1>8 DEF ScanFile, Unlink
<1>9. CASE ScanDone
  BY <1>9 DEF ScanDone
<1>10. CASE TimerFires
  BY <1>10 DEF TimerFires, BeginCheck, Remove, OwnedFiles
<1>11. CASE Stop
  BY <1>11 DEF Stop, Halt
<1>12. CASE Crash
  BY <1>12 DEF Crash, Halt
<1>13. ASSUME NEW f \in Uploads, Upload(f)
       PROVE  TypeOK'
  BY <1>13 DEF Upload
<1>14. ASSUME NEW f \in Uploads, DropUpload(f)
       PROVE  TypeOK'
  BY <1>14 DEF DropUpload
<1>15. ASSUME NEW t \in Workers, NEW F \in SUBSET spool,
              StealSpool(t, F)
       PROVE  TypeOK'
  BY <1>15 DEF StealSpool
<1>16. ASSUME NEW t \in Workers, NEW s \in Shares, NEW v \in
              1..MaxValidity, CreateShare(t, s, v)
       PROVE  TypeOK'
  BY <1>16 DEF CreateShare, CanCreate, Record, Release, Rest
<1>17. ASSUME NEW t \in Workers, CreateFails(t)
       PROVE  TypeOK'
  BY <1>17 DEF CreateFails, Release, Rest
<1>18. ASSUME NEW c \in Commands, NEW s \in Shares, NEW F \in SUBSET
              Locals, NEW v \in 0..MaxValidity, CmdCreate(c, s, F, v)
       PROVE  TypeOK'
  BY <1>18 DEF CmdCreate, CanCreate, Record, Release, Rest
<1>19. CASE UNCHANGED vars
  BY <1>19
<1>q. QED BY <1>1, <1>2, <1>3, <1>4, <1>5, <1>6, <1>7, <1>8, <1>9, <1>10,
  <1>11, <1>12, <1>13, <1>14, <1>15, <1>16, <1>17, <1>18, <1>19 DEF Next,
  RemovalStep, ScanStep, CreationStep

\* Every step keeps the phases of the server and of its threads in line.
LEMMA PhasesStep ==
    ASSUME TypeOK, Phases, [Next]_vars
    PROVE  Phases'
<1> USE StoreAssumption DEF TypeOK, vars, db, thread, Files, Threads,
  ServerThread, Phases
<1>1. CASE Tick
  BY <1>1 DEF Tick
<1>2. ASSUME NEW t \in Threads, NEW s \in Shares, BeginDestroy(t, s)
      PROVE  Phases'
  BY <1>2 DEF BeginDestroy, Remove, Idle
<1>3. ASSUME NEW t \in Threads, NEW f \in Files, RemoveFile(t, f)
      PROVE  Phases'
  BY <1>3 DEF RemoveFile, Unlink
<1>4. ASSUME NEW t \in Threads, CommitDestroy(t)
      PROVE  Phases'
  BY <1>4 DEF CommitDestroy, Commit, Release, Rest, InTransaction
<1>5. ASSUME NEW t \in Threads, CommitCheck(t)
      PROVE  Phases'
  BY <1>5 DEF CommitCheck, Commit, Release, Rest, InTransaction
<1>6. ASSUME NEW t \in Threads, Fail(t)
      PROVE  Phases'
  BY <1>6 DEF Fail, Release, Rest, Halt, InTransaction
<1>7. CASE Start
  BY <1>7 DEF Start, BeginCheck, Remove
<1>8. ASSUME NEW f \in Uploads, ScanFile(f)
      PROVE  Phases'
  BY <1>8 DEF ScanFile, Unlink
<1>9. CASE ScanDone
  BY <1>9 DEF ScanDone
<1>10. CASE TimerFires
  BY <1>10 DEF TimerFires, BeginCheck, Remove
<1>11. CASE Stop
  BY <1>11 DEF Stop, Halt
<1>12. CASE Crash
  BY <1>12 DEF Crash, Halt
<1>13. ASSUME NEW f \in Uploads, Upload(f)
       PROVE  Phases'
  BY <1>13 DEF Upload
<1>14. ASSUME NEW f \in Uploads, DropUpload(f)
       PROVE  Phases'
  BY <1>14 DEF DropUpload
<1>15. ASSUME NEW t \in Workers, NEW F \in SUBSET spool,
              StealSpool(t, F)
       PROVE  Phases'
  BY <1>15 DEF StealSpool, Idle
<1>16. ASSUME NEW t \in Workers, NEW s \in Shares, NEW v \in
              1..MaxValidity, CreateShare(t, s, v)
       PROVE  Phases'
  BY <1>16 DEF CreateShare, CanCreate, Record, Release, Rest
<1>17. ASSUME NEW t \in Workers, CreateFails(t)
       PROVE  Phases'
  BY <1>17 DEF CreateFails, Release, Rest
<1>18. ASSUME NEW c \in Commands, NEW s \in Shares, NEW F \in SUBSET
              Locals, NEW v \in 0..MaxValidity, CmdCreate(c, s, F, v)
       PROVE  Phases'
  BY <1>18 DEF CmdCreate, CanCreate, Record, Release, Rest, Idle
<1>19. CASE UNCHANGED vars
  BY <1>19
<1>q. QED BY <1>1, <1>2, <1>3, <1>4, <1>5, <1>6, <1>7, <1>8, <1>9, <1>10,
  <1>11, <1>12, <1>13, <1>14, <1>15, <1>16, <1>17, <1>18, <1>19 DEF Next,
  RemovalStep, ScanStep, CreationStep

\* Every step keeps names apart: uploads are owned, local files are not.
LEMMA NamesStep ==
    ASSUME TypeOK, Phases, Names, [Next]_vars
    PROVE  Names'
<1> USE StoreAssumption DEF TypeOK, vars, db, thread, Files, Threads,
  ServerThread, Phases, Names
<1>1. CASE Tick
  BY <1>1 DEF Tick
<1>2. ASSUME NEW t \in Threads, NEW s \in Shares, BeginDestroy(t, s)
      PROVE  Names'
  BY <1>2 DEF BeginDestroy, Remove, OwnedFiles
<1>3. ASSUME NEW t \in Threads, NEW f \in Files, RemoveFile(t, f)
      PROVE  Names'
  BY <1>3 DEF RemoveFile, Unlink
<1>4. ASSUME NEW t \in Threads, CommitDestroy(t)
      PROVE  Names'
  BY <1>4 DEF CommitDestroy, Commit, Release, Rest
<1>5. ASSUME NEW t \in Threads, CommitCheck(t)
      PROVE  Names'
  BY <1>5 DEF CommitCheck, Commit, Release, Rest
<1>6. ASSUME NEW t \in Threads, Fail(t)
      PROVE  Names'
  BY <1>6 DEF Fail, Release, Rest, Halt
<1>7. CASE Start
  BY <1>7 DEF Start, BeginCheck, Remove, OwnedFiles
<1>8. ASSUME NEW f \in Uploads, ScanFile(f)
      PROVE  Names'
  BY <1>8 DEF ScanFile, Unlink
<1>9. CASE ScanDone
  BY <1>9 DEF ScanDone
<1>10. CASE TimerFires
  BY <1>10 DEF TimerFires, BeginCheck, Remove, OwnedFiles
<1>11. CASE Stop
  BY <1>11 DEF Stop, Halt
<1>12. CASE Crash
  BY <1>12 DEF Crash, Halt
<1>13. ASSUME NEW f \in Uploads, Upload(f)
       PROVE  Names'
  BY <1>13 DEF Upload
<1>14. ASSUME NEW f \in Uploads, DropUpload(f)
       PROVE  Names'
  BY <1>14 DEF DropUpload
<1>15. ASSUME NEW t \in Workers, NEW F \in SUBSET spool,
              StealSpool(t, F)
       PROVE  Names'
  BY <1>15 DEF StealSpool
<1>16. ASSUME NEW t \in Workers, NEW s \in Shares, NEW v \in
              1..MaxValidity, CreateShare(t, s, v)
       PROVE  Names'
  BY <1>16 DEF CreateShare, CanCreate, Record, Release, Rest
<1>17. ASSUME NEW t \in Workers, CreateFails(t)
       PROVE  Names'
  BY <1>17 DEF CreateFails, Release, Rest
<1>18. ASSUME NEW c \in Commands, NEW s \in Shares, NEW F \in SUBSET
              Locals, NEW v \in 0..MaxValidity, CmdCreate(c, s, F, v)
       PROVE  Names'
  BY <1>18 DEF CmdCreate, CanCreate, Record, Release, Rest
<1>19. CASE UNCHANGED vars
  BY <1>19
<1>q. QED BY <1>1, <1>2, <1>3, <1>4, <1>5, <1>6, <1>7, <1>8, <1>9, <1>10,
  <1>11, <1>12, <1>13, <1>14, <1>15, <1>16, <1>17, <1>18, <1>19 DEF Next,
  RemovalStep, ScanStep, CreationStep

\* Every step leaves an upload in one hand.
LEMMA OneHolderStep ==
    ASSUME TypeOK, Phases, Names, OneHolder, [Next]_vars
    PROVE  OneHolder'
<1> USE StoreAssumption DEF TypeOK, vars, db, thread, Files, Threads,
  ServerThread, Phases, Names, OneHolder, OwnedFiles
<1>1. CASE Tick
  BY <1>1 DEF Tick
<1>2. ASSUME NEW t \in Threads, NEW s \in Shares, BeginDestroy(t, s)
      PROVE  OneHolder'
  BY <1>2 DEF BeginDestroy, Remove
<1>3. ASSUME NEW t \in Threads, NEW f \in Files, RemoveFile(t, f)
      PROVE  OneHolder'
  BY <1>3 DEF RemoveFile, Unlink
<1>4. ASSUME NEW t \in Threads, CommitDestroy(t)
      PROVE  OneHolder'
  BY <1>4 DEF CommitDestroy, Commit, Release, Rest
<1>5. ASSUME NEW t \in Threads, CommitCheck(t)
      PROVE  OneHolder'
  BY <1>5 DEF CommitCheck, Commit, Release, Rest
<1>6. ASSUME NEW t \in Threads, Fail(t)
      PROVE  OneHolder'
  BY <1>6 DEF Fail, Release, Rest, Halt
<1>7. CASE Start
  BY <1>7 DEF Start, BeginCheck, Remove
<1>8. ASSUME NEW f \in Uploads, ScanFile(f)
      PROVE  OneHolder'
  BY <1>8 DEF ScanFile, Unlink
<1>9. CASE ScanDone
  BY <1>9 DEF ScanDone
<1>10. CASE TimerFires
  BY <1>10 DEF TimerFires, BeginCheck, Remove
<1>11. CASE Stop
  BY <1>11 DEF Stop, Halt
<1>12. CASE Crash
  BY <1>12 DEF Crash, Halt
<1>13. ASSUME NEW f \in Uploads, Upload(f)
       PROVE  OneHolder'
  BY <1>13 DEF Upload
<1>14. ASSUME NEW f \in Uploads, DropUpload(f)
       PROVE  OneHolder'
  BY <1>14 DEF DropUpload
<1>15. ASSUME NEW t \in Workers, NEW F \in SUBSET spool,
              StealSpool(t, F)
       PROVE  OneHolder'
  BY <1>15 DEF StealSpool
<1>16. ASSUME NEW t \in Workers, NEW s \in Shares, NEW v \in
              1..MaxValidity, CreateShare(t, s, v)
       PROVE  OneHolder'
  BY <1>16 DEF CreateShare, CanCreate, Record, Release, Rest
<1>17. ASSUME NEW t \in Workers, CreateFails(t)
       PROVE  OneHolder'
  BY <1>17 DEF CreateFails, Release, Rest
<1>18. ASSUME NEW c \in Commands, NEW s \in Shares, NEW F \in SUBSET
              Locals, NEW v \in 0..MaxValidity, CmdCreate(c, s, F, v)
       PROVE  OneHolder'
  BY <1>18 DEF CmdCreate, CanCreate, Record, Release, Rest
<1>19. CASE UNCHANGED vars
  BY <1>19
<1>q. QED BY <1>1, <1>2, <1>3, <1>4, <1>5, <1>6, <1>7, <1>8, <1>9, <1>10,
  <1>11, <1>12, <1>13, <1>14, <1>15, <1>16, <1>17, <1>18, <1>19 DEF Next,
  RemovalStep, ScanStep, CreationStep

\* Every step keeps the files that are spooled or about to be recorded.
LEMMA PresentStep ==
    ASSUME TypeOK, Phases, Names, OneHolder, RemovalsExact, Present,
      [Next]_vars
    PROVE  Present'
<1> USE StoreAssumption DEF TypeOK, vars, db, thread, Files, Threads,
  ServerThread, Phases, Names, OneHolder, RemovalsExact, Present, OwnedFiles,
  InTransaction
<1>1. CASE Tick
  BY <1>1 DEF Tick
<1>2. ASSUME NEW t \in Threads, NEW s \in Shares, BeginDestroy(t, s)
      PROVE  Present'
  BY <1>2 DEF BeginDestroy, Remove
<1>3. ASSUME NEW t \in Threads, NEW f \in Files, RemoveFile(t, f)
      PROVE  Present'
  BY <1>3 DEF RemoveFile, Unlink
<1>4. ASSUME NEW t \in Threads, CommitDestroy(t)
      PROVE  Present'
  BY <1>4 DEF CommitDestroy, Commit, Release, Rest
<1>5. ASSUME NEW t \in Threads, CommitCheck(t)
      PROVE  Present'
  BY <1>5 DEF CommitCheck, Commit, Release, Rest
<1>6. ASSUME NEW t \in Threads, Fail(t)
      PROVE  Present'
  BY <1>6 DEF Fail, Release, Rest, Halt
<1>7. CASE Start
  BY <1>7 DEF Start, BeginCheck, Remove
<1>8. ASSUME NEW f \in Uploads, ScanFile(f)
      PROVE  Present'
  BY <1>8 DEF ScanFile, Unlink
<1>9. CASE ScanDone
  BY <1>9 DEF ScanDone
<1>10. CASE TimerFires
  BY <1>10 DEF TimerFires, BeginCheck, Remove
<1>11. CASE Stop
  BY <1>11 DEF Stop, Halt
<1>12. CASE Crash
  BY <1>12 DEF Crash, Halt
<1>13. ASSUME NEW f \in Uploads, Upload(f)
       PROVE  Present'
  BY <1>13 DEF Upload
<1>14. ASSUME NEW f \in Uploads, DropUpload(f)
       PROVE  Present'
  BY <1>14 DEF DropUpload
<1>15. ASSUME NEW t \in Workers, NEW F \in SUBSET spool,
              StealSpool(t, F)
       PROVE  Present'
  BY <1>15 DEF StealSpool
<1>16. ASSUME NEW t \in Workers, NEW s \in Shares, NEW v \in
              1..MaxValidity, CreateShare(t, s, v)
       PROVE  Present'
  BY <1>16 DEF CreateShare, CanCreate, Record, Release, Rest
<1>17. ASSUME NEW t \in Workers, CreateFails(t)
       PROVE  Present'
  BY <1>17 DEF CreateFails, Release, Rest
<1>18. ASSUME NEW c \in Commands, NEW s \in Shares, NEW F \in SUBSET
              Locals, NEW v \in 0..MaxValidity, CmdCreate(c, s, F, v)
       PROVE  Present'
  BY <1>18 DEF CmdCreate, CanCreate, Record, Release, Rest
<1>19. CASE UNCHANGED vars
  BY <1>19
<1>q. QED BY <1>1, <1>2, <1>3, <1>4, <1>5, <1>6, <1>7, <1>8, <1>9, <1>10,
  <1>11, <1>12, <1>13, <1>14, <1>15, <1>16, <1>17, <1>18, <1>19 DEF Next,
  RemovalStep, ScanStep, CreationStep

\* Every step keeps removals exact.
LEMMA RemovalsStep ==
    ASSUME TypeOK, Phases, Names, OneHolder, RemovalsExact, [Next]_vars
    PROVE  RemovalsExact'
<1> USE StoreAssumption DEF TypeOK, vars, db, thread, Files, Threads,
  ServerThread, Phases, Names, RemovalsExact, OwnedFiles, InTransaction
<1>1. CASE Tick
  BY <1>1 DEF Tick
<1>2. ASSUME NEW t \in Threads, NEW s \in Shares, BeginDestroy(t, s)
      PROVE  RemovalsExact'
  BY <1>2 DEF BeginDestroy, Remove
<1>3. ASSUME NEW t \in Threads, NEW f \in Files, RemoveFile(t, f)
      PROVE  RemovalsExact'
  BY <1>3 DEF RemoveFile, Unlink, Proc, Processes
<1>4. ASSUME NEW t \in Threads, CommitDestroy(t)
      PROVE  RemovalsExact'
  BY <1>4 DEF CommitDestroy, Commit, Release, Rest
<1>5. ASSUME NEW t \in Threads, CommitCheck(t)
      PROVE  RemovalsExact'
  BY <1>5 DEF CommitCheck, Commit, Release, Rest
<1>6. ASSUME NEW t \in Threads, Fail(t)
      PROVE  RemovalsExact'
  BY <1>6 DEF Fail, Release, Rest, Halt
<1>7. CASE Start
  BY <1>7 DEF Start, BeginCheck, Remove
<1>8. ASSUME NEW f \in Uploads, ScanFile(f)
      PROVE  RemovalsExact'
  BY <1>8 DEF ScanFile, Unlink
<1>9. CASE ScanDone
  BY <1>9 DEF ScanDone
<1>10. CASE TimerFires
  BY <1>10 DEF TimerFires, BeginCheck, Remove
<1>11. CASE Stop
  BY <1>11 DEF Stop, Halt
<1>12. CASE Crash
  BY <1>12 DEF Crash, Halt
<1>13. ASSUME NEW f \in Uploads, Upload(f)
       PROVE  RemovalsExact'
  BY <1>13 DEF Upload
<1>14. ASSUME NEW f \in Uploads, DropUpload(f)
       PROVE  RemovalsExact'
  BY <1>14 DEF DropUpload
<1>15. ASSUME NEW t \in Workers, NEW F \in SUBSET spool,
              StealSpool(t, F)
       PROVE  RemovalsExact'
  BY <1>15 DEF StealSpool
<1>16. ASSUME NEW t \in Workers, NEW s \in Shares, NEW v \in
              1..MaxValidity, CreateShare(t, s, v)
       PROVE  RemovalsExact'
  BY <1>16 DEF CreateShare, CanCreate, Record, Release, Rest
<1>17. ASSUME NEW t \in Workers, CreateFails(t)
       PROVE  RemovalsExact'
  BY <1>17 DEF CreateFails, Release, Rest
<1>18. ASSUME NEW c \in Commands, NEW s \in Shares, NEW F \in SUBSET
              Locals, NEW v \in 0..MaxValidity, CmdCreate(c, s, F, v)
       PROVE  RemovalsExact'
  BY <1>18 DEF CmdCreate, CanCreate, Record, Release, Rest
<1>19. CASE UNCHANGED vars
  BY <1>19
<1>q. QED BY <1>1, <1>2, <1>3, <1>4, <1>5, <1>6, <1>7, <1>8, <1>9, <1>10,
  <1>11, <1>12, <1>13, <1>14, <1>15, <1>16, <1>17, <1>18, <1>19 DEF Next,
  RemovalStep, ScanStep, CreationStep

\* From the working directory, every step leaves nothing of a share that is gone
\* but what it was refused.
LEMMA GoneStep ==
    ASSUME TypeOK, Phases, Names, OneHolder, RemovalsExact, InWorkingDir =
      Processes, GoneMeansDeleted, [Next]_vars
    PROVE  GoneMeansDeleted'
<1> USE StoreAssumption DEF TypeOK, vars, db, thread, Files, Threads,
  ServerThread, Phases, Names, RemovalsExact, OwnedFiles, InTransaction,
  GoneMeansDeleted
<1>1. CASE Tick
  BY <1>1 DEF Tick
<1>2. ASSUME NEW t \in Threads, NEW s \in Shares, BeginDestroy(t, s)
      PROVE  GoneMeansDeleted'
  BY <1>2 DEF BeginDestroy, Remove
<1>3. ASSUME NEW t \in Threads, NEW f \in Files, RemoveFile(t, f)
      PROVE  GoneMeansDeleted'
  BY <1>3 DEF RemoveFile, Unlink
<1>4. ASSUME NEW t \in Threads, CommitDestroy(t)
      PROVE  GoneMeansDeleted'
  BY <1>4 DEF CommitDestroy, Commit, Release, Rest
<1>5. ASSUME NEW t \in Threads, CommitCheck(t)
      PROVE  GoneMeansDeleted'
  BY <1>5 DEF CommitCheck, Commit, Release, Rest
<1>6. ASSUME NEW t \in Threads, Fail(t)
      PROVE  GoneMeansDeleted'
  BY <1>6 DEF Fail, Release, Rest, Halt
<1>7. CASE Start
  BY <1>7 DEF Start, BeginCheck, Remove
<1>8. ASSUME NEW f \in Uploads, ScanFile(f)
      PROVE  GoneMeansDeleted'
  BY <1>8 DEF ScanFile, Unlink
<1>9. CASE ScanDone
  BY <1>9 DEF ScanDone
<1>10. CASE TimerFires
  BY <1>10 DEF TimerFires, BeginCheck, Remove
<1>11. CASE Stop
  BY <1>11 DEF Stop, Halt
<1>12. CASE Crash
  BY <1>12 DEF Crash, Halt
<1>13. ASSUME NEW f \in Uploads, Upload(f)
       PROVE  GoneMeansDeleted'
  BY <1>13 DEF Upload
<1>14. ASSUME NEW f \in Uploads, DropUpload(f)
       PROVE  GoneMeansDeleted'
  BY <1>14 DEF DropUpload
<1>15. ASSUME NEW t \in Workers, NEW F \in SUBSET spool,
              StealSpool(t, F)
       PROVE  GoneMeansDeleted'
  BY <1>15 DEF StealSpool
<1>16. ASSUME NEW t \in Workers, NEW s \in Shares, NEW v \in
              1..MaxValidity, CreateShare(t, s, v)
       PROVE  GoneMeansDeleted'
  BY <1>16 DEF CreateShare, CanCreate, Record, Release, Rest
<1>17. ASSUME NEW t \in Workers, CreateFails(t)
       PROVE  GoneMeansDeleted'
  BY <1>17 DEF CreateFails, Release, Rest
<1>18. ASSUME NEW c \in Commands, NEW s \in Shares, NEW F \in SUBSET
              Locals, NEW v \in 0..MaxValidity, CmdCreate(c, s, F, v)
       PROVE  GoneMeansDeleted'
  BY <1>18 DEF CmdCreate, CanCreate, Record, Release, Rest
<1>19. CASE UNCHANGED vars
  BY <1>19
<1>q. QED BY <1>1, <1>2, <1>3, <1>4, <1>5, <1>6, <1>7, <1>8, <1>9, <1>10,
  <1>11, <1>12, <1>13, <1>14, <1>15, <1>16, <1>17, <1>18, <1>19 DEF Next,
  RemovalStep, ScanStep, CreationStep

\* Every step keeps the scan complete.
LEMMA ScanCoversStep ==
    ASSUME TypeOK, Phases, Names, RemovalsExact, ScanCovers, [Next]_vars
    PROVE  ScanCovers'
<1> USE StoreAssumption DEF TypeOK, vars, db, thread, Files, Threads,
  ServerThread, Phases, Names, RemovalsExact, OwnedFiles, InTransaction,
  ScanCovers, Referenced
<1>1. CASE Tick
  BY <1>1 DEF Tick
<1>2. ASSUME NEW t \in Threads, NEW s \in Shares, BeginDestroy(t, s)
      PROVE  ScanCovers'
  BY <1>2 DEF BeginDestroy, Remove
<1>3. ASSUME NEW t \in Threads, NEW f \in Files, RemoveFile(t, f)
      PROVE  ScanCovers'
  BY <1>3 DEF RemoveFile, Unlink
<1>4. ASSUME NEW t \in Threads, CommitDestroy(t)
      PROVE  ScanCovers'
  BY <1>4 DEF CommitDestroy, Commit, Release, Rest
<1>5. ASSUME NEW t \in Threads, CommitCheck(t)
      PROVE  ScanCovers'
  BY <1>5 DEF CommitCheck, Commit, Release, Rest
<1>6. ASSUME NEW t \in Threads, Fail(t)
      PROVE  ScanCovers'
  BY <1>6 DEF Fail, Release, Rest, Halt
<1>7. CASE Start
  BY <1>7 DEF Start, BeginCheck, Remove
<1>8. ASSUME NEW f \in Uploads, ScanFile(f)
      PROVE  ScanCovers'
  BY <1>8 DEF ScanFile, Unlink
<1>9. CASE ScanDone
  BY <1>9 DEF ScanDone
<1>10. CASE TimerFires
  BY <1>10 DEF TimerFires, BeginCheck, Remove
<1>11. CASE Stop
  BY <1>11 DEF Stop, Halt
<1>12. CASE Crash
  BY <1>12 DEF Crash, Halt
<1>13. ASSUME NEW f \in Uploads, Upload(f)
       PROVE  ScanCovers'
  BY <1>13 DEF Upload
<1>14. ASSUME NEW f \in Uploads, DropUpload(f)
       PROVE  ScanCovers'
  BY <1>14 DEF DropUpload
<1>15. ASSUME NEW t \in Workers, NEW F \in SUBSET spool,
              StealSpool(t, F)
       PROVE  ScanCovers'
  BY <1>15 DEF StealSpool
<1>16. ASSUME NEW t \in Workers, NEW s \in Shares, NEW v \in
              1..MaxValidity, CreateShare(t, s, v)
       PROVE  ScanCovers'
  BY <1>16 DEF CreateShare, CanCreate, Record, Release, Rest
<1>17. ASSUME NEW t \in Workers, CreateFails(t)
       PROVE  ScanCovers'
  BY <1>17 DEF CreateFails, Release, Rest
<1>18. ASSUME NEW c \in Commands, NEW s \in Shares, NEW F \in SUBSET
              Locals, NEW v \in 0..MaxValidity, CmdCreate(c, s, F, v)
       PROVE  ScanCovers'
  BY <1>18 DEF CmdCreate, CanCreate, Record, Release, Rest
<1>19. CASE UNCHANGED vars
  BY <1>19
<1>q. QED BY <1>1, <1>2, <1>3, <1>4, <1>5, <1>6, <1>7, <1>8, <1>9, <1>10,
  <1>11, <1>12, <1>13, <1>14, <1>15, <1>16, <1>17, <1>18, <1>19 DEF Next,
  RemovalStep, ScanStep, CreationStep

\* Every step keeps the checks in time.
LEMMA ChecksStep ==
    ASSUME TypeOK, Phases, RemovalsExact, ChecksInTime, [Next]_vars
    PROVE  ChecksInTime'
<1> USE StoreAssumption DEF TypeOK, vars, db, thread, Files, Threads,
  ServerThread, Phases, InTransaction, ChecksInTime
<1>1. CASE Tick
  BY <1>1 DEF Tick, CheckPending
<1>2. ASSUME NEW t \in Threads, NEW s \in Shares, BeginDestroy(t, s)
      PROVE  ChecksInTime'
  BY <1>2 DEF BeginDestroy, Remove
<1>3. ASSUME NEW t \in Threads, NEW f \in Files, RemoveFile(t, f)
      PROVE  ChecksInTime'
  BY <1>3 DEF RemoveFile, Unlink
<1>4. ASSUME NEW t \in Threads, CommitDestroy(t)
      PROVE  ChecksInTime'
  BY <1>4 DEF CommitDestroy, Commit, Release, Rest
<1>5. ASSUME NEW t \in Threads, CommitCheck(t)
      PROVE  ChecksInTime'
  BY <1>5 DEF CommitCheck, Commit, Release, Rest
<1>6. ASSUME NEW t \in Threads, Fail(t)
      PROVE  ChecksInTime'
  BY <1>6 DEF Fail, Release, Rest, Halt
<1>7. CASE Start
  BY <1>7 DEF Start, BeginCheck, Remove
<1>8. ASSUME NEW f \in Uploads, ScanFile(f)
      PROVE  ChecksInTime'
  BY <1>8 DEF ScanFile, Unlink
<1>9. CASE ScanDone
  BY <1>9 DEF ScanDone
<1>10. CASE TimerFires
  BY <1>10 DEF TimerFires, BeginCheck, Remove
<1>11. CASE Stop
  BY <1>11 DEF Stop, Halt
<1>12. CASE Crash
  BY <1>12 DEF Crash, Halt
<1>13. ASSUME NEW f \in Uploads, Upload(f)
       PROVE  ChecksInTime'
  BY <1>13 DEF Upload
<1>14. ASSUME NEW f \in Uploads, DropUpload(f)
       PROVE  ChecksInTime'
  BY <1>14 DEF DropUpload
<1>15. ASSUME NEW t \in Workers, NEW F \in SUBSET spool,
              StealSpool(t, F)
       PROVE  ChecksInTime'
  BY <1>15 DEF StealSpool
<1>16. ASSUME NEW t \in Workers, NEW s \in Shares, NEW v \in
              1..MaxValidity, CreateShare(t, s, v)
       PROVE  ChecksInTime'
  BY <1>16 DEF CreateShare, CanCreate, Record, Release, Rest
<1>17. ASSUME NEW t \in Workers, CreateFails(t)
       PROVE  ChecksInTime'
  BY <1>17 DEF CreateFails, Release, Rest
<1>18. ASSUME NEW c \in Commands, NEW s \in Shares, NEW F \in SUBSET
              Locals, NEW v \in 0..MaxValidity, CmdCreate(c, s, F, v)
       PROVE  ChecksInTime'
  BY <1>18 DEF CmdCreate, CanCreate, Record, Release, Rest
<1>19. CASE UNCHANGED vars
  BY <1>19
<1>q. QED BY <1>1, <1>2, <1>3, <1>4, <1>5, <1>6, <1>7, <1>8, <1>9, <1>10,
  <1>11, <1>12, <1>13, <1>14, <1>15, <1>16, <1>17, <1>18, <1>19 DEF Next,
  RemovalStep, ScanStep, CreationStep


\* No step deletes a file that is not an upload.
LEMMA LocalsStep ==
    ASSUME TypeOK, Phases, Names, OneHolder, LocalsUntouched, [Next]_vars
    PROVE  LocalsUntouched'
<1>1. \A f \in Locals : f \notin Uploads
  BY StoreAssumption
<1>2. disk \ disk' \subseteq Uploads
  BY DEF Next, vars, TypeOK, Names, RemovalStep, ScanStep, CreationStep, Tick, RemoveFile, Unlink,
         CommitDestroy, CommitCheck, Commit, Fail, BeginDestroy, Remove, Start, BeginCheck,
         ScanFile, ScanDone, TimerFires, Stop, Crash, Upload, DropUpload, StealSpool,
         CreateShare, CreateFails, CmdCreate
<1> QED BY <1>1, <1>2 DEF LocalsUntouched

-----------------------------------------------------------------------------
\* The empty store satisfies the invariant.
LEMMA InitIInv == Init => IInv /\ LocalsUntouched
BY StoreAssumption
DEF Init, IInv, TypeOK, Phases, OneHolder, Names, Present, RemovalsExact, ScanCovers,
    ChecksInTime, GoneMeansDeleted, LocalsUntouched, OwnedFiles, InTransaction, Files,
    Threads, ServerThread

\* Every step keeps the invariant: the lemmas above, one for each conjunct.
LEMMA NextIInv == IInv /\ [Next]_vars => IInv'
<1> SUFFICES ASSUME IInv, [Next]_vars PROVE IInv'
  OBVIOUS
<1>1. TypeOK /\ Phases /\ OneHolder /\ Names /\ Present /\ RemovalsExact
  BY DEF IInv
<1>2. ScanCovers /\ ChecksInTime /\ (InWorkingDir = Processes => GoneMeansDeleted)
  BY DEF IInv
<1>3. TypeOK' /\ Phases' /\ OneHolder' /\ Names' /\ Present' /\ RemovalsExact'
  BY <1>1, TypeStep, PhasesStep, OneHolderStep, NamesStep, PresentStep, RemovalsStep
<1>4. ScanCovers' /\ ChecksInTime' /\ (InWorkingDir = Processes => GoneMeansDeleted')
  BY <1>1, <1>2, ScanCoversStep, ChecksStep, GoneStep
<1> QED BY <1>3, <1>4 DEF IInv

\* Everything the store maintains, in one inductive invariant.
THEOREM StoreInvariant == Spec => []IInv
BY InitIInv, NextIInv, PTL DEF Spec

\* The types of the variables.
THEOREM TypeCorrectness == Spec => []TypeOK
<1>1. IInv => TypeOK
  BY DEF IInv
<1> QED BY <1>1, StoreInvariant, PTL

\* Between two checks of a running server, no share is in the database for longer
\* than the two hours of grace and one period of the timer after it expired.
THEOREM ExpiredSharesCleaned == Spec => []CleanedInTime
<1>1. IInv => CleanedInTime
  BY StoreAssumption DEF IInv, TypeOK, ChecksInTime, CleanedInTime
<1> QED BY <1>1, StoreInvariant, PTL

\* An upload is never in two hands, so no two of them ever delete or record it.
THEOREM UploadsHaveOneHolder == Spec => []OneHolder
<1>1. IInv => OneHolder
  BY DEF IInv
<1> QED BY <1>1, StoreInvariant, PTL

\* Files shared in place by fileshelter-cmd survive whatever happens to the share.
THEOREM LocalFilesSurvive == Spec => []LocalsUntouched
<1>1. IInv /\ LocalsUntouched /\ [Next]_vars => LocalsUntouched'
  BY LocalsStep DEF IInv
<1> QED BY <1>1, InitIInv, StoreInvariant, PTL DEF Spec

\* If every process runs in the working directory, a share that is gone has left
\* none of its own files but those the system refused to unlink, whichever failures
\* and crashes came in between.
THEOREM NothingLeftBehind ==
    ASSUME InWorkingDir = Processes
    PROVE  Spec => []GoneMeansDeleted
<1>1. IInv => GoneMeansDeleted
  BY DEF IInv
<1> QED BY <1>1, StoreInvariant, PTL

\* A file of a recorded share disappears only under a transaction that removes
\* that very share.
THEOREM FilesVanishInRemovalsOnly == Spec => VanishOnlyInRemoval
<1>1. IInv /\ [Next]_vars =>
         [\A s \in rows : OwnedFiles(s) \cap (disk \ disk') # {} => s \in BeingRemoved]_vars
  <2> SUFFICES ASSUME IInv, Next, NEW s \in rows, NEW g \in OwnedFiles(s), g \in disk, g \notin disk'
               PROVE  s \in BeingRemoved
    OBVIOUS
  <2> USE DEF IInv, TypeOK
  <2>1. ASSUME NEW t \in Threads, NEW f \in Files, RemoveFile(t, f)
        PROVE  s \in BeingRemoved
    BY <2>1 DEF RemoveFile, Unlink, RemovalsExact, OneHolder, BeingRemoved
  <2>2. ASSUME NEW f \in Uploads, ScanFile(f)
        PROVE  FALSE
    BY <2>2 DEF ScanFile, Unlink, Referenced, OwnedFiles
  <2>3. ASSUME Stop \/ \E f \in Uploads : DropUpload(f)
        PROVE  FALSE
    BY <2>3 DEF Stop, DropUpload, OneHolder
  <2> QED
    BY <2>1, <2>2, <2>3
    DEF Next, RemovalStep, ScanStep, CreationStep, Tick, CommitDestroy, CommitCheck,
        Commit, Fail, BeginDestroy, Remove, Start, BeginCheck, ScanDone, TimerFires,
        Crash, Upload, StealSpool, CreateShare, CreateFails, CmdCreate
<1> QED BY <1>1, StoreInvariant, PTL DEF Spec, VanishOnlyInRemoval

\* Commands that are idle have always been, and a run without faults has had none.
LEMMA FaultlessBefore ==
    ASSUME IInv, Next, faults' = 0, \A c \in Commands : kind'[c] = "idle"
    PROVE  /\ faults = 0 /\ \A c \in Commands : kind[c] = "idle"
           /\ ~Crash /\ \A t \in Threads : ~Fail(t)
           /\ \A c \in Commands, s \in Shares, F \in SUBSET Locals, v \in 0..MaxValidity :
                 ~CmdCreate(c, s, F, v)
<1> USE StoreAssumption DEF IInv, TypeOK, Threads, ServerThread, vars, db, thread
<1>1. ASSUME NEW c \in Commands, kind[c] # "idle" PROVE kind'[c] # "idle"
  <2>1. c \notin ServerThread /\ c # Main /\ c # Cleaner /\ c \in Threads
    OBVIOUS
  <2>2. ASSUME NEW t \in Threads, RemovalStep(t) PROVE kind'[c] # "idle"
    BY <1>1, <2>1, <2>2
    DEF RemovalStep, RemoveFile, Unlink, CommitDestroy, CommitCheck, Fail, Halt, Release, Rest
  <2>3. ASSUME NEW t \in Threads, NEW s \in Shares, BeginDestroy(t, s) PROVE kind'[c] # "idle"
    BY <1>1, <2>1, <2>3 DEF BeginDestroy, Remove
  <2>4. CASE Start \/ ScanStep \/ TimerFires
    BY <1>1, <2>1, <2>4 DEF Start, ScanStep, ScanFile, Unlink, ScanDone, TimerFires, BeginCheck, Remove
  <2>5. CASE Tick \/ Stop \/ Crash \/ \E f \in Uploads : Upload(f) \/ DropUpload(f)
    BY <1>1, <2>1, <2>5 DEF Tick, Stop, Crash, Halt, Upload, DropUpload
  <2>6. ASSUME NEW t \in Workers, CreationStep(t) \/ \E F \in SUBSET spool : StealSpool(t, F)
        PROVE  kind'[c] # "idle"
    BY <1>1, <2>1, <2>6 DEF CreationStep, CreateShare, CreateFails, StealSpool, Release, Rest
  <2>7. ASSUME NEW d \in Commands, NEW s \in Shares, NEW F \in SUBSET Locals,
               NEW v \in 0..MaxValidity, CmdCreate(d, s, F, v)
        PROVE  kind'[c] # "idle"
    BY <1>1, <2>1, <2>7 DEF CmdCreate, Release, Rest
  <2> QED BY <2>2, <2>3, <2>4, <2>5, <2>6, <2>7 DEF Next
<1>2. faults \in Nat /\ (faults' = faults \/ faults' = faults + 1)
  BY DEF Next, RemovalStep, ScanStep, CreationStep, Tick, RemoveFile, Unlink, CommitDestroy,
      CommitCheck, Commit, Fail, BeginDestroy, Remove, Start, BeginCheck, ScanFile, ScanDone,
      TimerFires, Stop, Crash, Halt, Upload, DropUpload, StealSpool, CreateShare,
      CreateFails, CmdCreate
<1>3. faults = 0 /\ faults' = faults
  BY <1>2
<1>4. \A c \in Commands : kind[c] = "idle"
  BY <1>1
<1>5. ~Crash
  BY <1>3 DEF Crash
<1>6. ASSUME NEW t \in Threads, Fail(t) PROVE FALSE
  BY <1>3, <1>4, <1>6 DEF Fail, Conflict, InTransaction, Proc
<1>7. \A c \in Commands, s \in Shares, F \in SUBSET Locals, v \in 0..MaxValidity :
         ~CmdCreate(c, s, F, v)
  BY DEF CmdCreate, Release, Rest
<1> QED BY <1>3, <1>4, <1>5, <1>6, <1>7

\* Sessions, checks and restarts alone do not damage a share nobody removes.
LEMMA WholeStep ==
    ASSUME IInv, LocalsUntouched, WholeUnlessFaults, Next PROVE WholeUnlessFaults'
<1> SUFFICES ASSUME faults' = 0, \A c \in Commands : kind'[c] = "idle",
                    NEW s \in rows', s \notin BeingRemoved', NEW g \in content'[s]
             PROVE  g \in disk'
  BY DEF WholeUnlessFaults
<1>1. /\ faults = 0 /\ \A c \in Commands : kind[c] = "idle"
      /\ ~Crash /\ \A t \in Threads : ~Fail(t)
      /\ \A c \in Commands, r \in Shares, F \in SUBSET Locals, v \in 0..MaxValidity :
            ~CmdCreate(c, r, F, v)
  BY FaultlessBefore
<1> USE StoreAssumption DEF IInv, TypeOK, Threads, ServerThread, db, thread
<1>2. s \in rows \ BeingRemoved /\ g \in content[s] => g \in disk
  BY <1>1 DEF WholeUnlessFaults
<1>3. g \in content[s] /\ s \in rows => g \in OwnedFiles(s) \/ g \in Locals
  BY DEF OwnedFiles, Names
<1>4. ASSUME NEW t \in Threads, NEW f \in Files, RemoveFile(t, f)
      PROVE  g \in disk'
  <2>1. s \in rows \ BeingRemoved /\ g \in content[s]
    BY <1>4 DEF RemoveFile, Unlink, BeingRemoved, InTransaction
  <2>2. g # f
    BY <1>4, <2>1, <1>3 DEF RemoveFile, Unlink, RemovalsExact, OneHolder, BeingRemoved, Names
  <2> QED BY <1>2, <1>4, <2>1, <2>2 DEF RemoveFile, Unlink
<1>5. ASSUME NEW t \in Threads, CommitDestroy(t) \/ CommitCheck(t)
      PROVE  g \in disk'
  <2>1. s \in rows \ victims[t] /\ g \in content[s] /\ disk' = disk
    BY <1>5 DEF CommitDestroy, CommitCheck, Commit
  <2>2. \A u \in Threads \ {t} : kind'[u] = kind[u] /\ victims'[u] = victims[u]
    BY <1>5 DEF CommitDestroy, CommitCheck, Release
  <2>3. s \notin BeingRemoved
    BY <2>1, <2>2 DEF BeingRemoved, InTransaction
  <2> QED BY <1>2, <2>1, <2>3
<1>6. ASSUME NEW t \in Threads, NEW k, NEW X, Remove(t, k, X)
      PROVE  g \in disk'
  <2>1. s \in rows /\ g \in content[s] /\ disk' = disk /\ ~InTransaction(t)
    BY <1>6 DEF Remove, ConnectionFree
  <2>2. s \notin BeingRemoved
    BY <1>6, <2>1 DEF Remove, BeingRemoved, InTransaction
  <2> QED BY <1>2, <2>1, <2>2
<1>7. ASSUME NEW f \in Uploads, ScanFile(f) \/ Upload(f) \/ DropUpload(f)
      PROVE  g \in disk'
  <2>1. s \in rows \ BeingRemoved /\ g \in content[s]
    BY <1>7 DEF ScanFile, Unlink, Upload, DropUpload, BeingRemoved, InTransaction
  <2>2. g \in Referenced /\ g \notin spool
    BY <1>3, <2>1 DEF Referenced, OneHolder
  <2> QED BY <1>2, <1>7, <2>1, <2>2 DEF ScanFile, Unlink, Upload, DropUpload
<1>8. CASE Stop
  <2>1. s \in rows \ BeingRemoved /\ g \in content[s]
    BY <1>1, <1>8 DEF Stop, BeingRemoved, InTransaction
  <2>2. g \notin spool
    BY <1>3, <2>1 DEF OneHolder
  <2> QED BY <1>2, <1>8, <2>1, <2>2 DEF Stop
<1>9. CASE Tick \/ ScanDone
  BY <1>2, <1>9 DEF Tick, ScanDone, BeingRemoved, InTransaction
<1>10. ASSUME NEW t \in Workers, (\E F \in SUBSET spool : StealSpool(t, F)) \/ CreateFails(t)
       PROVE  g \in disk'
  BY <1>2, <1>10 DEF StealSpool, CreateFails, Release, Rest, Idle, BeingRemoved, InTransaction
<1>11. ASSUME NEW t \in Workers, NEW r \in Shares, NEW v \in 1..MaxValidity, CreateShare(t, r, v)
       PROVE  g \in disk'
  <2>1. CASE s = r
    BY <1>11, <2>1 DEF CreateShare, Record, Present
  <2>2. CASE s # r
    BY <1>2, <1>11, <2>2 DEF CreateShare, Record, Release, Rest, BeingRemoved, InTransaction
  <2> QED BY <2>1, <2>2
<1> QED
  BY <1>1, <1>4, <1>5, <1>6, <1>7, <1>8, <1>9, <1>10, <1>11
  DEF Next, RemovalStep, ScanStep, CreationStep, BeginDestroy, Start, TimerFires, BeginCheck

\* A share that nobody removes is whole as long as nothing failed and no command
\* could be in the server's way: the locks of the server's own threads are enough.
THEOREM WholeWithoutFaults == Spec => []WholeUnlessFaults
<1>1. Init => WholeUnlessFaults /\ LocalsUntouched
  BY DEF Init, WholeUnlessFaults, LocalsUntouched
<1>2. IInv /\ LocalsUntouched /\ [Next]_vars => LocalsUntouched'
  BY LocalsStep DEF IInv
<1>3. IInv /\ LocalsUntouched /\ WholeUnlessFaults /\ [Next]_vars => WholeUnlessFaults'
  <2>1. CASE UNCHANGED vars
    BY <2>1 DEF vars, WholeUnlessFaults, BeingRemoved, InTransaction
  <2> QED BY <2>1, WholeStep
<1> QED BY <1>1, <1>2, <1>3, StoreInvariant, PTL DEF Spec

\* When the server opens, nothing in the upload directory is unrecorded but what
\* the system refused to unlink.
THEOREM CleanStart ==
    ASSUME InWorkingDir = Processes
    PROVE  Spec => NoOrphanAfterStartup
<1>1. IInv /\ [Next]_vars =>
         [server = "orphans" /\ server' = "serving"
             => disk' \cap Uploads \subseteq Referenced' \cup kept']_vars
  <2> SUFFICES ASSUME IInv, Next, server = "orphans", server' = "serving"
               PROVE  disk' \cap Uploads \subseteq Referenced' \cup kept'
    OBVIOUS
  <2>1. ScanDone
    BY DEF Next, RemovalStep, ScanStep, CreationStep, Tick, RemoveFile, Unlink, CommitDestroy,
           CommitCheck, Commit, Fail, BeginDestroy, Remove, Start, BeginCheck, ScanFile,
           TimerFires, Stop, Crash, Halt, Upload, DropUpload, StealSpool, CreateShare,
           CreateFails, CmdCreate
  <2> QED BY <2>1 DEF ScanDone, IInv, ScanCovers, Referenced, db
<1> QED BY <1>1, StoreInvariant, PTL DEF Spec, NoOrphanAfterStartup
-----------------------------------------------------------------------------
\* A step that starts to remove the shares in S, and changes the status of no
\* other share, is a step of ShareLifecycle.
LEMMA BeginMaps ==
    ASSUME NEW S \in SUBSET Shares, UNCHANGED <<now, expiry>>,
           \A s \in S : Status(s) \in {"available", "damaged"} /\ Lifecycle!MayRemove(s),
           \A s \in Shares : Status(s)' = IF s \in S THEN "removing" ELSE Status(s)
    PROVE  Lifecycle!Next
<1>1. Lifecycle!BeginRemoval(S)
  BY DEF Lifecycle!BeginRemoval
<1> QED BY <1>1 DEF Lifecycle!Next

\* The status of a share is one of ShareLifecycle's, or "leaked".
LEMMA StatusRange ==
    ASSUME NEW s \in Shares PROVE Status(s) \in Lifecycle!Statuses \cup {"leaked"}
BY DEF Status, Lifecycle!Statuses

\* So is a step that ends the removal of the shares in S...
LEMMA EndMaps ==
    ASSUME NEW S \in SUBSET Shares, UNCHANGED <<now, expiry>>,
           \A s \in S : Status(s) = "removing",
           \A s \in Shares : IF s \in S THEN Status(s)' \in {"gone", "left"}
                                        ELSE Status(s)' = Status(s),
           \A s \in Shares : Status(s) # "leaked"
    PROVE  Lifecycle!Next
<1>1. \A s \in Shares : Status(s)' \in Lifecycle!Statuses
  BY StatusRange DEF Lifecycle!Statuses
<1>2. Lifecycle!EndRemoval(S)
  <2> SUFFICES [s \in Shares |-> Status(s)'] \in [Shares -> Lifecycle!Statuses]
    BY DEF Lifecycle!EndRemoval
  <2> QED BY <1>1
<1> QED BY <1>2 DEF Lifecycle!Next

\* ...a step that gets hold of a file that was left behind...
LEMMA SweepMaps ==
    ASSUME NEW s \in Shares, UNCHANGED <<now, expiry>>,
           Status(s) = "left", Status(s)' = "gone",
           \A r \in Shares \ {s} : Status(r)' = Status(r)
    PROVE  Lifecycle!Next
<1>1. Lifecycle!Sweep(s)
  BY DEF Lifecycle!Sweep
<1> QED BY <1>1 DEF Lifecycle!Next

\* ...or one that changes the status of shares being removed only, and leaves
\* each of these recorded.
LEMMA AbandonMaps ==
    ASSUME UNCHANGED <<now, expiry>>,
           \A s \in Shares : Status(s)' # Status(s) =>
              Status(s) = "removing" /\ Status(s)' \in {"available", "damaged"},
           \A s \in Shares : Status(s) # "leaked"
    PROVE  Lifecycle!Next
<1> DEFINE S == {s \in Shares : Status(s)' # Status(s)}
<1>1. \A s \in Shares : Status(s)' \in Lifecycle!Statuses
  BY StatusRange DEF Lifecycle!Statuses
<1>2. Lifecycle!AbandonRemoval(S)
  <2> SUFFICES [s \in Shares |-> Status(s)'] \in [Shares -> Lifecycle!Statuses]
    BY DEF Lifecycle!AbandonRemoval
  <2> QED BY <1>1
<1> QED BY <1>2 DEF Lifecycle!Next

\* A step that changes neither the clock, the expiries nor any status stutters.
LEMMA StutterMaps ==
    ASSUME UNCHANGED <<now, expiry>>, \A s \in Shares : Status(s)' = Status(s)
    PROVE  UNCHANGED Lifecycle!vars
BY DEF Lifecycle!vars

\* A transaction that begins to remove the shares in X marks these and no other.
LEMMA RemoveMarks ==
    ASSUME IInv, NEW t \in Threads, NEW k \in {"destroy", "clean"},
           NEW X \in SUBSET rows, Remove(t, k, X), InWorkingDir = Processes
    PROVE  /\ UNCHANGED <<now, expiry>>
           /\ \A s \in Shares : Status(s)' = IF s \in X THEN "removing" ELSE Status(s)
<1>1. ~InTransaction(t)
  BY DEF Remove, ConnectionFree
<1>2. \A s \in Shares : s \in BeingRemoved' <=> s \in BeingRemoved \/ s \in X
  BY <1>1 DEF BeingRemoved, InTransaction, Remove, IInv, TypeOK
<1>3. UNCHANGED <<now, rows, used, expiry, content, owned, disk, kept>>
  BY DEF Remove, db
<1> QED BY <1>2, <1>3 DEF Status, OwnedFiles, IInv, TypeOK

\* Marking shares that somebody may remove is a step of ShareLifecycle, also if
\* some or all of them are being removed already.
LEMMA RemoveMaps ==
    ASSUME IInv, NEW t \in Threads, NEW k \in {"destroy", "clean"},
           NEW X \in SUBSET rows, Remove(t, k, X), InWorkingDir = Processes,
           \A s \in X : Lifecycle!MayRemove(s)
    PROVE  Lifecycle!Next
<1> DEFINE S == {s \in X : Status(s) # "removing"}
<1>1. /\ UNCHANGED <<now, expiry>>
      /\ \A s \in Shares : Status(s)' = IF s \in X THEN "removing" ELSE Status(s)
  BY RemoveMarks
<1>2. S \in SUBSET Shares
  BY DEF IInv, TypeOK
<1>3. \A s \in S : Status(s) \in {"available", "damaged"} /\ Lifecycle!MayRemove(s)
  BY DEF Status, IInv, TypeOK
<1>4. \A s \in Shares : Status(s)' = IF s \in S THEN "removing" ELSE Status(s)
  BY <1>1
<1> HIDE DEF S
<1> QED BY <1>1, <1>2, <1>3, <1>4, BeginMaps

\* A commit ends the removal of its victims: from the working directory their
\* files are gone, but those it was refused.
LEMMA CommitMaps ==
    ASSUME IInv, InWorkingDir = Processes, GoneMeansDeleted', NEW t \in Threads,
           CommitDestroy(t) \/ CommitCheck(t)
    PROVE  Lifecycle!Next
<1> DEFINE S == victims[t] \cap rows
<1> USE DEF IInv, TypeOK
<1>1. /\ UNCHANGED <<now, used, expiry, content, owned, disk, kept>>
      /\ rows' = rows \ victims[t] /\ InTransaction(t)
  BY DEF CommitDestroy, CommitCheck, Commit
<1>2. \A u \in Threads \ {t} : kind'[u] = kind[u] /\ victims'[u] = victims[u]
  BY DEF CommitDestroy, CommitCheck, Release
<1>3. ~InTransaction(t)'
  BY DEF CommitDestroy, CommitCheck, Release, Rest, InTransaction
<1>4. \A s \in Shares \ S : s \in rows => (s \in BeingRemoved' <=> s \in BeingRemoved)
  BY <1>1, <1>2, <1>3 DEF BeingRemoved, InTransaction
<1>5. \A s \in Shares \ S : Status(s)' = Status(s)
  BY <1>1, <1>4 DEF Status, OwnedFiles
<1>6. \A s \in S : Status(s) = "removing" /\ Status(s)' \in {"gone", "left"}
  BY <1>1 DEF Status, BeingRemoved, GoneMeansDeleted
<1>7. S \in SUBSET Shares /\ UNCHANGED <<now, expiry>>
  BY <1>1
<1>8. \A s \in Shares : Status(s) # "leaked"
  BY DEF Status, GoneMeansDeleted
<1> HIDE DEF S
<1> QED BY <1>5, <1>6, <1>7, <1>8, EndMaps

\* A thread or process that gives up leaves the shares it was removing recorded.
LEMMA GiveUpMaps ==
    ASSUME IInv, InWorkingDir = Processes,
           UNCHANGED <<now, rows, used, expiry, content, owned, disk, kept>>,
           \A u \in Threads : InTransaction(u)' => InTransaction(u) /\ victims'[u] = victims[u]
    PROVE  Lifecycle!Next
<1>1. \A s \in Shares : s \in BeingRemoved' => s \in BeingRemoved
  BY DEF BeingRemoved
<1>2. \A s \in Shares : Status(s)' # Status(s) =>
         Status(s) = "removing" /\ Status(s)' \in {"available", "damaged"}
  BY <1>1 DEF Status, OwnedFiles
<1>3. \A s \in Shares : Status(s) # "leaked"
  BY DEF Status, IInv, GoneMeansDeleted
<1> QED BY <1>2, <1>3, AbandonMaps

\* Recording a share creates it: all of its own files are there.
LEMMA RecordMaps ==
    ASSUME StoreAssumption, IInv, IInv', NEW s \in Shares \ used,
           NEW v \in 0..MaxValidity, NEW own \in BOOLEAN, NEW F,
           Record(s, F, v, own), own => F \subseteq disk,
           UNCHANGED <<now, disk, kept>>,
           \A u \in Threads : InTransaction(u)' <=> InTransaction(u),
           \A u \in Threads : InTransaction(u) => victims'[u] = victims[u]
    PROVE  Lifecycle!Next
<1> USE DEF IInv, TypeOK
<1>1. s \notin BeingRemoved'
  BY DEF RemovalsExact, BeingRemoved
<1>2. \A r \in Shares \ {s} : Status(r)' = Status(r)
  BY DEF Status, OwnedFiles, BeingRemoved, Record
<1>3. Status(s) = "absent" /\ Status(s)' = "available"
  BY <1>1 DEF Status, OwnedFiles, Record
<1>4. expiry' = [expiry EXCEPT ![s] = now + v]
  BY DEF Record
<1>5. Lifecycle!Create(s)
  BY <1>2, <1>3, <1>4 DEF Lifecycle!Create
<1> QED BY <1>5 DEF Lifecycle!Next

\* A step that does not touch the database, the transactions or the files of the
\* shares leaves every status as it is.
LEMMA QuietMaps ==
    ASSUME IInv, UNCHANGED <<now, rows, used, expiry, content, owned>>,
           \A u \in Threads : InTransaction(u)' <=> InTransaction(u),
           \A u \in Threads : InTransaction(u) => victims'[u] = victims[u],
           \A s \in Shares : OwnedFiles(s) \cap disk' = OwnedFiles(s) \cap disk,
           InWorkingDir = Processes, GoneMeansDeleted'
    PROVE  UNCHANGED Lifecycle!vars
<1>1. \A s \in Shares : s \in BeingRemoved' <=> s \in BeingRemoved
  BY DEF BeingRemoved
<1>2. \A s \in Shares : Status(s)' = Status(s)
  BY <1>1 DEF Status, OwnedFiles, IInv, GoneMeansDeleted
<1> QED BY <1>2, StutterMaps

\* An attempt to unlink a file that no whole share owns sweeps what a share that
\* is gone left behind, or leaves every status as it is.
LEMMA UnlinkMaps ==
    ASSUME IInv, NEW f, Unlink(f), UNCHANGED <<now, rows, used, expiry, content, owned>>,
           \A u \in Threads : InTransaction(u)' <=> InTransaction(u),
           \A u \in Threads : InTransaction(u) => victims'[u] = victims[u],
           \A s \in rows \ BeingRemoved : f \notin OwnedFiles(s),
           InWorkingDir = Processes, GoneMeansDeleted'
    PROVE  Lifecycle!Next \/ UNCHANGED Lifecycle!vars
<1>1. \A s \in Shares : s \in BeingRemoved' <=> s \in BeingRemoved
  BY DEF BeingRemoved
<1>2. \A s \in Shares : OwnedFiles(s)' = OwnedFiles(s)
  BY DEF OwnedFiles
<1>3. \A s \in Shares : f \notin OwnedFiles(s) => OwnedFiles(s) \cap disk' = OwnedFiles(s) \cap disk
  BY DEF Unlink
<1>4. \A s \in used \ rows : /\ OwnedFiles(s) \cap disk \subseteq kept
                            /\ OwnedFiles(s) \cap disk' \subseteq kept'
  BY <1>2 DEF IInv, GoneMeansDeleted, TypeOK
<1>5. ASSUME NEW s \in Shares, f \notin OwnedFiles(s) \/ s \notin used \ rows
      PROVE  Status(s)' = Status(s)
  BY <1>1, <1>2, <1>3, <1>4, <1>5 DEF Status
<1>6. CASE \A s \in Shares : Status(s)' = Status(s)
  BY <1>6, StutterMaps
<1>7. ASSUME NEW s \in Shares, Status(s)' # Status(s)
      PROVE  Lifecycle!Next
  <2>1. s \in used \ rows /\ f \in OwnedFiles(s)
    BY <1>5, <1>7
  <2>2. Status(s) \in {"gone", "left"} /\ Status(s)' \in {"gone", "left"}
    BY <1>2, <1>4, <2>1 DEF Status
  <2>3. disk' \subseteq disk
    BY DEF Unlink
  <2>4. Status(s) = "gone" => Status(s)' = "gone"
    BY <1>2, <2>1, <2>3 DEF Status
  <2>5. Status(s) = "left" /\ Status(s)' = "gone"
    BY <1>7, <2>2, <2>4
  <2>6. \A r \in Shares \ {s} : f \notin OwnedFiles(r)
    BY <2>1 DEF IInv, OneHolder
  <2>7. \A r \in Shares \ {s} : Status(r)' = Status(r)
    BY <1>5, <2>6
  <2> QED BY <2>5, <2>7, SweepMaps
<1> QED BY <1>6, <1>7

\* Every step of the store is a step of ShareLifecycle or leaves it unchanged.
LEMMA LifecycleStep ==
    ASSUME StoreAssumption, IInv, IInv', InWorkingDir = Processes, [Next]_vars
    PROVE  Lifecycle!Next \/ UNCHANGED Lifecycle!vars
<1> USE StoreAssumption DEF IInv, TypeOK, Phases, db, thread, InTransaction, Threads, ServerThread
<1>1. CASE Tick
  <2>1. /\ UNCHANGED <<rows, used, expiry, content, owned, disk, kept, kind, victims>>
        /\ now' = now + 1
    BY <1>1 DEF Tick
  <2>2. \A s \in Shares : Status(s)' = Status(s)
    BY <2>1 DEF Status, OwnedFiles, BeingRemoved
  <2> QED BY <2>1, <2>2 DEF Lifecycle!Next, Lifecycle!Tick
<1>2. ASSUME NEW t \in Threads, NEW s \in Shares, BeginDestroy(t, s)
      PROVE  Lifecycle!Next
  <2>1. Lifecycle!MayRemove(s)
    BY <1>2 DEF BeginDestroy, IsExpired, Lifecycle!MayRemove
  <2> QED BY <1>2, <2>1, RemoveMaps DEF BeginDestroy
<1>3. ASSUME NEW t \in Threads, NEW f \in Files, RemoveFile(t, f)
      PROVE  Lifecycle!Next \/ UNCHANGED Lifecycle!vars
  <2>1. \A s \in rows \ BeingRemoved : f \notin OwnedFiles(s)
    BY <1>3 DEF RemoveFile, RemovalsExact, OneHolder, BeingRemoved
  <2>2. Unlink(f)
    BY <1>3 DEF RemoveFile, Proc, Processes
  <2> QED BY <1>3, <2>1, <2>2, UnlinkMaps DEF RemoveFile
<1>4. ASSUME NEW t \in Threads, CommitDestroy(t) \/ CommitCheck(t)
      PROVE  Lifecycle!Next
  BY <1>4, CommitMaps
<1>5. ASSUME NEW t \in Threads, Fail(t)
      PROVE  Lifecycle!Next
  BY <1>5, GiveUpMaps DEF Fail, Release, Rest, Halt
<1>6. ASSUME Crash
      PROVE  Lifecycle!Next
  BY <1>6, GiveUpMaps DEF Crash, Halt
<1>7. ASSUME NEW t \in {Main, Cleaner}, BeginCheck(t)
      PROVE  Lifecycle!Next
  <2> DEFINE X == {s \in rows : now > expiry[s] + Grace}
  <2>1. \A s \in X : Lifecycle!MayRemove(s)
    BY DEF Lifecycle!MayRemove
  <2>2. Remove(t, "clean", X)
    BY <1>7 DEF BeginCheck
  <2> HIDE DEF X
  <2>3. X \in SUBSET rows
    BY DEF X
  <2> QED BY <2>1, <2>2, <2>3, RemoveMaps
<1>8. ASSUME NEW f \in Uploads, ScanFile(f)
      PROVE  Lifecycle!Next \/ UNCHANGED Lifecycle!vars
  <2>1. CASE f \in Referenced
    BY <1>8, <2>1, QuietMaps DEF ScanFile
  <2>2. CASE f \notin Referenced
    <3>1. \A s \in rows \ BeingRemoved : f \notin OwnedFiles(s)
      BY <2>2 DEF Referenced, OwnedFiles
    <3> QED BY <1>8, <2>2, <3>1, UnlinkMaps DEF ScanFile
  <2> QED BY <2>1, <2>2
<1>16. ASSUME NEW f \in Uploads, Upload(f) \/ DropUpload(f)
       PROVE  UNCHANGED Lifecycle!vars
  <2>1. \A s \in Shares : OwnedFiles(s) \cap disk' = OwnedFiles(s) \cap disk
    BY <1>16 DEF Upload, DropUpload, OwnedFiles, OneHolder, Names
  <2> QED BY <1>16, <2>1, QuietMaps DEF Upload, DropUpload
<1>9. CASE ScanDone
  BY <1>9, QuietMaps DEF ScanDone
<1>10. ASSUME NEW t \in Workers, NEW F \in SUBSET spool, StealSpool(t, F)
       PROVE  UNCHANGED Lifecycle!vars
  BY <1>10, QuietMaps DEF StealSpool, Idle
<1>11. ASSUME NEW t \in Workers, CreateFails(t)
       PROVE  UNCHANGED Lifecycle!vars
  BY <1>11, QuietMaps DEF CreateFails, Release, Rest
<1>12. ASSUME NEW t \in Workers, NEW s \in Shares, NEW v \in 1..MaxValidity,
              CreateShare(t, s, v)
       PROVE  Lifecycle!Next
  <2>1. /\ Record(s, todo[t], v, TRUE) /\ s \in Shares \ used
        /\ UNCHANGED <<now, disk, kept>>
    BY <1>12 DEF CreateShare, CanCreate
  <2>4. todo[t] \subseteq disk
    BY <1>12 DEF CreateShare, Present
  <2>5. v \in 0..MaxValidity
    OBVIOUS
  <2>2. \A u \in Threads : InTransaction(u)' <=> InTransaction(u)
    BY <1>12 DEF CreateShare, Release, Rest
  <2>3. \A u \in Threads : InTransaction(u) => victims'[u] = victims[u]
    BY <1>12 DEF CreateShare, Release
  <2> QED BY <2>1, <2>2, <2>3, <2>4, <2>5, RecordMaps
<1>13. ASSUME NEW c \in Commands, NEW s \in Shares, NEW F \in SUBSET Locals,
              NEW v \in 0..MaxValidity, CmdCreate(c, s, F, v)
       PROVE  Lifecycle!Next
  <2>1. /\ Record(s, F, v, FALSE) /\ s \in Shares \ used
        /\ UNCHANGED <<now, disk, kept>>
    BY <1>13 DEF CmdCreate, CanCreate
  <2>2. \A u \in Threads : InTransaction(u)' <=> InTransaction(u)
    BY <1>13 DEF CmdCreate, Release, Rest, Idle
  <2>3. \A u \in Threads : InTransaction(u) => victims'[u] = victims[u]
    BY <1>13 DEF CmdCreate, Release, Idle
  <2> QED BY <2>1, <2>2, <2>3, RecordMaps
<1>14. ASSUME Stop
       PROVE  UNCHANGED Lifecycle!vars
  BY <1>14, QuietMaps DEF Stop, Halt, OneHolder
<1>15. CASE UNCHANGED vars
  BY <1>15, QuietMaps DEF vars
<1> QED
  BY <1>1, <1>2, <1>3, <1>4, <1>5, <1>6, <1>7, <1>8, <1>9, <1>10, <1>11, <1>12,
     <1>13, <1>14, <1>15, <1>16
  DEF Next, RemovalStep, ScanStep, CreationStep, Start, TimerFires

\* From the working directory, the store implements the life of each share.
THEOREM StoreImplementsLifecycle ==
    ASSUME InWorkingDir = Processes
    PROVE  Spec => ImplementsLifecycle
<1>1. Init => Lifecycle!Init
  BY DEF Init, Lifecycle!Init, Status
<1>2. IInv /\ IInv' /\ [Next]_vars => [Lifecycle!Next]_(Lifecycle!vars)
  BY LifecycleStep, StoreAssumption
<1> QED BY <1>1, <1>2, StoreInvariant, PTL DEF Spec, ImplementsLifecycle, Lifecycle!Spec
=============================================================================
