----------------------------- MODULE SharedImage ------------------------------
(***************************************************************************)
(* The decoded image the assembler task and the classifier task share:     *)
(* SharedImage with its mutex, and imageClassificationTask, which waits    *)
(* for a notification, takes the dimensions under the mutex, and scales    *)
(* the pixels after releasing it.                                          *)
(*                                                                         *)
(* MutexHandler is a binary semaphore: no owner, no recursion, and lock()  *)
(* waits forever.  An image is the sequence of the chunks it was decoded   *)
(* from; its pixels are two halves, read one after the other.              *)
(***************************************************************************)
EXTENDS CanReception

CONSTANT ImageKinds   \* what the camera's images may turn out to be

\* expected: 320x240; small: fits the buffer with other dimensions;
\* oversize: does not fit; unloadable: stb_image refuses it.
ASSUME KindAssumption ==
  ImageKinds \subseteq {"expected", "small", "oversize", "unloadable"} /\ ImageKinds # {}

VARIABLES
  imgMutex,        \* TRUE: m_mutex is taken
  sharedDims,      \* m_width and m_height, as the kind of image they describe
  sharedTop, sharedBottom,  \* m_imageData
  clsNotified,     \* imageClassificationTask's notification count is not zero
  clsPc,           \* where imageClassificationTask is
  clsTop,          \* the half it has scaled so far
  clsInput         \* the classifier's input tensor: both halves

sharedVars == <<imgMutex, sharedDims, sharedTop, sharedBottom>>
clsVars == <<clsNotified, clsPc, clsTop, clsInput>>

\* No image: the buffers before the first one.
NoImage == <<>>

SharedInit ==
  /\ imgMutex = FALSE /\ sharedDims = "none" /\ sharedTop = NoImage /\ sharedBottom = NoImage
  /\ clsNotified = FALSE /\ clsPc = "wait" /\ clsTop = NoImage /\ clsInput = <<NoImage, NoImage>>

-------------------------------------------------------------------------------
\* setImage, up to its return or its throw.  No other task can run between its
\* lock and its unlock: the caller has the highest priority and blocks on
\* nothing else.  An oversize image throws with the mutex taken.
SetImage(pic, kind) ==
  /\ ~imgMutex
  /\ IF kind = "oversize"
     THEN imgMutex' = TRUE /\ UNCHANGED <<sharedDims, sharedTop, sharedBottom>>
     ELSE /\ sharedDims' = kind /\ sharedTop' = pic /\ sharedBottom' = pic
          /\ UNCHANGED imgMutex

-------------------------------------------------------------------------------
ClsGoto(from, to) == clsPc = from /\ clsPc' = to

\* ulTaskNotifyTake(pdTRUE)
ClsTake ==
  /\ ClsGoto("wait", "lock") /\ clsNotified /\ clsNotified' = FALSE
  /\ UNCHANGED <<sharedVars, clsTop, clsInput>>

\* getSharedImage: lock ...
ClsLock ==
  /\ ClsGoto("lock", "dims") /\ ~imgMutex /\ imgMutex' = TRUE
  /\ UNCHANGED <<sharedDims, sharedTop, sharedBottom, clsNotified, clsTop, clsInput>>

\* ... read the dimensions, unlock.  With other dimensions than 320x240 the
\* input tensor keeps the previous image and inference runs on that one.
ClsDims ==
  /\ ClsGoto("dims", IF sharedDims = "expected" THEN "top" ELSE "wait")
  /\ imgMutex' = FALSE
  /\ UNCHANGED <<sharedDims, sharedTop, sharedBottom, clsNotified, clsTop, clsInput>>

\* scaleImage reads the shared buffer, which nothing protects any more ...
ClsTop ==
  /\ ClsGoto("top", "bottom") /\ clsTop' = sharedTop
  /\ UNCHANGED <<sharedVars, clsNotified, clsInput>>

\* Mutant: the notification is taken after the inference instead of before it.
ClsBottomClears ==
  /\ ClsGoto("bottom", "wait") /\ clsInput' = <<clsTop, sharedBottom>> /\ clsNotified' = FALSE
  /\ UNCHANGED <<sharedVars, clsTop>>

\* ... fills the input tensor, and inference runs.
ClsBottom ==
  /\ ClsGoto("bottom", "wait") /\ clsInput' = <<clsTop, sharedBottom>>
  /\ UNCHANGED <<sharedVars, clsNotified, clsTop>>

ClsStep == ClsTake \/ ClsLock \/ ClsDims \/ ClsTop \/ ClsBottom

Picture == Seq(Chunk)

SharedTypeOK ==
  /\ imgMutex \in BOOLEAN /\ sharedDims \in {"none", "expected", "small"}
  /\ sharedTop \in Picture /\ sharedBottom \in Picture
  /\ clsNotified \in BOOLEAN /\ clsPc \in {"wait", "lock", "dims", "top", "bottom"}
  /\ clsTop \in Picture /\ clsInput \in Picture \X Picture
===============================================================================
