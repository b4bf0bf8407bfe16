------------------------- MODULE MCPartsProgress --------------------------
(***************************************************************************)
(* The parts that have something to get done, for TLC: as in MCParts every *)
(* behaviour is a behaviour of one part, here under that part's fairness.  *)
(***************************************************************************)
EXTENDS
    AudioOutput, AutoDetect, ClipboardCopy, ClipboardPaste, Connection, CredSsp,
    OutputCapture, Picture, PipeWireCapture, Privsep

CONSTANT Checked     \* the parts a run checks

VARIABLE part        \* the part that runs

partsVars ==
    <<part, soundVars, autoDetectVars, copyVars, pasteVars, connVars, nlaVars,
      outputVars, pictureVars, pipewireVars, privsepVars>>

PartsInit ==
    /\ part \in Checked
    /\ SoundInit /\ AutoDetectInit /\ CopyInit /\ PasteInit /\ ConnectionInit /\ NlaInit
    /\ OutputInit /\ PictureInit /\ PipeWireInit /\ PrivsepInit

\* What a step of a part leaves alone.
AudioOutputAlone ==
    UNCHANGED <<part, autoDetectVars, copyVars, pasteVars, connVars, nlaVars, outputVars,
      pictureVars, pipewireVars, privsepVars>>

AutoDetectAlone ==
    UNCHANGED <<part, soundVars, copyVars, pasteVars, connVars, nlaVars, outputVars, pictureVars,
      pipewireVars, privsepVars>>

ClipboardCopyAlone ==
    UNCHANGED <<part, soundVars, autoDetectVars, pasteVars, connVars, nlaVars, outputVars,
      pictureVars, pipewireVars, privsepVars>>

ClipboardPasteAlone ==
    UNCHANGED <<part, soundVars, autoDetectVars, copyVars, connVars, nlaVars, outputVars,
      pictureVars, pipewireVars, privsepVars>>

ConnectionAlone ==
    UNCHANGED <<part, soundVars, autoDetectVars, copyVars, pasteVars, nlaVars, outputVars,
      pictureVars, pipewireVars, privsepVars>>

CredSspAlone ==
    UNCHANGED <<part, soundVars, autoDetectVars, copyVars, pasteVars, connVars, outputVars,
      pictureVars, pipewireVars, privsepVars>>

OutputCaptureAlone ==
    UNCHANGED <<part, soundVars, autoDetectVars, copyVars, pasteVars, connVars, nlaVars,
      pictureVars, pipewireVars, privsepVars>>

PictureAlone ==
    UNCHANGED <<part, soundVars, autoDetectVars, copyVars, pasteVars, connVars, nlaVars,
      outputVars, pipewireVars, privsepVars>>

PipeWireCaptureAlone ==
    UNCHANGED <<part, soundVars, autoDetectVars, copyVars, pasteVars, connVars, nlaVars,
      outputVars, pictureVars, privsepVars>>

PrivsepAlone ==
    UNCHANGED <<part, soundVars, autoDetectVars, copyVars, pasteVars, connVars, nlaVars,
      outputVars, pictureVars, pipewireVars>>

PartsNext ==
    \/ part = "AudioOutput" /\ SoundNext /\ AudioOutputAlone
    \/ part = "AutoDetect" /\ AutoDetectNext /\ AutoDetectAlone
    \/ part = "ClipboardCopy" /\ CopyNext /\ ClipboardCopyAlone
    \/ part = "ClipboardPaste" /\ PasteNext /\ ClipboardPasteAlone
    \/ part = "Connection" /\ ConnectionNext /\ ConnectionAlone
    \/ part = "CredSsp" /\ NlaNext /\ CredSspAlone
    \/ part = "OutputCapture" /\ OutputNext /\ OutputCaptureAlone
    \/ part = "Picture" /\ PictureNext /\ PictureAlone
    \/ part = "PipeWireCapture" /\ PipeWireNext /\ PipeWireCaptureAlone
    \/ part = "Privsep" /\ PrivsepNext /\ PrivsepAlone

PartsSpec == PartsInit /\ [][PartsNext]_partsVars

(***************************************************************************)
(* Every part's fairness, as its own specification has it, in the          *)
(* behaviours that run it.                                                 *)
(***************************************************************************)
AudioOutputFairness ==
    /\ WF_soundVars(part = "AudioOutput" /\ ThreadsRun)

AutoDetectFairness ==
    /\ WF_<<detect, requests>>(part = "AutoDetect" /\ AutoDetectTick)
    /\ WF_<<detect, requests>>(part = "AutoDetect" /\ ClientTakesRequest)

ClipboardCopyFairness ==
    /\ WF_cbridge(part = "ClipboardCopy" /\ AnswerTimeout)

ClipboardPasteFairness ==
    /\ WF_psv(part = "ClipboardPaste" /\ RequestTimeout)
    /\ WF_psv(part = "ClipboardPaste" /\ QuarantineEnds)
    /\ WF_pcl(part = "ClipboardPaste" /\ PasteReceive)

ConnectionFairness ==
    /\ WF_connVars(part = "Connection" /\ Receive)
    /\ WF_connVars(part = "Connection" /\ Threads)
    /\ WF_connVars(part = "Connection" /\ Timers)
    /\ WF_connVars(part = "Connection" /\ ClientAnswers)

CredSspFairness ==
    /\ WF_nlaVars(part = "CredSsp" /\ (OnConnectionRequest \/ TlsEstablished \/ PreReceive \/ ClientTakes \/ ClientGone))

OutputCaptureFairness ==
    /\ WF_ocopy(part = "OutputCapture" /\ (\E p \in CopyProtocols : StartOutput(p)))
    /\ WF_ocopy(part = "OutputCapture" /\ (CopyReady \/ (CaptureFailed /\ obufs[Capturing].size # oscreen.size)))
    /\ WF_ocopy(part = "OutputCapture" /\ TakeOutputFrame)

PictureFairness ==
    /\ WF_screen(part = "Picture" /\ GfxTick)
    /\ WF_sched(part = "Picture" /\ AckTimeout)

PipeWireCaptureFairness ==
    /\ WF_pwprod(part = "PipeWireCapture" /\ ProduceFrame)
    /\ WF_pwprod(part = "PipeWireCapture" /\ ProcessBuffers)
    /\ WF_pwcap(part = "PipeWireCapture" /\ WakeSession)
    /\ WF_pwcap(part = "PipeWireCapture" /\ OnRelease)
    /\ WF_pwneg(part = "PipeWireCapture" /\ OnRenegotiate)
    /\ WF_pwprod(part = "PipeWireCapture" /\ FormatChanged /\ pwprod.asked)
    /\ WF_pwcap(part = "PipeWireCapture" /\ TakeFrame)
    /\ WF_pwsess(part = "PipeWireCapture" /\ (UseDmabuf \/ UseImage))

PrivsepFairness ==
    /\ WF_<<child, plainDown>>(part = "Privsep" /\ NetworkProcess)
    /\ WF_<<mon, plainUp>>(part = "Privsep" /\ SessionThread)
    /\ WF_<<mon, control>>(part = "Privsep" /\ Monitor)

PartsProgressSpec ==
    /\ PartsSpec
    /\ AudioOutputFairness /\ AutoDetectFairness /\ ClipboardCopyFairness
    /\ ClipboardPasteFairness /\ ConnectionFairness /\ CredSspFairness
    /\ OutputCaptureFairness /\ PictureFairness /\ PipeWireCaptureFairness
    /\ PrivsepFairness

\* Whoever asks for the clipboard, client or application, is answered.
ClipboardAnswers == EveryRequestAnswered /\ EveryPasteAnswered

\* What changes on the screen gets out: the captures settle on what is
\* shown, a frame owed goes out, and a size asked for is reached.
ScreenGetsThrough == OutputSettles /\ CaptureSettles /\ FrameGoesOut /\ SizesSettle

\* Nothing is waited for without end: a pre-authentication, a process, a
\* sound thread that stops, a probe of a silent client.
EndsAreReached == PreAuthEnds /\ NothingLingers /\ EndIsNotWaitedForLong /\ SilentClientIsLeftAlone
=============================================================================
