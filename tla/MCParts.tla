------------------------------ MODULE MCParts ------------------------------
(***************************************************************************)
(* The parts of a session that meet only through what their modules model  *)
(* of each other, for TLC: every behaviour is a behaviour of one part, and *)
(* the others stay in their initial states.  So one run checks them all,   *)
(* and its state space is the sum of theirs, not the product.              *)
(***************************************************************************)
EXTENDS
    AudioOutput, AudioPacing, AutoDetect, BulkCompression, Camera, ClearCodec,
    ClipboardCopy, ClipboardPaste, Connection, CredSsp, DynamicChannels, Encoder,
    Framing, GfxChannel, GnomeDesktop, InputThreads, KWinOutputs, OutputCapture,
    Picture, PipeWireCapture, PlasmaDesktop, Privsep, TouchContacts, Wire

CONSTANT Checked     \* the parts a run checks

VARIABLE part        \* the part that runs

partsVars ==
    <<part, soundVars, paceVars, autoDetectVars, bulk, webVars, clearVars, copyVars,
      pasteVars, connVars, nlaVars, dvcVars, encoderVars, framingVars, gfxChannelVars,
      gnome, typing, outmgr, outputVars, pictureVars, pipewireVars, plasma, privsepVars,
      feel, wireVars>>

PartsInit ==
    /\ part \in Checked
    /\ SoundInit /\ PaceInit /\ AutoDetectInit /\ BulkInit /\ WebInit /\ ClearInit
    /\ CopyInit /\ PasteInit /\ ConnectionInit /\ NlaInit /\ DvcInit /\ EncoderInit
    /\ FramingInit /\ GfxInit /\ GnomeInit /\ TypingInit /\ OutputsInit /\ OutputInit
    /\ PictureInit /\ PipeWireInit /\ PlasmaInit /\ PrivsepInit /\ FeelInit /\ WireInit

\* What a step of a part leaves alone.
AudioOutputAlone ==
    UNCHANGED <<part, paceVars, autoDetectVars, bulk, webVars, clearVars, copyVars, pasteVars,
      connVars, nlaVars, dvcVars, encoderVars, framingVars, gfxChannelVars, gnome,
      typing, outmgr, outputVars, pictureVars, pipewireVars, plasma, privsepVars, feel,
      wireVars>>

AudioPacingAlone ==
    UNCHANGED <<part, soundVars, autoDetectVars, bulk, webVars, clearVars, copyVars, pasteVars,
      connVars, nlaVars, dvcVars, encoderVars, framingVars, gfxChannelVars, gnome,
      typing, outmgr, outputVars, pictureVars, pipewireVars, plasma, privsepVars, feel,
      wireVars>>

AutoDetectAlone ==
    UNCHANGED <<part, soundVars, paceVars, bulk, webVars, clearVars, copyVars, pasteVars,
      connVars, nlaVars, dvcVars, encoderVars, framingVars, gfxChannelVars, gnome,
      typing, outmgr, outputVars, pictureVars, pipewireVars, plasma, privsepVars, feel,
      wireVars>>

BulkCompressionAlone ==
    UNCHANGED <<part, soundVars, paceVars, autoDetectVars, webVars, clearVars, copyVars,
      pasteVars, connVars, nlaVars, dvcVars, encoderVars, framingVars, gfxChannelVars,
      gnome, typing, outmgr, outputVars, pictureVars, pipewireVars, plasma, privsepVars,
      feel, wireVars>>

CameraAlone ==
    UNCHANGED <<part, soundVars, paceVars, autoDetectVars, bulk, clearVars, copyVars, pasteVars,
      connVars, nlaVars, dvcVars, encoderVars, framingVars, gfxChannelVars, gnome,
      typing, outmgr, outputVars, pictureVars, pipewireVars, plasma, privsepVars, feel,
      wireVars>>

ClearCodecAlone ==
    UNCHANGED <<part, soundVars, paceVars, autoDetectVars, bulk, webVars, copyVars, pasteVars,
      connVars, nlaVars, dvcVars, encoderVars, framingVars, gfxChannelVars, gnome,
      typing, outmgr, outputVars, pictureVars, pipewireVars, plasma, privsepVars, feel,
      wireVars>>

ClipboardCopyAlone ==
    UNCHANGED <<part, soundVars, paceVars, autoDetectVars, bulk, webVars, clearVars, pasteVars,
      connVars, nlaVars, dvcVars, encoderVars, framingVars, gfxChannelVars, gnome,
      typing, outmgr, outputVars, pictureVars, pipewireVars, plasma, privsepVars, feel,
      wireVars>>

ClipboardPasteAlone ==
    UNCHANGED <<part, soundVars, paceVars, autoDetectVars, bulk, webVars, clearVars, copyVars,
      connVars, nlaVars, dvcVars, encoderVars, framingVars, gfxChannelVars, gnome,
      typing, outmgr, outputVars, pictureVars, pipewireVars, plasma, privsepVars, feel,
      wireVars>>

ConnectionAlone ==
    UNCHANGED <<part, soundVars, paceVars, autoDetectVars, bulk, webVars, clearVars, copyVars,
      pasteVars, nlaVars, dvcVars, encoderVars, framingVars, gfxChannelVars, gnome,
      typing, outmgr, outputVars, pictureVars, pipewireVars, plasma, privsepVars, feel,
      wireVars>>

CredSspAlone ==
    UNCHANGED <<part, soundVars, paceVars, autoDetectVars, bulk, webVars, clearVars, copyVars,
      pasteVars, connVars, dvcVars, encoderVars, framingVars, gfxChannelVars, gnome,
      typing, outmgr, outputVars, pictureVars, pipewireVars, plasma, privsepVars, feel,
      wireVars>>

DynamicChannelsAlone ==
    UNCHANGED <<part, soundVars, paceVars, autoDetectVars, bulk, webVars, clearVars, copyVars,
      pasteVars, connVars, nlaVars, encoderVars, framingVars, gfxChannelVars, gnome,
      typing, outmgr, outputVars, pictureVars, pipewireVars, plasma, privsepVars, feel,
      wireVars>>

EncoderAlone ==
    UNCHANGED <<part, soundVars, paceVars, autoDetectVars, bulk, webVars, clearVars, copyVars,
      pasteVars, connVars, nlaVars, dvcVars, framingVars, gfxChannelVars, gnome, typing,
      outmgr, outputVars, pictureVars, pipewireVars, plasma, privsepVars, feel, wireVars>>

FramingAlone ==
    UNCHANGED <<part, soundVars, paceVars, autoDetectVars, bulk, webVars, clearVars, copyVars,
      pasteVars, connVars, nlaVars, dvcVars, encoderVars, gfxChannelVars, gnome, typing,
      outmgr, outputVars, pictureVars, pipewireVars, plasma, privsepVars, feel, wireVars>>

GfxChannelAlone ==
    UNCHANGED <<part, soundVars, paceVars, autoDetectVars, bulk, webVars, clearVars, copyVars,
      pasteVars, connVars, nlaVars, dvcVars, encoderVars, framingVars, gnome, typing,
      outmgr, outputVars, pictureVars, pipewireVars, plasma, privsepVars, feel, wireVars>>

GnomeDesktopAlone ==
    UNCHANGED <<part, soundVars, paceVars, autoDetectVars, bulk, webVars, clearVars, copyVars,
      pasteVars, connVars, nlaVars, dvcVars, encoderVars, framingVars, gfxChannelVars,
      typing, outmgr, outputVars, pictureVars, pipewireVars, plasma, privsepVars, feel,
      wireVars>>

InputThreadsAlone ==
    UNCHANGED <<part, soundVars, paceVars, autoDetectVars, bulk, webVars, clearVars, copyVars,
      pasteVars, connVars, nlaVars, dvcVars, encoderVars, framingVars, gfxChannelVars,
      gnome, outmgr, outputVars, pictureVars, pipewireVars, plasma, privsepVars, feel,
      wireVars>>

KWinOutputsAlone ==
    UNCHANGED <<part, soundVars, paceVars, autoDetectVars, bulk, webVars, clearVars, copyVars,
      pasteVars, connVars, nlaVars, dvcVars, encoderVars, framingVars, gfxChannelVars,
      gnome, typing, outputVars, pictureVars, pipewireVars, plasma, privsepVars, feel,
      wireVars>>

OutputCaptureAlone ==
    UNCHANGED <<part, soundVars, paceVars, autoDetectVars, bulk, webVars, clearVars, copyVars,
      pasteVars, connVars, nlaVars, dvcVars, encoderVars, framingVars, gfxChannelVars,
      gnome, typing, outmgr, pictureVars, pipewireVars, plasma, privsepVars, feel,
      wireVars>>

PictureAlone ==
    UNCHANGED <<part, soundVars, paceVars, autoDetectVars, bulk, webVars, clearVars, copyVars,
      pasteVars, connVars, nlaVars, dvcVars, encoderVars, framingVars, gfxChannelVars,
      gnome, typing, outmgr, outputVars, pipewireVars, plasma, privsepVars, feel,
      wireVars>>

PipeWireCaptureAlone ==
    UNCHANGED <<part, soundVars, paceVars, autoDetectVars, bulk, webVars, clearVars, copyVars,
      pasteVars, connVars, nlaVars, dvcVars, encoderVars, framingVars, gfxChannelVars,
      gnome, typing, outmgr, outputVars, pictureVars, plasma, privsepVars, feel,
      wireVars>>

PlasmaDesktopAlone ==
    UNCHANGED <<part, soundVars, paceVars, autoDetectVars, bulk, webVars, clearVars, copyVars,
      pasteVars, connVars, nlaVars, dvcVars, encoderVars, framingVars, gfxChannelVars,
      gnome, typing, outmgr, outputVars, pictureVars, pipewireVars, privsepVars, feel,
      wireVars>>

PrivsepAlone ==
    UNCHANGED <<part, soundVars, paceVars, autoDetectVars, bulk, webVars, clearVars, copyVars,
      pasteVars, connVars, nlaVars, dvcVars, encoderVars, framingVars, gfxChannelVars,
      gnome, typing, outmgr, outputVars, pictureVars, pipewireVars, plasma, feel,
      wireVars>>

TouchContactsAlone ==
    UNCHANGED <<part, soundVars, paceVars, autoDetectVars, bulk, webVars, clearVars, copyVars,
      pasteVars, connVars, nlaVars, dvcVars, encoderVars, framingVars, gfxChannelVars,
      gnome, typing, outmgr, outputVars, pictureVars, pipewireVars, plasma, privsepVars,
      wireVars>>

WireAlone ==
    UNCHANGED <<part, soundVars, paceVars, autoDetectVars, bulk, webVars, clearVars, copyVars,
      pasteVars, connVars, nlaVars, dvcVars, encoderVars, framingVars, gfxChannelVars,
      gnome, typing, outmgr, outputVars, pictureVars, pipewireVars, plasma, privsepVars,
      feel>>

PartsNext ==
    \/ part = "AudioOutput" /\ SoundNext /\ AudioOutputAlone
    \/ part = "AudioPacing" /\ PaceNext /\ AudioPacingAlone
    \/ part = "AutoDetect" /\ AutoDetectNext /\ AutoDetectAlone
    \/ part = "BulkCompression" /\ BulkNext /\ BulkCompressionAlone
    \/ part = "Camera" /\ WebNext /\ CameraAlone
    \/ part = "ClearCodec" /\ ClearNext /\ ClearCodecAlone
    \/ part = "ClipboardCopy" /\ CopyNext /\ ClipboardCopyAlone
    \/ part = "ClipboardPaste" /\ PasteNext /\ ClipboardPasteAlone
    \/ part = "Connection" /\ ConnectionNext /\ ConnectionAlone
    \/ part = "CredSsp" /\ NlaNext /\ CredSspAlone
    \/ part = "DynamicChannels" /\ DvcNext /\ DynamicChannelsAlone
    \/ part = "Encoder" /\ EncoderNext /\ EncoderAlone
    \/ part = "Framing" /\ FramingNext /\ FramingAlone
    \/ part = "GfxChannel" /\ GfxNext /\ GfxChannelAlone
    \/ part = "GnomeDesktop" /\ GnomeNext /\ GnomeDesktopAlone
    \/ part = "InputThreads" /\ TypingNext /\ InputThreadsAlone
    \/ part = "KWinOutputs" /\ OutputsNext /\ KWinOutputsAlone
    \/ part = "OutputCapture" /\ OutputNext /\ OutputCaptureAlone
    \/ part = "Picture" /\ PictureNext /\ PictureAlone
    \/ part = "PipeWireCapture" /\ PipeWireNext /\ PipeWireCaptureAlone
    \/ part = "PlasmaDesktop" /\ PlasmaNext /\ PlasmaDesktopAlone
    \/ part = "Privsep" /\ PrivsepNext /\ PrivsepAlone
    \/ part = "TouchContacts" /\ FeelNext /\ TouchContactsAlone
    \/ part = "Wire" /\ WireNext /\ WireAlone

PartsSpec == PartsInit /\ [][PartsNext]_partsVars

\* Sound, as the session and the pacing thread see it.
SoundCorrect == AudioOutputCorrect /\ AudioPacingCorrect

\* The clipboard, from the desktop to the client and back.
ClipboardCorrect == ClipboardCopyCorrect /\ ClipboardPasteCorrect

\* Screen capture, from a wlroots output and from a PipeWire stream.
CaptureCorrect == OutputCaptureCorrect /\ PipeWireCorrect

\* The codecs, ClearCodec's and the encoder of video.
CodecsCorrect == ClearCodecCorrect /\ EncoderCorrect

\* Messages, from the fields of one to the octets of many.
MessagesCorrect == FramingCorrect /\ WireCorrect

\* What a step of a desktop may never do: go back on what was decided about a
\* login at the machine, or ask KWin again for a layout it has.
DesktopDecisionsHold ==
    [][SeatDecisionHolds /\ NotAskedForTwice /\ PlasmaDecisionHolds]_<<gnome, outmgr, plasma>>
=============================================================================
