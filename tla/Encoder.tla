------------------------------- MODULE Encoder -------------------------------
(***************************************************************************)
(* The H.264 encoders of src/farland/video and what a client decodes from  *)
(* them.  One H264Encoder runs at a time on one of four backends; NVENC,   *)
(* OpenH264 and x264 keep the reference pictures themselves, with VA-API   *)
(* farland does: it names the reconstructed surfaces and writes frame_num, *)
(* the picture order count and the parameter sets into the stream.         *)
(*                                                                         *)
(* A picture is its number; pixels, slices and entropy coding are left     *)
(* out.  A rate is a mode (constant QP or a bitrate) and a value.          *)
(***************************************************************************)
EXTENDS Integers, Sequences, SequencesExt

CONSTANTS EncoderBackends, \* the backends compiled in, in the order auto_select tries them
          MaxPictures,     \* bound: pictures handed to the encoder
          MaxRates,        \* bound: changes of the rate
          MaxFaults,       \* bound: pictures that fail
          FrameNums,       \* 2^log2_max_frame_num of the VA-API sequence
          PocLsbs,         \* 2^log2_max_poc_lsb
          MaxFramesPerIdr, \* max_frames_between_idr (or keyint)
          MaxImports,      \* imported dmabufs kept
          CaptureBuffers   \* buffers the compositor's pool holds

VARIABLES henc,  \* the encoder object
          hdrv,  \* external: the codec library or driver behind it
          hcap,  \* the capture's dmabuf pool, and the pool generation the session has seen
          hdec,  \* external: the client's decoder, and the picture it was handed last
          huse   \* what the caller did: pictures, rate changes, whether it is owed an IDR

encoderVars == <<henc, hdrv, hcap, hdec, huse>>

BitRates == [mode: {"qp", "rate"}, v: 1 .. 2]
FirstRate == [mode |-> "qp", v |-> 1]

\* What is noted of the picture delivered last, for the properties below.
Judged(decodes, idr, rate, source) == [decodes |-> decodes, idr |-> idr, rate |-> rate, source |-> source]

\* A session of the library: nothing coded, nothing asked for, an IDR first.
FreshDriver(r) == [rate |-> r, pending |-> TRUE, last |-> 0, surf |-> <<0, 0>>]

\* Impl's members once open_session has succeeded; imported dmabufs stay.
Opened(e, r) == [e EXCEPT !.open = TRUE, !.rate = r, !.dirty = FALSE, !.force = TRUE,
                          !.since = 0, !.recon = 0, !.refused = FALSE]

\* configure(): the old session is closed first; a failure leaves the encoder closed.
Reopen(r, ok) ==
    IF ok THEN henc' = Opened(henc, r) /\ hdrv' = FreshDriver(r)
          ELSE henc' = [henc EXCEPT !.open = FALSE] /\ UNCHANGED hdrv

EncoderInit ==
    /\ henc = [backend |-> "none", open |-> FALSE, rate |-> FirstRate, dirty |-> FALSE, force |-> FALSE,
               since |-> 0, recon |-> 0, imports |-> << >>, refused |-> FALSE]
    /\ hdrv = FreshDriver(FirstRate)
    /\ hcap = [gen |-> 1, seen |-> 1]
    /\ hdec = [last |-> 0, num |-> 0, poc |-> 0, qp |-> 0, judged |-> Judged(TRUE, TRUE, TRUE, TRUE)]
    /\ huse = [n |-> 0, rates |-> 0, faults |-> 0, owed |-> TRUE]

\* create_encoder(auto_select): the first backend that opens; those before it were unsupported.
CreateEncoder ==
    /\ henc.backend = "none"
    /\ \E b \in EncoderBackends : henc' = Opened([henc EXCEPT !.backend = b], FirstRate)
    /\ UNCHANGED <<hdrv, hcap, hdec, huse>>

-----------------------------------------------------------------------------
(* set_rate_control of each backend *)

TakeRate(r) == henc' = [henc EXCEPT !.rate = r] /\ hdrv' = [hdrv EXCEPT !.rate = r]

\* VA-API: a new mode needs a new session; a new QP a new PPS, which only an IDR carries; a
\* new bitrate goes to the driver with the next picture.
SetRateVaapi(r, ok) ==
    \/ /\ henc.rate.mode = r.mode
       /\ henc' = [henc EXCEPT !.rate = r, !.force = @ \/ r.mode = "qp", !.dirty = @ \/ r.mode = "rate"]
       /\ UNCHANGED hdrv
    \/ henc.rate.mode # r.mode /\ Reopen(r, ok)

\* NVENC: nvEncReconfigureEncoder, with a reset and an IDR for a new mode or QP; if the
\* driver refuses, a new session.
SetRateNvenc(r, ok) ==
    LET reset == henc.rate.mode # r.mode \/ r.mode = "qp"
    IN \/ /\ henc' = [henc EXCEPT !.rate = r, !.force = @ \/ reset]
          /\ hdrv' = [hdrv EXCEPT !.rate = r, !.pending = @ \/ reset]
       \/ Reopen(r, ok)

\* OpenH264: target and peak are two options, and the second may fail after the first.
SetRateOpenH264(r, ok) ==
    IF henc.rate.mode # "rate" \/ r.mode # "rate" THEN Reopen(r, ok)
    ELSE \/ ok /\ TakeRate(r)
         \/ ~ok /\ henc' = [henc EXCEPT !.refused = TRUE] /\ hdrv' = [hdrv EXCEPT !.rate = r]
         \/ ~ok /\ UNCHANGED <<henc, hdrv>>

\* x264: x264_encoder_reconfig within a method, which may refuse.
SetRateX264(r, ok) ==
    IF henc.rate.mode # r.mode THEN Reopen(r, ok)
    ELSE (ok /\ TakeRate(r)) \/ (~ok /\ UNCHANGED <<henc, hdrv>>)

\* GraphicsPipeline::set_quality tunes an encoder whose rate is not the wanted one.
Retune ==
    /\ henc.open /\ huse.rates < MaxRates
    /\ \E r \in BitRates \ {henc.rate}, ok \in BOOLEAN :
          \/ henc.backend = "vaapi" /\ SetRateVaapi(r, ok)
          \/ henc.backend = "nvenc" /\ SetRateNvenc(r, ok)
          \/ henc.backend = "openh264" /\ SetRateOpenH264(r, ok)
          \/ henc.backend = "x264" /\ SetRateX264(r, ok)
    /\ huse' = [huse EXCEPT !.rates = @ + 1]
    /\ UNCHANGED <<hcap, hdec>>

RequestIdr ==
    /\ henc.open /\ ~henc.force /\ huse.n > 0
    /\ henc' = [henc EXCEPT !.force = TRUE]
    /\ huse' = [huse EXCEPT !.owed = TRUE]
    /\ UNCHANGED <<hdrv, hcap, hdec>>

-----------------------------------------------------------------------------
(* encode *)

\* A picture coded by a library that keeps its own reference and numbers.
LibraryCodes(src, idr, opt) ==
    LET index == IF idr THEN 0 ELSE henc.since
    IN [n |-> huse.n + 1, src |-> src, idr |-> idr, ref |-> IF idr THEN 0 ELSE hdrv.last,
        num |-> index % FrameNums, lsb |-> (2 * index) % PocLsbs, qp |-> 0, rate |-> hdrv.rate,
        owed |-> huse.owed \/ opt]

\* What VaapiEncoder writes: an IDR when asked or due, its place in the sequence, the surface
\* reconstructed last as reference, the QP of the PPS; an IDR or rc_dirty tells the rate.
VaapiCodes(src, opt) ==
    LET idr == henc.force \/ opt \/ henc.since >= MaxFramesPerIdr
    IN [LibraryCodes(src, idr, opt) EXCEPT
            !.ref = IF idr THEN 0 ELSE hdrv.surf[2 - henc.recon],
            !.qp = IF henc.rate.mode = "qp" THEN henc.rate.v ELSE 0,
            !.rate = IF idr \/ henc.dirty \/ henc.rate.mode = "qp" THEN henc.rate ELSE hdrv.rate]

DriverCodes(p) ==
    hdrv' = [hdrv EXCEPT !.rate = p.rate, !.pending = FALSE, !.last = p.n, !.surf[henc.recon + 1] = p.n]

\* The end of encode_input: only a picture that came out whole moves the encoder on.
Advance(e, p) == [e EXCEPT !.force = FALSE, !.dirty = FALSE, !.recon = 1 - @,
                           !.since = (IF p.idr THEN 0 ELSE @) + 1]

\* A decoder derives the order count from its low bits: the value nearest the previous one.
DecodedPoc(lsb) == hdec.poc + ((lsb - hdec.poc + PocLsbs \div 2) % PocLsbs) - PocLsbs \div 2

\* The client decodes p if it refers to the picture decoded last, with the next frame_num and
\* a later order count, and was coded with the QP of the PPS the client has.
Decodes(p) ==
    \/ p.idr
    \/ /\ p.ref = hdec.last
       /\ p.num = (hdec.num + 1) % FrameNums
       /\ DecodedPoc(p.lsb) > hdec.poc
       /\ p.qp = hdec.qp

Delivered(p) ==
    hdec' = [last |-> p.n, num |-> p.num, poc |-> IF p.idr THEN 0 ELSE DecodedPoc(p.lsb),
             qp |-> IF p.idr THEN p.qp ELSE hdec.qp,
             judged |-> Judged(Decodes(p), p.owed => p.idr, p.rate = henc.rate \/ henc.refused,
                               p.src.read = p.src.captured)]

\* The picture was not coded, or coded and then lost on the way back: an error, after which
\* the next picture is an IDR.
EncodeFails(e, p) ==
    /\ huse.faults < MaxFaults
    /\ DriverCodes(p) \/ UNCHANGED hdrv
    /\ henc' = [e EXCEPT !.force = TRUE]
    /\ huse' = [huse EXCEPT !.n = @ + 1, !.faults = @ + 1, !.owed = TRUE]
    /\ UNCHANGED hdec

\* The access unit is complete, or encode() fails.
Outcome(e, p) ==
    \/ /\ DriverCodes(p) /\ Delivered(p)
       /\ henc' = Advance(e, p)
       /\ huse' = [huse EXCEPT !.n = @ + 1, !.owed = @ /\ ~p.idr]
    \/ EncodeFails(e, p)

\* Mutant: a dropped picture takes the request for an IDR with it.
SkipForgets(e, asked) ==
    /\ e.rate.mode = "rate"
    /\ henc' = [e EXCEPT !.force = FALSE]
    /\ huse' = [huse EXCEPT !.n = @ + 1]
    /\ UNCHANGED <<hdrv, hdec>>

\* OpenH264 holds a bitrate by dropping pictures; the IDR asked of it stays asked.
SkipPicture(e, asked) ==
    /\ e.rate.mode = "rate"
    /\ henc' = [e EXCEPT !.force = FALSE]
    /\ hdrv' = [hdrv EXCEPT !.pending = @ \/ asked]
    /\ huse' = [huse EXCEPT !.n = @ + 1]
    /\ UNCHANGED hdec

EncodeVaapi(e, src, opt) == Outcome(e, VaapiCodes(src, opt))

EncodeNvenc(e, src, opt) == Outcome(e, LibraryCodes(src, e.force \/ opt \/ hdrv.pending, opt))

\* Screen content: OpenH264 makes an IDR of every scene change.
EncodeOpenH264(e, src, opt) ==
    \/ \E scene \in BOOLEAN : Outcome(e, LibraryCodes(src, e.force \/ opt \/ hdrv.pending \/ scene, opt))
    \/ SkipPicture(e, e.force \/ opt)

EncodeX264(e, src, opt) == Outcome(e, LibraryCodes(src, e.force \/ opt \/ hdrv.pending, opt))

\* encode(): a picture from the CPU.  Avc444Encoder asks for an IDR of its own.
EncodePicture ==
    /\ henc.open /\ huse.n < MaxPictures
    /\ \E opt \in BOOLEAN : LET src == [read |-> 0, captured |-> 0] IN
          \/ henc.backend = "vaapi" /\ EncodeVaapi(henc, src, opt)
          \/ henc.backend = "nvenc" /\ EncodeNvenc(henc, src, opt)
          \/ henc.backend = "openh264" /\ EncodeOpenH264(henc, src, opt)
          \/ henc.backend = "x264" /\ EncodeX264(henc, src, opt)
    /\ UNCHANGED hcap

-----------------------------------------------------------------------------
(* encode_dmabuf *)

\* import(): a buffer is known by its inode; a new one takes the place of the one used
\* longest ago.  The sequence is in order of last_use.
ImportDmabuf(e, buf) ==
    LET known == {k \in Range(e.imports) : k.buf = buf}
        rest == SelectSeq(e.imports, LAMBDA k : k.buf # buf)
        kept == IF known = {} /\ Len(rest) >= MaxImports THEN Tail(rest) ELSE rest
    IN [e EXCEPT !.imports = Append(kept, IF known = {} THEN [gen |-> hcap.gen, buf |-> buf]
                                          ELSE CHOOSE k \in known : TRUE)]

\* DesktopSession::on_frame has the encoder forget its imports when a frame is of another
\* generation of buffers than the last.
ForgetDmabufs(e) == [e EXCEPT !.imports = IF hcap.seen = hcap.gen THEN @ ELSE << >>]

\* A captured dmabuf, read through its import.  An import the driver refuses leaves the
\* picture to the CPU.
EncodeDmabuf ==
    /\ henc.open /\ huse.n < MaxPictures
    /\ \E buf \in CaptureBuffers :
          LET e == ImportDmabuf(ForgetDmabufs(henc), buf)
              src == [read |-> Last(e.imports).gen, captured |-> hcap.gen]
          IN \/ henc.backend = "vaapi" /\ EncodeVaapi(e, src, FALSE)
             \/ henc.backend = "nvenc" /\ EncodeNvenc(e, src, FALSE)
    /\ hcap' = [hcap EXCEPT !.seen = hcap.gen]

\* External: the compositor replaces its buffers; the new ones may have the old ones' inodes.
ReplaceBuffers ==
    /\ hcap.gen < 2 /\ henc.open
    /\ hcap' = [hcap EXCEPT !.gen = 2]
    /\ UNCHANGED <<henc, hdrv, hdec, huse>>

EncoderNext ==
    CreateEncoder \/ Retune \/ RequestIdr \/ EncodePicture \/ EncodeDmabuf \/ ReplaceBuffers

EncoderSpec == EncoderInit /\ [][EncoderNext]_encoderVars

-----------------------------------------------------------------------------
(* Properties *)

\* Every picture the client is handed decodes: after failed, lost and dropped pictures, rate
\* changes and re-opened sessions, and across the wrap of frame_num and the order count.
DecoderInStep == hdec.judged.decodes

\* After request_idr, a failed picture or a new session, no picture predicted from another
\* goes out before an IDR.
IdrBeforeOthers == hdec.judged.idr

\* A picture is coded at the rate the encoder reports in config(), unless OpenH264 took half
\* of a change since it was opened.
RateInForce == hdec.judged.rate

\* A picture made from a dmabuf shows the buffer captured, not one of a replaced pool that
\* had the same identity.
CapturedIsCoded == hdec.judged.source

\* Every picture decodes at the client, none is predicted from one the
\* client has not got, and it is coded at the rate reported and from the
\* buffer captured.
EncoderCorrect ==
    /\ DecoderInStep
    /\ IdrBeforeOthers
    /\ RateInForce
    /\ CapturedIsCoded
=============================================================================
