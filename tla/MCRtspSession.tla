---------------------------- MODULE MCRtspSession ----------------------------
(***************************************************************************)
(* RtspSession with descriptions of one and two media sections, MPEG-TS by *)
(* number or by rtpmap, with and without an aggregate control, with        *)
(* relative, absolute and missing controls, and ones without a usable      *)
(* track.                                                                  *)
(***************************************************************************)
EXTENDS RtspSession

Audio == <<MediaLine({96}), RtpmapLine(96, "other"), ControlLine("track0")>>
Video == <<MediaLine({33}), ControlLine("track1")>>
Dynamic == <<MediaLine({0, 97}), ControlLine("track2"), RtpmapLine(97, "MP2T")>>
Elsewhere == <<MediaLine({33}), ControlLine("rtsp://elsewhere/3")>>

MCBodies ==
    { <<>>, Audio, <<MediaLine({33})>>, <<ShortMediaLine>> \o Video,
      <<ControlLine("*")>> \o Video,
      Dynamic \o Audio,
      <<RtpmapLine(96, "MP2T")>> \o Audio \o Dynamic,
      <<ControlLine("all")>> \o Audio \o Elsewhere,
      Elsewhere \o <<ControlLine("track4")>> \o Video }
=============================================================================
